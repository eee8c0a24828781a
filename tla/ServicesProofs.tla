-------------------------- MODULE ServicesProofs --------------------------
(***************************************************************************)
(* Proofs about the services built on the scheduler, for any number of     *)
(* threads, items and signals, any priorities, either port and any         *)
(* interrupt sources: whatever the objects do, the scheduler is consistent *)
(* when no interrupt is active; a thread never waits for a timer that has  *)
(* stopped; k_poll() misses no signal and leaves no registration behind.   *)
(*                                                                         *)
(* All objects but the timer keep the scheduler's invariant in every step. *)
(* The timer's expiry handler does not: it unlinks a thread and readies it *)
(* in a later step, with device interrupts in between.  There the          *)
(* invariant is one of the record that the rest of the handler will leave. *)
(* What is said of the timer assumes ~NestedStops: no interrupt stops it   *)
(* while the handler is taking the thread off the wait queue.              *)
(***************************************************************************)
EXTENDS Services, WaitProofs

(***************************************************************************)
(* The kernel between two steps: the scheduler, the clock interrupt and    *)
(* the wait queues.                                                        *)
(***************************************************************************)
KernelInv == IInv /\ ClockInv /\ WaitsExact(k)

\* what it says of the running thread
LEMMA RunningFacts ==
    ASSUME KernelInv
    PROVE  /\ k \in KernelType /\ Live(k) /\ slice \in SliceSettings
           /\ k.current \in Threads /\ "PENDING" \notin k.state[k.current]
           /\ k.to[k.current] = "INACTIVE" /\ WaitsExact(k)
BY DEF KernelInv, IInv, TypeOK, Live, KernelType, is_thread_ready,
       is_thread_timeout_active

\* a step that leaves the kernel alone
LEMMA KernelSame ==
    ASSUME KernelInv, k' = k, isr' = isr, clk' = clk, slice' = slice
    PROVE  KernelInv'
BY DEF KernelInv, IInv, TypeOK, ClockInv

\* a call that concerns no waiter
LEMMA CalmKept ==
    ASSUME KernelInv, IInv', clk' = clk, Calm(k, k')
    PROVE  KernelInv'
<1>1. WaitsExact(k')
  BY WaitsFrame DEF KernelInv, Calm, Undisturbed
<1>2. ClockInv'
  BY DEF KernelInv, ClockInv, Calm, Undisturbed
<1> QED BY <1>1, <1>2 DEF KernelInv

\* the clock and device interrupts
LEMMA InterruptsKept ==
    ASSUME KernelInv, Clock \/ DevEnter \/ DevExit
    PROVE  /\ KernelInv'
           /\ \/ Passed(k, k')
              \/ \E t \in Threads : Expired(k, k', t) \/ Handled(k, k', t)
<1>0. IInv /\ ClockInv /\ WaitsExact(k)
  BY DEF KernelInv
<1>1. ASSUME Passed(k, k') PROVE WaitsExact(k')
  BY <1>0, <1>1, WaitsFrame DEF Passed, Undisturbed
<1>2. CASE Clock
  <2>1. IInv' /\ ClockInv'
    BY <1>0, <1>2, ClockStays, ClockEffect
  <2>2. \/ Passed(k, k')
        \/ \E t \in Threads : Expired(k, k', t) \/ Handled(k, k', t)
    BY <1>0, <1>2, ClockEffect
  <2>3. ASSUME NEW t \in Threads, Expired(k, k', t) PROVE WaitsExact(k')
    BY <1>0, <2>3, WaitsFrame DEF Expired
  <2>4. ASSUME NEW t \in Threads, Handled(k, k', t) PROVE WaitsExact(k')
    BY <2>4 DEF Handled
  <2> QED BY <1>1, <2>1, <2>2, <2>3, <2>4 DEF KernelInv
<1>3. CASE DevEnter \/ DevExit
  <2>1. Device
    BY <1>3 DEF Device
  <2>2. IInv' /\ Passed(k, k') /\ ClockInv'
    BY <1>0, <2>1, DeviceStays, DevicePassed
  <2> QED BY <1>1, <2>2 DEF KernelInv
<1> QED BY <1>2, <1>3

\* suspending, resuming and aborting a thread that is inside a call
LEMMA DisturbKept ==
    ASSUME KernelInv, Disturb
    PROVE  /\ KernelInv' /\ isr' = isr /\ clk' = clk /\ slice' = slice
           /\ Calm(k, k') \/ \E t \in Threads : Aborted(k, k', t)
<1>0. IInv /\ ClockInv /\ WaitsExact(k)
  BY DEF KernelInv
<1>1. PICK t \in Victims : k_thread_suspend(t) \/ resume_not_ready(t) \/ k_thread_abort(t)
  BY DEF Disturb
<1>2. t \in Apps /\ t \in Threads
  BY ObjectsAssumption DEF Apps
<1>3. isr' = isr /\ clk' = clk /\ slice' = slice
  BY <1>1 DEF k_thread_suspend, resume_not_ready, k_thread_resume, k_thread_abort, Call
<1>4. CASE k_thread_suspend(t)
  <2>1. IInv' /\ Calm(k, k')
    BY <1>0, <1>2, <1>4, SuspendStays, SuspendCalm
  <2> QED BY <1>3, <2>1, CalmKept
<1>5. CASE resume_not_ready(t)
  <2>1. IInv' /\ Calm(k, k')
    BY <1>0, <1>2, <1>5, ResumeStays, ResumeCalm
  <2> QED BY <1>3, <2>1, CalmKept
<1>6. CASE k_thread_abort(t)
  <2>1. IInv' /\ Aborted(k, k', t)
    BY <1>0, <1>2, <1>6, AbortStays, AbortAborts
  <2>2. WaitsExact(k') /\ ClockInv'
    BY <1>0, <1>2, <1>3, <2>1 DEF ClockInv, Aborted
  <2> QED BY <1>2, <1>3, <2>1, <2>2 DEF KernelInv
<1> QED BY <1>1, <1>4, <1>5, <1>6

\* k_sleep()
LEMMA RestKept ==
    ASSUME KernelInv, Rest
    PROVE  /\ KernelInv' /\ isr' = isr /\ clk' = clk /\ slice' = slice
           /\ Calm(k, k') /\ call[k.current] = NoCall /\ InThread
           /\ use' = use /\ call' = call /\ data' = data /\ held' = held
<1>1. k_sleep /\ InThread /\ call[k.current] = NoCall
  BY DEF Rest, Caller
<1>2. isr' = isr /\ clk' = clk /\ slice' = slice
  BY <1>1 DEF k_sleep, Call
<1>3. IInv' /\ Calm(k, k')
  BY <1>1, SleepStays, SleepCalm DEF KernelInv
<1> QED BY <1>1, <1>2, <1>3, CalmKept DEF Rest, objVars

\* k_yield()
LEMMA YieldKept ==
    ASSUME KernelInv, k_yield
    PROVE  KernelInv'
<1> DEFINE k1 == move_thread_to_end_of_prio_q(k, k.current)
<1>1. /\ k' = IF k.current = k1.cache THEN k1 ELSE swap(k1)
      /\ InThread /\ clk' = clk
  BY DEF k_yield, Call
<1>2. Good(k1) /\ SameThreads(k, k1)
  BY <1>1, InThreadFacts, GoodMoved DEF KernelInv
<1>3. k1 \in KernelType
  BY <1>2 DEF Good, Holds
<1> HIDE DEF k1
<1>4. Calm(k, k1) /\ k1.current = k.current
  BY <1>2 DEF SameThreads, Calm, Undisturbed
<1>5. Calm(k, k')
  BY <1>1, <1>3, <1>4, SwapSwitched, CalmSwitched
<1>6. IInv'
  BY YieldStays DEF KernelInv
<1> QED BY <1>1, <1>5, <1>6, CalmKept

\* the timeout of a timer or a delayed work item is no concern of the threads
LEMMA TimeoutSet ==
    ASSUME NEW kk, Live(kk), WaitsExact(kk), NEW x \in Timers,
           NEW s \in TimeoutStates, NEW k2, k2 = [kk EXCEPT !.to[x] = s]
    PROVE  /\ Live(k2) /\ WaitsExact(k2) /\ Pending(k2) = Pending(kk)
           /\ \A w \in WaitQs : Waiters(k2, w) = Waiters(kk, w)
           /\ Settled(kk) => Settled(k2)
           /\ k2.current = kk.current /\ k2.handling = kk.handling
           /\ k2.q = kk.q /\ k2.prio = kk.prio
           /\ k2.state = kk.state /\ k2.rv = kk.rv /\ k2.wq = kk.wq
           /\ \A t \in Threads : k2.to[t] = kk.to[t]
           /\ k2.to[x] = s
<1>1. kk \in KernelType
  BY DEF Live, Good, Holds
<1>2. /\ k2 \in KernelType
      /\ k2.q = kk.q /\ k2.bmap = kk.bmap /\ k2.cache = kk.cache
      /\ k2.current = kk.current /\ k2.state = kk.state /\ k2.prio = kk.prio
      /\ k2.locked = kk.locked /\ k2.handling = kk.handling
      /\ k2.rv = kk.rv /\ k2.wq = kk.wq
      /\ k2.to[x] = s /\ \A t \in Threads : k2.to[t] = kk.to[t]
  BY <1>1, TimersAssumption DEF KernelType, AllTimeouts
<1>3. Good(k2)
  BY <1>2, GoodFrame DEF Live
<1>4. kk.current \in Threads
  BY <1>1 DEF KernelType
<1>5. Live(k2) /\ (Settled(kk) => Settled(k2))
  BY <1>2, <1>3, <1>4 DEF Live, Settled, is_thread_ready, is_thread_timeout_active,
     is_preempt
<1> QED BY <1>2, <1>5, WaitsFrame

\* The kernel record kk is k but for the timeouts of timers: what an object has
\* made of k when it turns to its waiters.
Almost(kk) ==
    /\ Live(kk) /\ WaitsExact(kk) /\ (isr = <<>> => Settled(kk))
    /\ kk.current = k.current /\ kk.handling = k.handling
    /\ kk.state = k.state /\ kk.rv = k.rv
    /\ \A t \in Threads : kk.to[t] = k.to[t]

\* the invariant says it of the record itself
LEMMA AlmostSame == ASSUME KernelInv PROVE Almost(k)
BY RunningFacts DEF Almost, KernelInv, IInv

\* and starting or stopping a timeout that no thread owns changes nothing
LEMMA AlmostSet ==
    ASSUME NEW kk, Almost(kk), NEW x \in Timers, NEW s \in TimeoutStates
    PROVE  Almost([kk EXCEPT !.to[x] = s])
BY TimeoutSet DEF Almost

\* such a record is as good as k
LEMMA AlmostKept ==
    ASSUME KernelInv, Almost(k'), isr' = isr, clk' = clk, slice' = slice
    PROVE  KernelInv'
<1>1. k' \in KernelType
  BY DEF Almost, Live, Good, Holds
<1> QED BY <1>1 DEF Almost, KernelInv, IInv, TypeOK, ClockInv

\* a handler or a call ends with the live record kk
LEMMA LiveKept ==
    ASSUME KernelInv, NEW kk, Live(kk), WaitsExact(kk),
           \A t \in Threads : kk.to[t] = "EXPIRED" => k.to[t] = "EXPIRED",
           kk.handling = k.handling, NEW inThread \in BOOLEAN,
           inThread => isr = <<>>, ~inThread => isr # <<>>,
           k' = switch_unless_isr(kk, inThread), isr' = isr, clk' = clk, slice' = slice
    PROVE  KernelInv' /\ Switched(kk, k')
<1>0. kk \in KernelType /\ slice \in SliceSettings /\ IInv
  BY RunningFacts DEF Live, Good, Holds, KernelInv
<1>1. IInv' /\ Switched(kk, k')
  <2>1. CASE inThread
    <3>1. k' = reschedule_threads(kk)
      BY <2>1 DEF switch_unless_isr
    <3>2. Live(k') /\ Settled(k')
      BY <3>1, RescheduleSettled
    <3> QED BY <1>0, <3>1, <3>2, CallStays, RescheduleSwitched
  <2>2. CASE ~inThread
    <3>1. k' = kk
      BY <2>2 DEF switch_unless_isr
    <3>2. IInv'
      BY <1>0, <2>2, <3>1, IsrStays DEF IInv, TypeOK
    <3> QED BY <3>1, <3>2 DEF Switched
  <2> QED BY <2>1, <2>2
<1>2. WaitsExact(k') /\ ClockInv'
  BY <1>1, WaitsFrame DEF Switched, KernelInv, ClockInv
<1> QED BY <1>1, <1>2 DEF KernelInv

\* the effect of waking t
WokenUp(kk, k2, t) ==
    /\ "PENDING" \in kk.state[t] /\ "PENDING" \notin k2.state[t]
    /\ k2.to[t] = "INACTIVE" /\ k2.rv[t] = "0"
    /\ \A u \in Threads \ {t} :
          /\ k2.state[u] = kk.state[u] /\ k2.to[u] = kk.to[u]
          /\ k2.rv[u] = kk.rv[u] \/ (u = kk.current /\ k2.rv[u] = "EAGAIN")

\* the waiter t is woken, by the running thread or an interrupt
LEMMA WakeKept ==
    ASSUME KernelInv, NEW kk, Almost(kk), NEW t \in Pending(kk),
           NEW inThread \in BOOLEAN, inThread => isr = <<>>, ~inThread => isr # <<>>,
           k' = switch_unless_isr(wake_waiter(kk, t), inThread),
           isr' = isr, clk' = clk, slice' = slice
    PROVE  KernelInv' /\ WokenUp(k, k', t) /\ t \in Threads
<1> DEFINE k1 == wake_waiter(kk, t)
<1>1. /\ Live(k1) /\ WaitsExact(k1) /\ t \in Threads /\ t # kk.current
      /\ k1.current = kk.current /\ k1.handling = kk.handling
      /\ k1.rv[t] = "0" /\ k1.to[t] = "INACTIVE"
      /\ k1.state[t] = (kk.state[t] \ {"PENDING"}) \ {"PRESTART"}
      /\ \A u \in Threads \ {t} : /\ k1.state[u] = kk.state[u]
                                  /\ k1.to[u] = kk.to[u]
                                  /\ k1.rv[u] = kk.rv[u]
  BY WakeLive DEF Almost
<1> HIDE DEF k1
<1>2. /\ kk.current = k.current /\ kk.handling = k.handling
      /\ kk.state = k.state /\ kk.rv = k.rv
      /\ \A u \in Threads : kk.to[u] = k.to[u]
  BY DEF Almost
<1>3. \A u \in Threads : k1.to[u] = "EXPIRED" => k.to[u] = "EXPIRED"
  BY <1>1, <1>2
<1>4. k' = switch_unless_isr(k1, inThread)
  BY DEF k1
<1>5. KernelInv' /\ Switched(k1, k')
  BY <1>1, <1>2, <1>3, <1>4, LiveKept
<1>6. "PENDING" \in k.state[t]
  BY <1>2 DEF Pending
<1>7. "PENDING" \notin k'.state[t] /\ k'.to[t] = "INACTIVE" /\ k'.rv[t] = "0"
  BY <1>1, <1>5 DEF Switched
<1>8. ASSUME NEW u \in Threads \ {t}
      PROVE  /\ k'.state[u] = k.state[u] /\ k'.to[u] = k.to[u]
             /\ k'.rv[u] = k.rv[u] \/ (u = k.current /\ k'.rv[u] = "EAGAIN")
  BY <1>1, <1>2, <1>5 DEF Switched
<1> QED BY <1>1, <1>5, <1>6, <1>7, <1>8 DEF WokenUp

\* ... the first waiter of w
LEMMA FirstIsPending ==
    ASSUME NEW kk, Live(kk), WaitsExact(kk), NEW w \in WaitQs,
           NEW t, t = find_first_thread_to_unpend(kk, w), t # NoThread
    PROVE  t \in Pending(kk)
<1>1. kk \in KernelType
  BY DEF Live, Good, Holds
<1>2. t \in Waiters(kk, w)
  BY <1>1, FirstWaiter
<1> QED BY <1>2 DEF WaitsExact

\* waking the first waiter, in a thread or in an interrupt
LEMMA WakeFirstKept ==
    ASSUME KernelInv, NEW kk, Almost(kk), NEW w \in WaitQs,
           NEW t, t = find_first_thread_to_unpend(kk, w), t # NoThread,
           NEW inThread \in BOOLEAN, inThread => isr = <<>>, ~inThread => isr # <<>>,
           k' = switch_unless_isr(wake_waiter(kk, t), inThread),
           isr' = isr, clk' = clk, slice' = slice
    PROVE  KernelInv'
<1>1. t \in Pending(kk)
  BY FirstIsPending DEF Almost
<1> QED BY <1>1, WakeKept

\* the effect of the running thread waiting
Waiting(kk, k2, w) ==
    LET c == kk.current IN
    /\ k2.state[c] = {"PENDING"} /\ k2.to[c] # "EXPIRED" /\ k2.rv[c] = "EAGAIN"
    /\ \A u \in Threads \ {c} :
          k2.state[u] = kk.state[u] /\ k2.to[u] = kk.to[u] /\ k2.rv[u] = kk.rv[u]
    /\ \A v \in WaitQs \ {w} : Waiters(k2, v) = Waiters(kk, v)

\* _pend_current_thread() and _Swap()
LEMMA BlockKept ==
    ASSUME KernelInv, InThread, NEW w \in WaitQs, NEW timeout, NEW c,
           Block(w, timeout, c)
    PROVE  /\ KernelInv' /\ Waiting(k, k', w)
           /\ timeout # "TIMED" => k'.to[k.current] = "INACTIVE"
           /\ isr' = isr /\ clk' = clk /\ slice' = slice
           /\ call' = [call EXCEPT ![k.current] = c]
<1> DEFINE r == k.current
<1>1. /\ k' = swap(pend_current_thread(k, w, timeout = "TIMED"))
      /\ isr' = isr /\ clk' = clk /\ slice' = slice
      /\ call' = [call EXCEPT ![r] = c]
  BY DEF Block, Call
<1>2. \/ timeout # "TIMED" /\ k' = PendedForever(k, w)
      \/ timeout = "TIMED" /\ k' = PendedTimed(k, w)
  <2>1. CASE timeout = "TIMED"
    BY <1>1, <2>1 DEF PendedTimed, pend_current_thread, pend_thread, Linked
  <2>2. CASE timeout # "TIMED"
    BY <1>1, <2>2 DEF PendedForever, pend_current_thread, pend_thread, Linked
  <2> QED BY <2>1, <2>2
<1>3. /\ IInv /\ WaitsExact(k) /\ Good(k) /\ is_thread_ready(k, r)
      /\ r # Idle /\ r \in Threads /\ slice \in SliceSettings
  BY InThreadFacts DEF KernelInv
<1> HIDE DEF r
<1>4. r = k.current
  BY DEF r
<1>5. k' = PendedForever(k, w) \/ k' = PendedTimed(k, w)
  BY <1>2
<1>6. Live(k') /\ Settled(k') /\ WaitsExact(k') /\ k'.handling = k.handling
  BY ONLY <1>3, <1>4, <1>5, w \in WaitQs, PendSettled
<1>7. \A v \in WaitQs \ {w} : k'.wq[v] = k.wq[v]
  BY ONLY <1>3, <1>4, <1>5, w \in WaitQs, PendSettled
<1>8. k'.state[r] = {"PENDING"} /\ k'.rv[r] = "EAGAIN"
  BY ONLY <1>3, <1>4, <1>5, w \in WaitQs, PendSettled
<1>9. \A u \in Threads \ {r} : /\ k'.state[u] = k.state[u]
                               /\ k'.to[u] = k.to[u]
                               /\ k'.rv[u] = k.rv[u]
  BY ONLY <1>3, <1>4, <1>5, w \in WaitQs, PendSettled
<1>10. /\ k' = PendedForever(k, w) => k'.to[r] = "INACTIVE"
       /\ k' = PendedTimed(k, w) => k'.to[r] = "ACTIVE"
  BY ONLY <1>3, <1>4, <1>5, w \in WaitQs, PendSettled
<1>11. k'.to[r] # "EXPIRED" /\ (timeout # "TIMED" => k'.to[r] = "INACTIVE")
  BY <1>2, <1>10
<1>12. IInv'
  BY <1>1, <1>3, <1>6, CallStays
<1>13. ClockInv'
  BY <1>1, <1>6, <1>9, <1>11 DEF KernelInv, ClockInv
<1>14. Waiting(k, k', w)
  BY <1>4, <1>7, <1>8, <1>9, <1>11 DEF Waiting, Waiters
<1> QED BY <1>1, <1>4, <1>6, <1>11, <1>12, <1>13, <1>14 DEF KernelInv

\* the return value of the running thread is dead
LEMMA ReturnKept ==
    ASSUME KernelInv, InThread, Call([k EXCEPT !.rv[k.current] = "EAGAIN"])
    PROVE  /\ KernelInv' /\ isr' = isr /\ clk' = clk /\ slice' = slice
           /\ k'.state = k.state /\ k'.to = k.to /\ k'.wq = k.wq
           /\ \A t \in Threads \ {k.current} : k'.rv[t] = k.rv[t]
<1> DEFINE c == k.current
<1>0. /\ IInv /\ WaitsExact(k) /\ c \in Threads /\ k \in KernelType
      /\ slice \in SliceSettings /\ Live(k) /\ Settled(k)
  BY InThreadFacts DEF KernelInv
<1>1. /\ k' = [k EXCEPT !.rv[c] = "EAGAIN"]
      /\ isr' = isr /\ clk' = clk /\ slice' = slice
  BY DEF Call
<1> HIDE DEF c
<1>2. /\ k' \in KernelType
      /\ k'.q = k.q /\ k'.bmap = k.bmap /\ k'.cache = k.cache
      /\ k'.current = k.current /\ k'.prio = k.prio
      /\ k'.locked = k.locked /\ k'.to = k.to /\ k'.wq = k.wq
      /\ k'.handling = k.handling /\ k'.state = k.state
      /\ k'.rv[c] = "EAGAIN" /\ \A u \in Threads \ {c} : k'.rv[u] = k.rv[u]
  BY <1>0, <1>1 DEF KernelType, RetVals
<1>3. Live(k') /\ Settled(k')
  <2>1. Good(k')
    BY <1>0, <1>2, GoodFrame DEF Live
  <2> QED BY <1>0, <1>2, <2>1 DEF Live, Settled, is_thread_ready,
             is_thread_timeout_active, is_preempt
<1>4. IInv'
  BY <1>0, <1>1, <1>3, CallStays
<1>5. WaitsExact(k') /\ ClockInv'
  BY <1>0, <1>1, <1>2, WaitsFrame DEF KernelInv, ClockInv
<1> QED BY <1>1, <1>2, <1>4, <1>5 DEF KernelInv, c

(***************************************************************************)
(* Queues, workqueues and alerts.  Their calls are neither the timer's nor *)
(* those of k_poll(); a submission or an append remembers what its caller  *)
(* does next.                                                              *)
(***************************************************************************)
TimerOps == {"timer_sync", "timer_stop"}
TwoStep == {"append", "submit"}
Plain(o) == o \notin PollOps \cup TimerOps
Ordinary(c) ==
    /\ Plain(c.op)
    /\ c.op \in TwoStep => Plain(c.after.op) /\ c.after.op \notin TwoStep

OrdinaryCalls == DOMAIN call = Threads /\ \A t \in Threads : Ordinary(call[t])

\* the running thread goes on to an ordinary call, or nothing happens
Turn == \/ call' = call
        \/ \E c : Ordinary(c) /\ call' = [call EXCEPT ![k.current] = c]

\* so every call stays an ordinary one
LEMMA TurnKept == ASSUME OrdinaryCalls, Turn PROVE OrdinaryCalls'
BY DEF OrdinaryCalls, Turn

\* a call that is not of two steps
LEMMA SimpleOrdinary ==
    ASSUME NEW c, Plain(c.op), c.op \notin TwoStep PROVE Ordinary(c)
BY DEF Ordinary

\* who calls
LEMMA CallerLevel ==
    ASSUME NEW inThread \in BOOLEAN, Caller(inThread)
    PROVE  /\ inThread => isr = <<>> /\ InThread
           /\ ~inThread => isr # <<>>
BY DEF Caller, InThread, Active

\* k_queue_insert()
LEMMA InsertKept ==
    ASSUME KernelInv, NEW kk, Almost(kk), NEW l, NEW prev, NEW x,
           NEW inThread \in BOOLEAN, inThread => isr = <<>>, ~inThread => isr # <<>>,
           queue_insert(kk, l, prev, x, inThread),
           isr' = isr, clk' = clk, slice' = slice
    PROVE  KernelInv'
<1> DEFINE t == find_first_thread_to_unpend(kk, QueueWaitQ)
<1>1. CASE t # NoThread
  <2>1. k' = switch_unless_isr(wake_waiter(kk, t), inThread)
    BY <1>1 DEF queue_insert
  <2> QED BY <1>1, <2>1, QueueAssumption, WakeFirstKept
<1>2. CASE t = NoThread
  <2>1. k' = kk
    BY <1>2 DEF queue_insert
  <2> QED BY <2>1, AlmostKept
<1> QED BY <1>1, <1>2

\* two waiters are woken in a row
LEMMA WakeTwoKept ==
    ASSUME KernelInv, NEW w \in WaitQs,
           NEW t1, t1 = find_first_thread_to_unpend(k, w), t1 # NoThread,
           NEW k1, k1 = wake_waiter(k, t1),
           NEW t2, t2 = find_first_thread_to_unpend(k1, w), t2 # NoThread,
           NEW inThread \in BOOLEAN, inThread => isr = <<>>, ~inThread => isr # <<>>,
           k' = switch_unless_isr(wake_waiter(k1, t2), inThread),
           isr' = isr, clk' = clk, slice' = slice
    PROVE  KernelInv'
<1> DEFINE k2 == wake_waiter(k1, t2)
<1>1. t1 \in Pending(k) /\ Live(k) /\ WaitsExact(k)
  BY RunningFacts, FirstIsPending
<1>2. /\ Live(k1) /\ WaitsExact(k1) /\ k1.handling = k.handling
      /\ k1.to[t1] = "INACTIVE" /\ \A u \in Threads \ {t1} : k1.to[u] = k.to[u]
  BY <1>1, WakeLive
<1>3. t2 \in Pending(k1)
  BY <1>2, FirstIsPending
<1>4. /\ Live(k2) /\ WaitsExact(k2) /\ k2.handling = k1.handling
      /\ k2.to[t2] = "INACTIVE" /\ \A u \in Threads \ {t2} : k2.to[u] = k1.to[u]
  BY <1>2, <1>3, WakeLive
<1>5. k' = switch_unless_isr(k2, inThread)
  BY DEF k2
<1> HIDE DEF k2
<1>6. \A u \in Threads : k2.to[u] = "EXPIRED" => k.to[u] = "EXPIRED"
  BY <1>2, <1>4
<1> QED BY <1>2, <1>4, <1>5, <1>6, LiveKept

\* the steps of append_read() and work_submit()
LEMMA AppendTurn ==
    ASSUME NEW x, NEW after, Plain(after.op), after.op \notin TwoStep,
           append_read(x, after)
    PROVE  Turn
<1> DEFINE c == [op |-> "append", x |-> x, prev |-> data_q.tail, after |-> after]
<1>1. call' = [call EXCEPT ![k.current] = c]
  BY DEF append_read
<1>2. Ordinary(c)
  BY DEF Ordinary, Plain, PollOps, TimerOps, TwoStep
<1> QED BY <1>1, <1>2 DEF Turn

\* the first step of k_work_submit()
LEMMA SubmitTurn ==
    ASSUME NEW x, NEW after, Plain(after.op), after.op \notin TwoStep,
           work_submit(x, after)
    PROVE  /\ Turn /\ k' = k /\ isr' = isr /\ clk' = clk /\ slice' = slice
<1> DEFINE c == [op |-> "submit", x |-> x, after |-> after]
<1>1. call' = [call EXCEPT ![k.current] = c]
  BY DEF work_submit, Goto
<1>2. Ordinary(c)
  BY DEF Ordinary, Plain, PollOps, TimerOps, TwoStep
<1> QED BY <1>1, <1>2 DEF Turn, work_submit, schedVars

\* a call without arguments, or with one
LEMMA GotoTurn ==
    ASSUME NEW o, Plain(o), o \notin TwoStep, NEW x,
           Goto([op |-> o]) \/ Goto(At(o, x))
    PROVE  Turn
<1>1. Ordinary([op |-> o]) /\ Ordinary(At(o, x))
  BY SimpleOrdinary DEF At
<1> QED BY <1>1 DEF Goto, Turn

\* facts about the calls the objects make
LEMMA NoCallOrdinary == Ordinary(NoCall) /\ Plain("none") /\ "none" \notin TwoStep
BY DEF Ordinary, NoCall, Plain, PollOps, TimerOps, TwoStep

\* a call that waits
LEMMA BlockTurn ==
    ASSUME KernelInv, InThread, NEW w \in WaitQs, NEW timeout,
           NEW o, Plain(o), o \notin TwoStep, Block(w, timeout, [op |-> o])
    PROVE  KernelInv' /\ Turn
<1>1. KernelInv' /\ call' = [call EXCEPT ![k.current] = [op |-> o]]
  BY BlockKept
<1>2. Ordinary([op |-> o])
  BY SimpleOrdinary
<1> QED BY <1>1, <1>2 DEF Turn

\* a call that returns
LEMMA ReturnTurn ==
    ASSUME KernelInv, InThread, Returns
    PROVE  KernelInv' /\ Turn
<1>1. Call([k EXCEPT !.rv[k.current] = "EAGAIN"]) /\ call' = [call EXCEPT ![k.current] = NoCall]
  BY DEF Returns
<1> QED BY <1>1, ReturnKept, NoCallOrdinary DEF Turn

\* the interrupts change no call
LEMMA InterruptsTurn ==
    ASSUME KernelInv, Rest \/ Interrupts
    PROVE  KernelInv' /\ Turn
<1>1. CASE Rest
  BY <1>1, RestKept DEF Turn
<1>2. CASE Interrupts
  BY <1>2, InterruptsKept DEF Turn, Interrupts, objVars
<1> QED BY <1>1, <1>2

\* the second half of k_queue_append()
LEMMA AppendInsertTurn ==
    ASSUME KernelInv, OrdinaryCalls, append_insert
    PROVE  KernelInv' /\ Turn
<1> DEFINE c == call[k.current]
<1>1. /\ InThread /\ c.op = "append" /\ queue_insert(k, data_q, c.prev, c.x, TRUE)
      /\ call' = [call EXCEPT ![k.current] = c.after]
      /\ isr' = isr /\ clk' = clk /\ slice' = slice
  BY DEF append_insert, Resumes
<1>2. isr = <<>> /\ k.current \in Threads /\ Almost(k)
  BY <1>1, RunningFacts, AlmostSame DEF InThread
<1>3. KernelInv'
  BY <1>1, <1>2, InsertKept
<1>4. Ordinary(c)
  BY <1>2 DEF OrdinaryCalls
<1>5. Ordinary(c.after)
  BY <1>1, <1>4, SimpleOrdinary DEF Ordinary, TwoStep
<1> QED BY <1>1, <1>3, <1>5 DEF Turn

\* queue.c
LEMMA QueueKept ==
    ASSUME KernelInv, OrdinaryCalls, QueueNext
    PROVE  KernelInv' /\ Turn
<1>0. Almost(k) /\ QueueWaitQ \in WaitQs
  BY AlmostSame, QueueAssumption
<1>1. ASSUME NEW x \in Items, k_queue_append(x) PROVE KernelInv' /\ Turn
  <2>1. append_read(x, NoCall) /\ k' = k /\ isr' = isr /\ clk' = clk /\ slice' = slice
    BY <1>1 DEF k_queue_append, schedVars
  <2>2. NoCall.op = "none"
    BY DEF NoCall
  <2> QED BY <2>1, <2>2, AppendTurn, KernelSame, NoCallOrdinary
<1>2. ASSUME NEW x \in Items, isr_k_queue_append(x) PROVE KernelInv' /\ Turn
  <2>1. /\ queue_insert(k, data_q, data_q.tail, x, FALSE) /\ isr # <<>>
        /\ isr' = isr /\ clk' = clk /\ slice' = slice /\ call' = call
    BY <1>2, CallerLevel DEF isr_k_queue_append
  <2> QED BY <1>0, <2>1, InsertKept DEF Turn
<1>3. ASSUME NEW inThread \in BOOLEAN, k_queue_get(inThread) PROVE KernelInv' /\ Turn
  BY <1>3, KernelSame DEF k_queue_get, schedVars, Turn
<1>4. ASSUME NEW inThread \in BOOLEAN, k_queue_cancel_wait(inThread)
      PROVE  KernelInv' /\ Turn
  <2> DEFINE t == find_first_thread_to_unpend(k, QueueWaitQ)
  <2>1. /\ t # NoThread /\ k' = switch_unless_isr(wake_waiter(k, t), inThread)
        /\ isr' = isr /\ clk' = clk /\ slice' = slice /\ call' = call
        /\ inThread => isr = <<>>
        /\ ~inThread => isr # <<>>
    BY <1>4, CallerLevel DEF k_queue_cancel_wait
  <2> QED BY <1>0, <2>1, WakeFirstKept DEF Turn
<1>5. ASSUME NEW inThread \in BOOLEAN, NEW x \in Items, k_queue_prepend(inThread, x)
      PROVE  KernelInv' /\ Turn
  <2>1. /\ queue_insert(k, data_q, Nil, x, inThread)
        /\ isr' = isr /\ clk' = clk /\ slice' = slice /\ call' = call
        /\ inThread => isr = <<>>
        /\ ~inThread => isr # <<>>
    BY <1>5, CallerLevel DEF k_queue_prepend, Producer
  <2> QED BY <1>0, <2>1, InsertKept DEF Turn
<1>6. ASSUME NEW inThread \in BOOLEAN, NEW x \in Items, NEW y \in Items,
             k_queue_append_list(inThread, x, y)
      PROVE  KernelInv' /\ Turn
  <2> DEFINE t1 == find_first_thread_to_unpend(k, QueueWaitQ)
             k1 == wake_waiter(k, t1)
             t2 == find_first_thread_to_unpend(k1, QueueWaitQ)
             k2 == wake_waiter(k1, t2)
  <2>1. /\ isr' = isr /\ clk' = clk /\ slice' = slice /\ call' = call
        /\ inThread => isr = <<>>
        /\ ~inThread => isr # <<>>
    BY <1>6, CallerLevel DEF k_queue_append_list, Producer
  <2>2. \/ k' = k
        \/ t1 # NoThread /\ k' = switch_unless_isr(k1, inThread)
        \/ t1 # NoThread /\ t2 # NoThread /\ k' = switch_unless_isr(k2, inThread)
    BY <1>6 DEF k_queue_append_list
  <2>3. CASE k' = k
    BY <2>1, <2>3, KernelSame DEF Turn
  <2>4. CASE t1 # NoThread /\ k' = switch_unless_isr(k1, inThread)
    BY <1>0, <2>1, <2>4, WakeFirstKept DEF Turn
  <2>5. CASE t1 # NoThread /\ t2 # NoThread /\ k' = switch_unless_isr(k2, inThread)
    BY <1>0, <2>1, <2>5, WakeTwoKept DEF Turn
  <2> QED BY <2>2, <2>3, <2>4, <2>5
<1>7. CASE k_queue_get_return
  BY <1>7, ReturnTurn DEF k_queue_get_return, Resumes
<1>8. ASSUME NEW timeout, k_queue_get_wait(timeout) PROVE KernelInv' /\ Turn
  <2>1. InThread /\ Block(QueueWaitQ, timeout, [op |-> "queue_get"])
    BY <1>8 DEF k_queue_get_wait, Caller
  <2>2. Plain("queue_get") /\ "queue_get" \notin TwoStep
    BY DEF Plain, PollOps, TimerOps, TwoStep
  <2> QED BY <1>0, <2>1, <2>2, BlockTurn
<1> QED BY <1>1, <1>2, <1>3, <1>4, <1>5, <1>6, <1>7, <1>8,
           AppendInsertTurn, InterruptsTurn DEF QueueNext

\* work_q_main() and the submissions it shares with the alert
LEMMA WorkqueueKept ==
    ASSUME KernelInv, OrdinaryCalls, Workqueue
    PROVE  KernelInv' /\ Turn
<1>0. \A o \in {"loop", "run", "handler", "yield", "queue_get"} :
         Plain(o) /\ o \notin TwoStep
  BY DEF Plain, PollOps, TimerOps, TwoStep
<1>1. CASE submit_append
  <2> DEFINE c == call[k.current]
  <2>1. /\ c.op = "submit" /\ append_read(c.x, c.after)
        /\ k' = k /\ isr' = isr /\ clk' = clk /\ slice' = slice
    BY <1>1 DEF submit_append, Resumes, schedVars
  <2>2. Ordinary(c)
    BY RunningFacts DEF OrdinaryCalls
  <2>3. Plain(c.after.op) /\ c.after.op \notin TwoStep
    BY <2>1, <2>2 DEF Ordinary, TwoStep
  <2> HIDE DEF c
  <2> QED BY <2>1, <2>3, AppendTurn, KernelSame
<1>2. CASE append_insert /\ UNCHANGED workVars
  BY <1>2, AppendInsertTurn
<1>3. CASE worker_get
  <2>1. Goto(At("run", data_q.head)) /\ k' = k /\ isr' = isr /\ clk' = clk /\ slice' = slice
    BY <1>3 DEF worker_get, schedVars
  <2> QED BY <1>0, <2>1, GotoTurn, KernelSame
<1>4. CASE worker_wait
  <2>1. InThread /\ Block(QueueWaitQ, "FOREVER", [op |-> "queue_get"])
    BY <1>4 DEF worker_wait, Resumes
  <2> QED BY <1>0, <2>1, QueueAssumption, BlockTurn
<1>5. CASE worker_got
  <2> DEFINE x == IF k.rv[k.current] = "0" THEN data[k.current] ELSE Nil
  <2>1. /\ InThread /\ Call([k EXCEPT !.rv[k.current] = "EAGAIN"])
        /\ Goto([op |-> "loop"]) \/ Goto(At("run", x))
    BY <1>5 DEF worker_got, Resumes
  <2> QED BY <1>0, <2>1, ReturnKept, GotoTurn
<1>6. CASE worker_run
  <2> DEFINE x == call[k.current].x
  <2>1. /\ Goto(At("handler", x)) \/ Goto([op |-> "yield"])
        /\ k' = k /\ isr' = isr /\ clk' = clk /\ slice' = slice
    BY <1>6 DEF worker_run, schedVars
  <2> QED BY <1>0, <2>1, GotoTurn, KernelSame
<1>7. CASE worker_yield
  <2>1. k_yield /\ Goto([op |-> "loop"])
    BY <1>7 DEF worker_yield
  <2> QED BY <1>0, <2>1, YieldKept, GotoTurn
<1> QED BY <1>1, <1>2, <1>3, <1>4, <1>5, <1>6, <1>7 DEF Workqueue

\* a submission by an interrupt, or by the clock interrupt when the record has
\* become kk
LEMMA IsrSubmitKept ==
    ASSUME KernelInv, NEW kk, Almost(kk), NEW x, isr # <<>>, isr_submit(kk, x),
           isr' = isr, clk' = clk, slice' = slice
    PROVE  KernelInv'
<1>1. CASE x \in pending
  BY <1>1, AlmostKept DEF isr_submit
<1>2. CASE x \notin pending
  <2>1. queue_insert(kk, data_q, data_q.tail, x, FALSE)
    BY <1>2 DEF isr_submit
  <2> QED BY <2>1, InsertKept
<1> QED BY <1>1, <1>2

\* k_work_submit() in an interrupt
LEMMA IsrWorkKept ==
    ASSUME KernelInv, NEW x, isr_k_work_submit(x)
    PROVE  KernelInv' /\ Turn
<1>1. /\ isr_submit(k, x) /\ isr # <<>>
      /\ isr' = isr /\ clk' = clk /\ slice' = slice /\ call' = call
  BY CallerLevel DEF isr_k_work_submit
<1> QED BY <1>1, AlmostSame, IsrSubmitKept DEF Turn

\* the handler of a work item returns
LEMMA HandlerReturnKept ==
    ASSUME KernelInv, handler_return
    PROVE  KernelInv' /\ Turn
<1>1. Goto([op |-> "yield"]) /\ k' = k /\ isr' = isr /\ clk' = clk /\ slice' = slice
  BY DEF handler_return, schedVars
<1>2. Plain("yield") /\ "yield" \notin TwoStep
  BY DEF Plain, PollOps, TimerOps, TwoStep
<1> QED BY <1>1, <1>2, GotoTurn, KernelSame

\* k_work_submit()
LEMMA WorkKept ==
    ASSUME KernelInv, OrdinaryCalls, NEW x \in Items, k_work_submit(x)
    PROVE  KernelInv' /\ Turn
<1>1. work_submit(x, NoCall) /\ NoCall.op = "none"
  BY DEF k_work_submit, NoCall
<1> QED BY <1>1, NoCallOrdinary, SubmitTurn, KernelSame

\* work_q.c, plain work
LEMMA WorkQKept ==
    ASSUME KernelInv, OrdinaryCalls, WorkQNext
    PROVE  KernelInv' /\ Turn
<1>1. CASE handler_resubmit
  <2> DEFINE x == call[k.current].x
  <2>1. work_submit(x, [op |-> "yield"])
    BY <1>1 DEF handler_resubmit
  <2>2. Plain("yield") /\ "yield" \notin TwoStep
    BY DEF Plain, PollOps, TimerOps, TwoStep
  <2> QED BY <2>1, <2>2, SubmitTurn, KernelSame
<1> QED BY <1>1, WorkKept, WorkqueueKept, HandlerReturnKept, IsrWorkKept,
           InterruptsTurn DEF WorkQNext

\* the record after a cancellation
LEMMA CancelledAlmost ==
    ASSUME KernelInv, NEW x \in Delayed
    PROVE  Almost(cancelled_k(x))
<1>1. x \in Timers /\ Almost(k) /\ "INACTIVE" \in TimeoutStates
  BY AlmostSame DEF Delayed, TimeoutStates
<1>2. Almost([k EXCEPT !.to[x] = "INACTIVE"])
  BY <1>1, AlmostSet
<1> QED BY <1>1, <1>2 DEF cancelled_k, abort_thread_timeout

\* k_delayed_work_submit_to_queue()
LEMMA DelayedSubmitKept ==
    ASSUME KernelInv, NEW inThread \in BOOLEAN, NEW x \in Delayed, NEW delay,
           inThread => isr = <<>>, ~inThread => isr # <<>>,
           delayed_submit(inThread, x, delay)
    PROVE  KernelInv'
<1> DEFINE k1 == IF x \in attached THEN cancelled_k(x) ELSE k
           l1 == IF x \in attached THEN cancelled_list(x) ELSE data_q
<1>1. Almost(k1) /\ x \in Timers /\ "ACTIVE" \in TimeoutStates
  BY AlmostSame, CancelledAlmost DEF Delayed, TimeoutStates
<1>2. /\ isr' = isr /\ clk' = clk /\ slice' = slice
      /\ \/ queue_insert(k1, l1, l1.tail, x, inThread)
         \/ k' = k1
         \/ k' = add_thread_timeout(k1, x)
  BY DEF delayed_submit
<1> HIDE DEF k1, l1
<1>3. CASE queue_insert(k1, l1, l1.tail, x, inThread)
  BY <1>1, <1>2, <1>3, InsertKept
<1>4. CASE k' = k1
  BY <1>1, <1>2, <1>4, AlmostKept
<1>5. CASE k' = add_thread_timeout(k1, x)
  <2>1. Almost([k1 EXCEPT !.to[x] = "ACTIVE"])
    BY <1>1, AlmostSet
  <2>2. Almost(add_thread_timeout(k1, x))
    BY <2>1 DEF add_thread_timeout
  <2> QED BY <1>2, <1>5, <2>2, AlmostKept
<1> QED BY <1>2, <1>3, <1>4, <1>5

\* work_q.c, delayed work
LEMMA DelayedKept ==
    ASSUME KernelInv, OrdinaryCalls, DelayedNext
    PROVE  KernelInv' /\ Turn
<1>1. ASSUME NEW delay, handler_delayed(delay) PROVE KernelInv' /\ Turn
  <2> DEFINE x == call[k.current].x
  <2>1. /\ isr = <<>> /\ x \in Delayed /\ delayed_submit(TRUE, x, delay)
        /\ Goto([op |-> "yield"])
    BY <1>1 DEF handler_delayed, Resumes, InThread
  <2>2. Plain("yield") /\ "yield" \notin TwoStep
    BY DEF Plain, PollOps, TimerOps, TwoStep
  <2> HIDE DEF x
  <2> QED BY <2>1, <2>2, DelayedSubmitKept, GotoTurn
<1>2. ASSUME NEW x \in Delayed, work_timeout(x) PROVE KernelInv' /\ Turn
  <2>1. /\ isr # <<>> /\ isr_submit([k EXCEPT !.to[x] = "INACTIVE"], x)
        /\ isr' = isr /\ clk' = clk /\ slice' = slice /\ call' = call
    BY <1>2 DEF work_timeout, Active
  <2>2. Almost([k EXCEPT !.to[x] = "INACTIVE"])
    BY AlmostSame, AlmostSet DEF Delayed, TimeoutStates
  <2> QED BY <2>1, <2>2, IsrSubmitKept DEF Turn
<1>3. ASSUME NEW x \in Delayed, NEW inThread \in BOOLEAN,
             k_delayed_work_cancel(inThread, x)
      PROVE  KernelInv' /\ Turn
  <2>1. /\ k' = cancelled_k(x) /\ isr' = isr /\ clk' = clk /\ slice' = slice
        /\ call' = call
    BY <1>3 DEF k_delayed_work_cancel
  <2> QED BY <2>1, CancelledAlmost, AlmostKept DEF Turn
<1>4. ASSUME NEW x \in Delayed, NEW inThread \in BOOLEAN, NEW delay,
             k_delayed_work_submit(inThread, x, delay)
      PROVE  KernelInv' /\ Turn
  BY <1>4, CallerLevel, DelayedSubmitKept DEF k_delayed_work_submit, Turn
<1> QED BY <1>1, <1>2, <1>3, <1>4, WorkqueueKept, HandlerReturnKept, IsrWorkKept,
           WorkKept, InterruptsTurn DEF DelayedNext

\* k_sem_give() of the alert's semaphore
LEMMA SemGiveKept ==
    ASSUME KernelInv, NEW inThread \in BOOLEAN,
           inThread => isr = <<>>, ~inThread => isr # <<>>, sem_give(inThread),
           isr' = isr, clk' = clk, slice' = slice
    PROVE  KernelInv'
<1> DEFINE t == find_first_thread_to_unpend(k, AlertWaitQ)
<1>1. CASE t # NoThread
  <2>1. k' = switch_unless_isr(wake_waiter(k, t), inThread)
    BY <1>1 DEF sem_give
  <2> QED BY <1>1, <2>1, AlertAssumption, AlmostSame, WakeFirstKept
<1>2. CASE t = NoThread
  BY <1>2, KernelSame DEF sem_give
<1> QED BY <1>1, <1>2

\* alert.c
LEMMA AlertKept ==
    ASSUME KernelInv, OrdinaryCalls, AlertNext
    PROVE  KernelInv' /\ Turn
<1>0. \A o \in {"alert", "deliver", "handler", "yield", "alert_recv", "none"} :
         Plain(o) /\ o \notin TwoStep
  BY DEF Plain, PollOps, TimerOps, TwoStep
<1>1. ASSUME NEW inThread \in BOOLEAN, k_alert_send(inThread) PROVE KernelInv' /\ Turn
  <2>1. (inThread => isr = <<>>) /\ (~inThread => isr # <<>>)
    BY <1>1, CallerLevel DEF k_alert_send
  <2>2. CASE /\ sem_give(inThread)
             /\ isr' = isr /\ clk' = clk /\ slice' = slice /\ call' = call
    BY <2>1, <2>2, SemGiveKept DEF Turn
  <2>3. CASE /\ Goto([op |-> "alert"])
             /\ k' = k /\ isr' = isr /\ clk' = clk /\ slice' = slice
    BY <1>0, <2>3, GotoTurn, KernelSame
  <2>4. CASE /\ ~inThread /\ isr_submit(k, AlertWork)
             /\ isr' = isr /\ clk' = clk /\ slice' = slice /\ call' = call
    BY <2>1, <2>4, AlmostSame, IsrSubmitKept DEF Turn
  <2>5. CASE k' = k /\ isr' = isr /\ clk' = clk /\ slice' = slice /\ call' = call
    BY <2>5, KernelSame DEF Turn
  <2> QED BY <1>1, <2>2, <2>3, <2>4, <2>5 DEF k_alert_send, schedVars
<1>2. CASE alert_submit
  <2>1. CASE work_submit(AlertWork, NoCall)
    <3>1. NoCall.op = "none"
      BY DEF NoCall
    <3> QED BY <1>0, <2>1, <3>1, SubmitTurn, KernelSame
  <2>2. CASE Goto(NoCall) /\ k' = k /\ isr' = isr /\ clk' = clk /\ slice' = slice
    BY <2>2, NoCallOrdinary, KernelSame DEF Goto, Turn
  <2> QED BY <1>2, <2>1, <2>2 DEF alert_submit, schedVars
<1>3. CASE deliver
  <2>1. /\ isr = <<>> /\ Goto([op |-> "deliver"])
        /\ isr' = isr /\ clk' = clk /\ slice' = slice
        /\ k' = k \/ sem_give(TRUE)
    BY <1>3 DEF deliver, Resumes, InThread
  <2> QED BY <1>0, <2>1, SemGiveKept, KernelSame, GotoTurn
<1>4. CASE deliver_again
  <2>1. /\ Goto([op |-> "yield"]) \/ Goto(At("handler", AlertWork))
        /\ k' = k /\ isr' = isr /\ clk' = clk /\ slice' = slice
    BY <1>4 DEF deliver_again, schedVars
  <2> QED BY <1>0, <2>1, GotoTurn, KernelSame
<1>5. CASE k_alert_recv
  BY <1>5, KernelSame DEF k_alert_recv, schedVars, Turn
<1>6. CASE k_alert_recv_return
  BY <1>6, ReturnTurn DEF k_alert_recv_return, Resumes
<1>7. ASSUME NEW timeout, k_alert_recv_wait(timeout) PROVE KernelInv' /\ Turn
  <2>1. InThread /\ Block(AlertWaitQ, timeout, [op |-> "alert_recv"])
    BY <1>7 DEF k_alert_recv_wait, Caller
  <2> QED BY <1>0, <2>1, AlertAssumption, BlockTurn
<1>8. CASE Environment
  <2>1. CASE Disturb /\ UNCHANGED objVars
    BY <2>1, DisturbKept DEF Turn, objVars
  <2> QED BY <1>8, <2>1, InterruptsTurn DEF Environment
<1> QED BY <1>1, <1>2, <1>3, <1>4, <1>5, <1>6, <1>7, <1>8, WorkqueueKept,
           InterruptsTurn DEF AlertNext

(***************************************************************************)
(* Polling.  The signals up to the n-th event's:                           *)
(***************************************************************************)
Leading(n) == {Signals[j] : j \in 1..n}

\* none of them, all of them, and each of them
LEMMA LeadingFacts ==
    /\ Len(Signals) \in Nat /\ Leading(0) = {} /\ Leading(Len(Signals)) = Sigs
    /\ \A n \in 1..Len(Signals) : Signals[n] \in Sigs
<1>1. Signals \in Seq(Items) /\ Len(Signals) \in Nat /\ DOMAIN Signals = 1..Len(Signals)
  BY PollAssumption, LenProperties
<1>2. Leading(Len(Signals)) = Sigs
  BY <1>1 DEF Leading, Sigs, ToSet
<1>3. Leading(0) = {}
  BY DEF Leading
<1>4. \A n \in 1..Len(Signals) : Signals[n] \in Sigs
  BY <1>1 DEF Sigs, ToSet
<1> QED BY <1>1, <1>2, <1>3, <1>4

\* one more event
LEMMA LeadingNext ==
    ASSUME NEW n \in Nat \ {0}
    PROVE  Leading(n) = Leading(n - 1) \cup {Signals[n]}
<1>1. 1..n = (1..(n - 1)) \cup {n}
  OBVIOUS
<1> QED BY <1>1 DEF Leading

\* a longer prefix has more
LEMMA LeadingGrows ==
    ASSUME NEW m \in Nat, NEW n \in Nat, m <= n
    PROVE  Leading(m) \subseteq Leading(n)
<1>1. 1..m \subseteq 1..n
  OBVIOUS
<1> QED BY <1>1 DEF Leading

(***************************************************************************)
(* The poller on its way through k_poll().  While it scans, with polling   *)
(* still set, every event so far is registered and none has occurred; all  *)
(* registrations are below the last one noted.  Only then may it wait.     *)
(***************************************************************************)
Polls(t) == call[t].op \in PollOps

ScanAt(i, last, timeout) ==
    [op |-> "poll_scan", i |-> i, last |-> last, timeout |-> timeout]
Scans(t) ==
    call[t].op = "poll_scan" =>
        /\ call[t] = ScanAt(call[t].i, call[t].last, call[t].timeout)
        /\ call[t].i \in 1..(Len(Signals) + 1)
        /\ call[t].last \in 0..(call[t].i - 1)
        /\ poll.listed \subseteq Leading(call[t].last)
        /\ call[t].timeout = "NO_WAIT" => poll.listed = {}
        /\ call[t].timeout # "NO_WAIT" /\ poll.polling =>
              /\ poll.listed = Leading(call[t].i - 1)
              /\ poll.listed \cap poll.signaled = {}
Waits(t) ==
    call[t].op = "poll_wait" =>
        /\ call[t].last \in 0..Len(Signals)
        /\ poll.listed \subseteq Leading(call[t].last)
        /\ "PENDING" \in k.state[t] => k.rv[t] = "EAGAIN"
Clears(t) ==
    call[t].op = "poll_clear" =>
        /\ call[t].i \in 0..Len(Signals)
        /\ poll.listed \subseteq Leading(call[t].i)

Informed(t) == eligible(t, "poll_wait") => poll.signaled = {} /\ poll.listed = Sigs
Successful(t) == served(t, "poll_wait") => poll.ready # {}

PollOf(t) ==
    /\ Scans(t) /\ Waits(t) /\ Clears(t)
    /\ "PENDING" \in k.state[t] => call[t].op = "poll_wait"
    /\ Informed(t) /\ Successful(t)

PollTypes ==
    /\ poll \in [signaled : SUBSET Sigs, listed : SUBSET Sigs,
                 ready : SUBSET Sigs, polling : BOOLEAN]
    /\ DOMAIN call = Threads
    /\ \A t \in Threads : Polls(t) \/ call[t].op = "none"

PollInv ==
    /\ KernelInv /\ PollTypes
    /\ \A t, u \in Threads : Polls(t) /\ Polls(u) => t = u
    /\ (\A t \in Threads : ~Polls(t)) => poll.listed = {}
    /\ \A t \in Threads : PollOf(t)

\* a thread that does not poll only has not to wait
LEMMA Idler ==
    ASSUME NEW t \in Threads, ~Polls(t), "PENDING" \notin k.state[t]
    PROVE  PollOf(t)
BY DEF PollOf, Polls, PollOps, Scans, Waits, Clears, Informed, Successful,
       eligible, waits_in, served

\* the running thread polls, or is about to: the others do not
LEMMA PollerStep ==
    ASSUME PollInv, NEW c \in Threads, \A u \in Threads \ {c} : ~Polls(u),
           NEW r, call' = [call EXCEPT ![c] = r], KernelInv',
           r.op \in PollOps \/ (r.op = "none" /\ poll'.listed = {}),
           poll' \in [signaled : SUBSET Sigs, listed : SUBSET Sigs,
                      ready : SUBSET Sigs, polling : BOOLEAN],
           \A u \in Threads \ {c} : k'.state[u] = k.state[u],
           PollOf(c)'
    PROVE  PollInv'
<1>1. call'[c] = r /\ DOMAIN call' = Threads /\ \A u \in Threads \ {c} : call'[u] = call[u]
  BY DEF PollInv, PollTypes
<1>2. \A u \in Threads \ {c} : ~Polls(u)' /\ call'[u].op = "none"
  BY <1>1 DEF PollInv, PollTypes, Polls
<1>3. \A u \in Threads \ {c} : "PENDING" \notin k'.state[u]
  BY DEF PollInv, PollOf, Polls, PollOps
<1>4. \A u \in Threads \ {c} : PollOf(u)'
  BY <1>2, <1>3 DEF PollOf, Polls, PollOps, Scans, Waits, Clears, Informed, Successful,
       eligible, waits_in, served
<1>5. PollTypes'
  BY <1>1, <1>2 DEF PollTypes, Polls
<1>6. \A t, u \in Threads : Polls(t)' /\ Polls(u)' => t = u
  BY <1>2
<1>7. (\A t \in Threads : ~Polls(t)') => poll'.listed = {}
  BY <1>1 DEF Polls
<1> QED BY <1>4, <1>5, <1>6, <1>7 DEF PollInv

\* the thread that polls is the only one
LEMMA OnlyPoller ==
    ASSUME PollInv, NEW o \in PollOps, Resumes(o)
    PROVE  /\ InThread /\ k.current \in Threads /\ call[k.current].op = o
           /\ "PENDING" \notin k.state[k.current] /\ PollOf(k.current)
           /\ \A u \in Threads \ {k.current} : ~Polls(u)
<1>1. InThread /\ call[k.current].op = o
  BY DEF Resumes
<1>2. k.current \in Threads /\ "PENDING" \notin k.state[k.current]
  BY RunningFacts DEF PollInv
<1> QED BY <1>1, <1>2 DEF PollInv, Polls

\* k_poll() starts
LEMMA PollStarts ==
    ASSUME PollInv, NEW timeout, k_poll(timeout)
    PROVE  PollInv'
<1>0. PICK c : c = k.current
  OBVIOUS
<1> DEFINE r == ScanAt(1, 0, timeout)
<1>1. /\ \A t \in Threads : ~Polls(t)
      /\ poll' = [poll EXCEPT !.polling = TRUE, !.ready = {}]
      /\ call' = [call EXCEPT ![c] = r]
      /\ k' = k /\ isr' = isr /\ clk' = clk /\ slice' = slice
  BY <1>0 DEF k_poll, Polls, schedVars, ScanAt
<1>2. /\ poll.listed = {} /\ DOMAIN call = Threads /\ c \in Threads
      /\ poll \in [signaled : SUBSET Sigs, listed : SUBSET Sigs,
                   ready : SUBSET Sigs, polling : BOOLEAN]
      /\ "PENDING" \notin k.state[c]
  BY <1>0, <1>1, RunningFacts DEF PollInv, PollTypes
<1>3. KernelInv'
  BY <1>1, KernelSame DEF PollInv
<1>4. /\ poll'.listed = {} /\ call'[c] = r
      /\ poll' \in [signaled : SUBSET Sigs, listed : SUBSET Sigs,
                    ready : SUBSET Sigs, polling : BOOLEAN]
  BY <1>1, <1>2
<1>5. Scans(c)'
  <2>1. Leading(0) = {} /\ 1 \in 1..(Len(Signals) + 1) /\ 0 \in 0..(1 - 1) /\ 1 - 1 = 0
    BY LeadingFacts
  <2>2. r.i = 1 /\ r.last = 0 /\ r.timeout = timeout
    BY DEF ScanAt
  <2> HIDE DEF r
  <2> QED BY <1>4, <2>1, <2>2 DEF Scans, r
<1>6. r.op = "poll_scan"
  BY DEF ScanAt
<1> HIDE DEF r
<1>7. PollOf(c)'
  BY <1>1, <1>2, <1>4, <1>5, <1>6 DEF PollOf, Waits, Clears, Informed, Successful,
     eligible, waits_in, served
<1> QED BY <1>1, <1>2, <1>3, <1>4, <1>6, <1>7, PollerStep DEF PollOps

\* one event is looked at
LEMMA PollScans ==
    ASSUME PollInv, poll_scan
    PROVE  PollInv'
<1>0. PICK c : c = k.current
  OBVIOUS
<1>1. PICK i, last, timeout : call[c] = ScanAt(i, last, timeout)
  BY <1>0, OnlyPoller DEF poll_scan, PollOps, PollOf, Scans
<1> DEFINE s == Signals[i]
           met == s \in poll.signaled
           reg == ~met /\ timeout # "NO_WAIT" /\ poll.polling
           last1 == IF reg THEN i ELSE last
           r == ScanAt(i + 1, last1, timeout)
<1>2. call[c].i = i /\ call[c].last = last /\ call[c].timeout = timeout
  BY <1>1 DEF ScanAt
<1>3. /\ Resumes("poll_scan") /\ i <= Len(Signals)
      /\ poll' = IF met THEN [poll EXCEPT !.ready = @ \cup {s}, !.polling = FALSE]
                 ELSE IF reg THEN [poll EXCEPT !.listed = @ \cup {s}]
                 ELSE poll
      /\ call' = [call EXCEPT ![c].i = @ + 1, ![c].last = last1]
      /\ k' = k /\ isr' = isr /\ clk' = clk /\ slice' = slice
  BY <1>0, <1>2 DEF poll_scan, schedVars
<1>4. /\ c \in Threads /\ call[c].op = "poll_scan" /\ "PENDING" \notin k.state[c]
      /\ Scans(c) /\ \A u \in Threads \ {c} : ~Polls(u)
  BY <1>0, <1>3, OnlyPoller DEF PollOf, PollOps
<1>5. /\ DOMAIN call = Threads
      /\ poll \in [signaled : SUBSET Sigs, listed : SUBSET Sigs,
                   ready : SUBSET Sigs, polling : BOOLEAN]
  BY DEF PollInv, PollTypes
<1> HIDE DEF last1
<1>6. call' = [call EXCEPT ![c] = r]
  <2> DEFINE q1 == [call[c] EXCEPT !.i = @ + 1]
             q2 == [q1 EXCEPT !.last = last1]
             f1 == [call EXCEPT ![c] = q1]
  <2>1. q1 = ScanAt(i + 1, last, timeout)
    BY <1>1 DEF ScanAt
  <2>2. q2 = r
    <3>1. [ScanAt(i + 1, last, timeout) EXCEPT !.last = last1] = r
      BY DEF ScanAt
    <3> HIDE DEF q1
    <3> QED BY <2>1, <3>1
  <2>3. call' = [f1 EXCEPT ![c].last = last1]
    BY <1>3
  <2>4. f1[c] = q1 /\ DOMAIN f1 = Threads
    BY <1>4, <1>5
  <2>5. [f1 EXCEPT ![c].last = last1] = [f1 EXCEPT ![c] = q2]
    BY <2>4
  <2> HIDE DEF q1, q2, r
  <2>6. [f1 EXCEPT ![c] = q2] = [call EXCEPT ![c] = q2]
    BY <1>4, <1>5
  <2> QED BY <2>2, <2>3, <2>5, <2>6
<1>7. KernelInv'
  BY <1>3, KernelSame DEF PollInv
<1>8. /\ i \in 1..Len(Signals) /\ last \in 0..(i - 1) /\ poll.listed \subseteq Leading(last)
      /\ timeout = "NO_WAIT" => poll.listed = {}
      /\ timeout # "NO_WAIT" /\ poll.polling =>
            poll.listed = Leading(i - 1) /\ poll.listed \cap poll.signaled = {}
  BY <1>2, <1>3, <1>4, LeadingFacts DEF Scans
<1>9. s \in Sigs /\ Leading(i) = Leading(i - 1) \cup {s} /\ Leading(last) \subseteq Leading(i)
  BY <1>8, LeadingFacts, LeadingNext, LeadingGrows
<1> HIDE DEF s
<1>10. poll' \in [signaled : SUBSET Sigs, listed : SUBSET Sigs,
                  ready : SUBSET Sigs, polling : BOOLEAN]
  BY <1>3, <1>5, <1>9
<1>11. /\ last1 \in 0..i /\ i + 1 \in 1..(Len(Signals) + 1) /\ (i + 1) - 1 = i
  BY <1>8, LeadingFacts DEF last1
<1>12. /\ poll'.listed \subseteq Leading(last1)
       /\ timeout = "NO_WAIT" => poll'.listed = {}
       /\ timeout # "NO_WAIT" /\ poll'.polling =>
            poll'.listed = Leading(i) /\ poll'.listed \cap poll'.signaled = {}
  <2>1. CASE met
    BY <1>3, <1>5, <1>8, <2>1 DEF last1
  <2>2. CASE reg
    BY <1>3, <1>5, <1>8, <1>9, <2>2 DEF last1
  <2>3. CASE ~met /\ ~reg
    BY <1>3, <1>5, <1>8, <2>3 DEF last1
  <2> QED BY <2>1, <2>2, <2>3
<1>13. call'[c] = r /\ r.op = "poll_scan" /\ r.i = i + 1 /\ r.last = last1 /\ r.timeout = timeout
  BY <1>4, <1>5, <1>6 DEF ScanAt
<1>14. r = ScanAt(r.i, r.last, r.timeout)
  BY <1>13
<1> HIDE DEF r, reg, met
<1>15. Scans(c)'
  BY <1>11, <1>12, <1>13, <1>14 DEF Scans
<1>16. PollOf(c)'
  BY <1>3, <1>4, <1>13, <1>15 DEF PollOf, Waits, Clears, Informed, Successful,
     eligible, waits_in, served
<1> QED BY <1>3, <1>4, <1>6, <1>7, <1>10, <1>13, <1>16, PollerStep DEF PollOps

\* the scan is over: k_poll() goes on to remove the registrations, returns, or
\* waits
LEMMA PollBlocks ==
    ASSUME PollInv, poll_block
    PROVE  PollInv'
<1>0. PICK c : c = k.current
  OBVIOUS
<1>1. /\ Resumes("poll_scan") /\ call[c].i > Len(Signals)
      /\ poll' = [poll EXCEPT !.polling = FALSE]
      /\ \/ /\ ~poll.polling
            /\ call' = [call EXCEPT ![c] = Clearing(call[c].last)]
            /\ UNCHANGED schedVars
         \/ /\ poll.polling /\ call[c].timeout = "NO_WAIT"
            /\ call' = [call EXCEPT ![c] = NoCall]
            /\ UNCHANGED schedVars
         \/ /\ poll.polling /\ call[c].timeout # "NO_WAIT"
            /\ Block(PollWaitQ, call[c].timeout,
                     [op |-> "poll_wait", last |-> call[c].last])
  BY <1>0 DEF poll_block
<1>2. /\ c \in Threads /\ InThread /\ call[c].op = "poll_scan"
      /\ "PENDING" \notin k.state[c]
      /\ Scans(c) /\ \A u \in Threads \ {c} : ~Polls(u)
  BY <1>0, <1>1, OnlyPoller DEF PollOf, PollOps
<1>3. /\ DOMAIN call = Threads /\ KernelInv
      /\ poll \in [signaled : SUBSET Sigs, listed : SUBSET Sigs,
                   ready : SUBSET Sigs, polling : BOOLEAN]
  BY DEF PollInv, PollTypes
<1>4. PICK last : last = call[c].last
  OBVIOUS
<1>5. /\ last \in 0..Len(Signals) /\ poll.listed \subseteq Leading(last)
      /\ call[c].timeout = "NO_WAIT" => poll.listed = {}
      /\ call[c].timeout # "NO_WAIT" /\ poll.polling =>
            poll.listed = Sigs /\ poll.signaled = {}
  <2>1. call[c].i = Len(Signals) + 1 /\ (Len(Signals) + 1) - 1 = Len(Signals)
    BY <1>1, <1>2, LeadingFacts DEF Scans
  <2>2. last \in 0..Len(Signals) /\ poll.listed \subseteq Leading(last)
    BY <1>2, <1>4, <2>1, LeadingFacts DEF Scans
  <2>3. call[c].timeout = "NO_WAIT" => poll.listed = {}
    BY <1>2 DEF Scans
  <2>4. call[c].timeout # "NO_WAIT" /\ poll.polling =>
            poll.listed = Leading(Len(Signals)) /\ poll.listed \cap poll.signaled = {}
    BY <1>2, <2>1 DEF Scans
  <2> QED BY <1>3, <2>2, <2>3, <2>4, LeadingFacts
<1>6. /\ poll'.listed = poll.listed /\ poll'.signaled = poll.signaled
      /\ poll' \in [signaled : SUBSET Sigs, listed : SUBSET Sigs,
                    ready : SUBSET Sigs, polling : BOOLEAN]
  BY <1>1, <1>3
<1>7. CASE /\ call' = [call EXCEPT ![c] = Clearing(last)] /\ UNCHANGED schedVars
  <2>1. k' = k /\ KernelInv'
    BY <1>3, <1>7, KernelSame DEF schedVars
  <2>2. call'[c] = Clearing(last) /\ Clearing(last).op = "poll_clear" /\ Clearing(last).i = last
    BY <1>2, <1>3, <1>7 DEF Clearing
  <2>3. PollOf(c)'
    BY <1>2, <1>5, <1>6, <2>1, <2>2 DEF PollOf, Scans, Waits, Clears, Informed, Successful,
       eligible, waits_in, served
  <2> QED BY <1>2, <1>6, <1>7, <2>1, <2>2, <2>3, PollerStep DEF PollOps
<1>8. CASE /\ call[c].timeout = "NO_WAIT"
           /\ call' = [call EXCEPT ![c] = NoCall] /\ UNCHANGED schedVars
  <2>1. k' = k /\ KernelInv'
    BY <1>3, <1>8, KernelSame DEF schedVars
  <2>2. call'[c] = NoCall /\ NoCall.op = "none"
    BY <1>2, <1>3, <1>8 DEF NoCall
  <2>3. PollOf(c)'
    BY <1>2, <1>5, <1>6, <2>1, <2>2 DEF PollOf, Scans, Waits, Clears, Informed, Successful,
       eligible, waits_in, served
  <2> QED BY <1>2, <1>5, <1>6, <1>8, <2>1, <2>2, <2>3, PollerStep DEF PollOps
<1>9. CASE /\ poll.polling /\ call[c].timeout # "NO_WAIT"
           /\ Block(PollWaitQ, call[c].timeout, [op |-> "poll_wait", last |-> last])
  <2> DEFINE r == [op |-> "poll_wait", last |-> last]
  <2>1. KernelInv' /\ Waiting(k, k', PollWaitQ) /\ call' = [call EXCEPT ![c] = r]
    BY <1>0, <1>2, <1>3, <1>9, PollAssumption, BlockKept
  <2>2. /\ k'.state[c] = {"PENDING"} /\ k'.rv[c] = "EAGAIN"
        /\ \A u \in Threads \ {c} : k'.state[u] = k.state[u]
    BY <1>0, <2>1 DEF Waiting
  <2>3. call'[c] = r /\ r.op = "poll_wait" /\ r.last = last
    BY <1>2, <1>3, <2>1
  <2> HIDE DEF r
  <2>4. poll'.signaled = {} /\ poll'.listed = Sigs
    BY <1>5, <1>6, <1>9
  <2>5. PollOf(c)'
    BY <1>5, <1>6, <2>2, <2>3, <2>4 DEF PollOf, Scans, Waits, Clears, Informed, Successful,
       eligible, waits_in, served
  <2> QED BY <1>2, <1>6, <2>1, <2>2, <2>3, <2>5, PollerStep DEF PollOps
<1> QED BY <1>1, <1>4, <1>7, <1>8, <1>9

\* _Swap() returns
LEMMA PollResumes ==
    ASSUME PollInv, poll_resume
    PROVE  PollInv'
<1>0. PICK c : c = k.current
  OBVIOUS
<1>1. PICK last : last = call[c].last
  OBVIOUS
<1>2. /\ Resumes("poll_wait") /\ call' = [call EXCEPT ![c] = Clearing(last)]
      /\ poll' = poll /\ k' = k /\ isr' = isr /\ clk' = clk /\ slice' = slice
  BY <1>0, <1>1 DEF poll_resume, schedVars
<1>3. /\ c \in Threads /\ call[c].op = "poll_wait" /\ "PENDING" \notin k.state[c]
      /\ Waits(c) /\ \A u \in Threads \ {c} : ~Polls(u)
  BY <1>0, <1>2, OnlyPoller DEF PollOf, PollOps
<1>4. /\ DOMAIN call = Threads /\ KernelInv'
      /\ poll' \in [signaled : SUBSET Sigs, listed : SUBSET Sigs,
                    ready : SUBSET Sigs, polling : BOOLEAN]
  BY <1>2, KernelSame DEF PollInv, PollTypes
<1>5. call'[c] = Clearing(last) /\ Clearing(last).op = "poll_clear" /\ Clearing(last).i = last
  BY <1>2, <1>3, <1>4 DEF Clearing
<1>6. PollOf(c)'
  BY <1>1, <1>2, <1>3, <1>5 DEF PollOf, Scans, Waits, Clears, Informed, Successful,
     eligible, waits_in, served
<1> QED BY <1>2, <1>3, <1>4, <1>5, <1>6, PollerStep DEF PollOps

\* one registration is removed, or none is left and k_poll() returns
LEMMA PollClears ==
    ASSUME PollInv, poll_clear
    PROVE  PollInv'
<1>0. PICK c : c = k.current
  OBVIOUS
<1>1. PICK i : i = call[c].i
  OBVIOUS
<1>2. /\ Resumes("poll_clear")
      /\ \/ i = 0 /\ Returns /\ poll' = poll
         \/ /\ i # 0
            /\ poll' = [poll EXCEPT !.listed = @ \ {Signals[i]}]
            /\ call' = [call EXCEPT ![c] = Clearing(i - 1)]
            /\ k' = k /\ isr' = isr /\ clk' = clk /\ slice' = slice
  BY <1>0, <1>1 DEF poll_clear, schedVars
<1>3. /\ c \in Threads /\ InThread /\ call[c].op = "poll_clear"
      /\ "PENDING" \notin k.state[c]
      /\ Clears(c) /\ \A u \in Threads \ {c} : ~Polls(u)
  BY <1>0, <1>2, OnlyPoller DEF PollOf, PollOps
<1>4. /\ DOMAIN call = Threads /\ KernelInv
      /\ poll \in [signaled : SUBSET Sigs, listed : SUBSET Sigs,
                   ready : SUBSET Sigs, polling : BOOLEAN]
  BY DEF PollInv, PollTypes
<1>5. i \in 0..Len(Signals) /\ poll.listed \subseteq Leading(i)
  BY <1>1, <1>3 DEF Clears
<1>6. CASE i = 0 /\ Returns /\ poll' = poll
  <2>1. /\ Call([k EXCEPT !.rv[k.current] = "EAGAIN"])
        /\ call' = [call EXCEPT ![c] = NoCall]
    BY <1>0, <1>6 DEF Returns
  <2>2. KernelInv' /\ k'.state = k.state
    BY <1>3, <1>4, <2>1, ReturnKept
  <2>3. call'[c] = NoCall /\ NoCall.op = "none"
    BY <1>3, <1>4, <2>1 DEF NoCall
  <2>4. poll'.listed = {}
    BY <1>5, <1>6, LeadingFacts
  <2>5. PollOf(c)'
    BY <1>3, <2>2, <2>3 DEF PollOf, Scans, Waits, Clears, Informed, Successful,
       eligible, waits_in, served
  <2> QED BY <1>3, <1>4, <1>6, <2>1, <2>2, <2>3, <2>4, <2>5, PollerStep
<1>7. CASE /\ i # 0
           /\ poll' = [poll EXCEPT !.listed = @ \ {Signals[i]}]
           /\ call' = [call EXCEPT ![c] = Clearing(i - 1)]
           /\ k' = k /\ isr' = isr /\ clk' = clk /\ slice' = slice
  <2> DEFINE r == Clearing(i - 1)
  <2>1. KernelInv'
    BY <1>4, <1>7, KernelSame
  <2>2. call'[c] = r /\ r.op = "poll_clear" /\ r.i = i - 1
    BY <1>3, <1>4, <1>7 DEF Clearing
  <2> HIDE DEF r
  <2>3. i - 1 \in 0..Len(Signals) /\ i \in Nat \ {0}
    BY <1>5, <1>7, LeadingFacts
  <2>4. poll'.listed \subseteq Leading(i - 1)
    BY <1>4, <1>5, <1>7, <2>3, LeadingNext
  <2>5. poll' \in [signaled : SUBSET Sigs, listed : SUBSET Sigs,
                   ready : SUBSET Sigs, polling : BOOLEAN]
    BY <1>4, <1>7
  <2>6. PollOf(c)'
    BY <1>3, <1>7, <2>2, <2>3, <2>4 DEF PollOf, Scans, Waits, Clears, Informed, Successful,
       eligible, waits_in, served
  <2> QED BY <1>3, <1>7, <2>1, <2>2, <2>5, <2>6, PollerStep DEF PollOps, r
<1> QED BY <1>2, <1>6, <1>7

\* the calls stay as they are
LEMMA PollersStay ==
    ASSUME PollInv, call' = call, KernelInv',
           poll' \in [signaled : SUBSET Sigs, listed : SUBSET poll.listed,
                      ready : SUBSET Sigs, polling : BOOLEAN],
           \A t \in Threads : PollOf(t)'
    PROVE  PollInv'
<1>1. poll' \in [signaled : SUBSET Sigs, listed : SUBSET Sigs,
                 ready : SUBSET Sigs, polling : BOOLEAN]
      /\ poll'.listed \subseteq poll.listed
  BY DEF PollInv, PollTypes
<1>2. PollTypes' /\ \A t \in Threads : Polls(t)' <=> Polls(t)
  BY <1>1 DEF PollInv, PollTypes, Polls
<1> QED BY <1>1, <1>2 DEF PollInv

\* What interrupts and sleeping threads do to the poller: it may time out.
Quiet(kk, k2) ==
    \A t \in Threads :
        /\ "PENDING" \in k2.state[t] =>
              "PENDING" \in kk.state[t] /\ (kk.to[t] = "EXPIRED" => k2.to[t] = "EXPIRED")
        /\ k2.rv[t] = kk.rv[t] \/ k2.rv[t] = "EAGAIN"

\* the interrupts do no more
LEMMA InterruptsQuiet ==
    ASSUME KernelInv, Clock \/ DevEnter \/ DevExit
    PROVE  KernelInv' /\ Quiet(k, k')
<1>1. /\ KernelInv' /\ "PENDING" \notin k.state[k.current]
      /\ \/ Passed(k, k')
         \/ \E t \in Threads : Expired(k, k', t) \/ Handled(k, k', t)
  BY RunningFacts, InterruptsKept
<1>2. CASE Passed(k, k')
  BY <1>1, <1>2 DEF Passed, Undisturbed, Quiet
<1>3. ASSUME NEW t \in Threads, Expired(k, k', t) PROVE Quiet(k, k')
  BY <1>3 DEF Expired, Quiet
<1>4. ASSUME NEW t \in Threads, Handled(k, k', t) PROVE Quiet(k, k')
  <2>1. "PENDING" \notin k'.state[t]
    BY <1>4 DEF Handled, Pending
  <2> QED BY <1>4, <2>1 DEF Handled, Quiet
<1> QED BY <1>1, <1>2, <1>3, <1>4

\* and then k_poll()'s invariant stays
LEMMA PollQuiet ==
    ASSUME PollInv, KernelInv', Quiet(k, k'), call' = call, poll' = poll
    PROVE  PollInv'
<1>1. ASSUME NEW t \in Threads PROVE PollOf(t)'
  <2>1. PollOf(t)
    BY DEF PollInv
  <2>2. /\ "PENDING" \in k'.state[t] =>
              "PENDING" \in k.state[t] /\ (k.to[t] = "EXPIRED" => k'.to[t] = "EXPIRED")
        /\ k'.rv[t] = k.rv[t] \/ k'.rv[t] = "EAGAIN"
    BY DEF Quiet
  <2>3. Scans(t)' /\ Waits(t)' /\ Clears(t)'
        /\ ("PENDING" \in k'.state[t] => call'[t].op = "poll_wait")
    BY <2>1, <2>2 DEF PollOf, Scans, Waits, Clears
  <2>4. Informed(t)'
    BY <2>1, <2>2 DEF PollOf, Informed, eligible, waits_in
  <2>5. Successful(t)'
    BY <2>1, <2>2 DEF PollOf, Waits, Successful, served
  <2> QED BY <2>3, <2>4, <2>5 DEF PollOf
<1>2. poll' \in [signaled : SUBSET Sigs, listed : SUBSET poll.listed,
                 ready : SUBSET Sigs, polling : BOOLEAN]
  BY DEF PollInv, PollTypes
<1> QED BY <1>1, <1>2, PollersStay

\* k_poll_signal() and _signal_poll_event()
LEMMA SignalKept ==
    ASSUME PollInv, NEW inThread \in BOOLEAN, NEW s \in Sigs,
           k_poll_signal(inThread, s)
    PROVE  PollInv'
<1>0. PICK t : t = Poller
  OBVIOUS
<1> DEFINE waits  == "PENDING" \in k.state[t]
           missed == waits /\ k.to[t] = "EXPIRED"
<1>1. /\ isr' = isr /\ clk' = clk /\ slice' = slice /\ call' = call
      /\ inThread => isr = <<>>
      /\ ~inThread => isr # <<>>
      /\ \/ /\ s \notin poll.listed /\ k' = k
            /\ poll' = [poll EXCEPT !.signaled = @ \cup {s}]
         \/ /\ s \in poll.listed
            /\ poll' = [signaled |-> poll.signaled \cup {s},
                        listed   |-> poll.listed \ {s},
                        ready    |-> IF missed THEN poll.ready
                                     ELSE poll.ready \cup {s},
                        polling  |-> FALSE]
            /\ k' = IF waits /\ ~missed
                    THEN switch_unless_isr(wake_waiter(k, t), inThread) ELSE k
  BY <1>0, CallerLevel DEF k_poll_signal
<1>2. /\ DOMAIN call = Threads /\ KernelInv
      /\ poll \in [signaled : SUBSET Sigs, listed : SUBSET Sigs,
                   ready : SUBSET Sigs, polling : BOOLEAN]
      /\ \A u \in Threads : PollOf(u)
  BY DEF PollInv, PollTypes
<1>3. CASE /\ s \notin poll.listed /\ k' = k
           /\ poll' = [poll EXCEPT !.signaled = @ \cup {s}]
  <2>1. KernelInv'
    BY <1>1, <1>2, <1>3, KernelSame
  <2>2. /\ poll'.listed = poll.listed /\ poll'.ready = poll.ready
        /\ poll'.polling = poll.polling /\ poll'.signaled = poll.signaled \cup {s}
        /\ poll' \in [signaled : SUBSET Sigs, listed : SUBSET poll.listed,
                      ready : SUBSET Sigs, polling : BOOLEAN]
    BY <1>2, <1>3
  <2>3. ASSUME NEW u \in Threads PROVE PollOf(u)'
    <3>1. PollOf(u)
      BY <1>2
    <3>2. Scans(u)'
      BY <1>1, <1>3, <2>2, <3>1 DEF PollOf, Scans
    <3>3. /\ Waits(u)' /\ Clears(u)' /\ Successful(u)'
          /\ "PENDING" \in k'.state[u] => call'[u].op = "poll_wait"
      BY <1>1, <1>3, <2>2, <3>1 DEF PollOf, Waits, Clears, Successful, served
    <3>4. ~eligible(u, "poll_wait")
      BY <1>3, <3>1 DEF PollOf, Informed
    <3>5. Informed(u)'
      BY <1>1, <1>3, <3>4 DEF Informed, eligible, waits_in
    <3> QED BY <3>2, <3>3, <3>5 DEF PollOf
  <2> QED BY <1>1, <2>1, <2>2, <2>3, PollersStay
<1>4. CASE /\ s \in poll.listed
           /\ poll' = [signaled |-> poll.signaled \cup {s},
                       listed   |-> poll.listed \ {s},
                       ready    |-> IF missed THEN poll.ready
                                    ELSE poll.ready \cup {s},
                       polling  |-> FALSE]
           /\ k' = IF waits /\ ~missed
                   THEN switch_unless_isr(wake_waiter(k, t), inThread) ELSE k
  <2>1. \E u \in Threads : Polls(u)
    BY <1>4 DEF PollInv
  <2>2. t \in Threads /\ Polls(t)
    BY <1>0, <2>1 DEF Poller, Polls
  <2>3. \A u \in Threads \ {t} : ~Polls(u) /\ "PENDING" \notin k.state[u]
    BY <1>2, <2>2 DEF PollInv, PollOf, Polls, PollOps
  <2>4. /\ poll'.listed \subseteq poll.listed /\ ~poll'.polling
        /\ poll' \in [signaled : SUBSET Sigs, listed : SUBSET poll.listed,
                      ready : SUBSET Sigs, polling : BOOLEAN]
        /\ ~missed => poll'.ready # {}
    BY <1>2, <1>4
  <2>5. PollOf(t)
    BY <1>2, <2>2
  <2>6. Scans(t)' /\ Clears(t)'
    BY <1>1, <2>4, <2>5 DEF PollOf, Scans, Clears
  <2>7. ASSUME KernelInv', \A u \in Threads \ {t} : k'.state[u] = k.state[u],
               PollOf(t)'
        PROVE  PollInv'
    <3>1. ASSUME NEW u \in Threads \ {t} PROVE PollOf(u)'
      <4>1. ~Polls(u)' /\ "PENDING" \notin k'.state[u]
        BY <1>1, <2>3, <2>7 DEF Polls
      <4> QED BY <4>1 DEF PollOf, Polls, PollOps, Scans, Waits, Clears, Informed,
                 Successful, eligible, waits_in, served
    <3>2. \A u \in Threads : PollOf(u)'
      BY <2>7, <3>1
    <3> QED BY <1>1, <2>4, <2>7, <3>2, PollersStay
  <2>8. CASE waits /\ ~missed
    <3>1. t \in Pending(k) /\ k' = switch_unless_isr(wake_waiter(k, t), inThread)
      BY <1>4, <2>2, <2>8 DEF Pending
    <3>2. KernelInv' /\ WokenUp(k, k', t)
      BY <1>1, <1>2, <3>1, AlmostSame, WakeKept
    <3>3. /\ "PENDING" \notin k'.state[t]
          /\ \A u \in Threads \ {t} : k'.state[u] = k.state[u]
      BY <3>2 DEF WokenUp
    <3>4. Waits(t)'
      BY <1>1, <2>4, <2>5, <3>3 DEF PollOf, Waits
    <3>5. Informed(t)' /\ Successful(t)'
      BY <2>4, <2>8, <3>3 DEF Informed, Successful, eligible, waits_in, served
    <3>6. PollOf(t)'
      BY <2>6, <3>3, <3>4, <3>5 DEF PollOf
    <3> QED BY <2>7, <3>2, <3>3, <3>6
  <2>9. CASE ~(waits /\ ~missed)
    <3>1. k' = k /\ KernelInv'
      BY <1>1, <1>2, <1>4, <2>9, KernelSame
    <3>2. Waits(t)' /\ ("PENDING" \in k'.state[t] => call'[t].op = "poll_wait")
      BY <1>1, <2>4, <2>5, <3>1 DEF PollOf, Waits
    <3>3. Informed(t)'
      BY <2>9, <3>1 DEF Informed, eligible, waits_in
    <3>4. Successful(t)'
      BY <2>4, <2>9, <3>1 DEF Successful, served
    <3>5. PollOf(t)'
      BY <2>6, <3>2, <3>3, <3>4 DEF PollOf
    <3> QED BY <2>7, <3>1, <3>5
  <2> QED BY <2>8, <2>9
<1> QED BY <1>1, <1>3, <1>4

\* the user resets a signal
LEMMA ResetKept ==
    ASSUME PollInv, NEW s \in Sigs, reset_signal(s)
    PROVE  PollInv'
<1>1. /\ poll' = [poll EXCEPT !.signaled = @ \ {s}] /\ call' = call
      /\ k' = k /\ isr' = isr /\ clk' = clk /\ slice' = slice
  BY DEF reset_signal, schedVars
<1>2. /\ KernelInv' /\ \A u \in Threads : PollOf(u)
      /\ poll \in [signaled : SUBSET Sigs, listed : SUBSET Sigs,
                   ready : SUBSET Sigs, polling : BOOLEAN]
  BY <1>1, KernelSame DEF PollInv, PollTypes
<1>3. /\ poll'.listed = poll.listed /\ poll'.ready = poll.ready
      /\ poll'.polling = poll.polling /\ poll'.signaled = poll.signaled \ {s}
      /\ poll' \in [signaled : SUBSET Sigs, listed : SUBSET poll.listed,
                    ready : SUBSET Sigs, polling : BOOLEAN]
  BY <1>1, <1>2
<1>4. ASSUME NEW u \in Threads PROVE PollOf(u)'
  <2>1. PollOf(u)
    BY <1>2
  <2>2. Scans(u)'
    BY <1>1, <1>3, <2>1 DEF PollOf, Scans
  <2>3. /\ Waits(u)' /\ Clears(u)' /\ Successful(u)' /\ Informed(u)'
        /\ "PENDING" \in k'.state[u] => call'[u].op = "poll_wait"
    BY <1>1, <1>3, <2>1 DEF PollOf, Waits, Clears, Successful, Informed,
       served, eligible, waits_in
  <2> QED BY <2>2, <2>3 DEF PollOf
<1> QED BY <1>1, <1>2, <1>3, <1>4, PollersStay

\* poll.c
LEMMA PollKept ==
    ASSUME PollInv, PollNext
    PROVE  PollInv'
<1>0. KernelInv
  BY DEF PollInv
<1>1. CASE Rest /\ UNCHANGED poll
  <2>1. KernelInv' /\ Calm(k, k') /\ call' = call
    BY <1>0, <1>1, RestKept
  <2>2. Quiet(k, k')
    BY <1>0, <2>1, RunningFacts DEF Calm, Undisturbed, Quiet
  <2> QED BY <1>1, <2>1, <2>2, PollQuiet
<1>2. CASE Interrupts /\ UNCHANGED poll
  BY <1>0, <1>2, InterruptsQuiet, PollQuiet DEF Interrupts, objVars
<1> QED BY <1>1, <1>2, PollStarts, PollScans, PollBlocks, PollResumes, PollClears,
           SignalKept, ResetKept DEF PollNext

(***************************************************************************)
(* Timers.  What goes on around a timer does not stop it.                  *)
(***************************************************************************)
Running(kk, k2) == \A x \in Timers : kk.to[x] # "INACTIVE" => k2.to[x] # "INACTIVE"

\* the timeouts that no thread owns are the same
LEMMA RunningSame ==
    ASSUME NEW kk, NEW k2, \A x \in Timers : k2.to[x] = kk.to[x] PROVE Running(kk, k2)
BY DEF Running

\* k_sleep() touches the timeout of its caller only
LEMMA SleepRuns == ASSUME KernelInv, k_sleep PROVE Running(k, k')
<1>0. PICK c : c = k.current
  OBVIOUS
<1>1. PICK k1 : k1 = remove_thread_from_ready_q(k, c)
  OBVIOUS
<1>2. PICK k2 : k2 = [k1 EXCEPT !.to[c] = "ACTIVE"]
  OBVIOUS
<1>3. InThread /\ k' = swap(k2)
  BY <1>0, <1>1, <1>2 DEF k_sleep, Call, add_thread_timeout
<1>4. Good(k) /\ is_thread_ready(k, c) /\ c \in Threads \ {Idle}
  BY <1>0, <1>3, InThreadFacts DEF KernelInv
<1>5. k1 \in KernelType /\ SameThreads(k, k1)
  BY <1>1, <1>4, OffRemoved DEF Off, Holds
<1>6. k2 \in KernelType /\ \A x \in Timers : k2.to[x] = k1.to[x]
  BY <1>2, <1>4, <1>5, TimersAssumption DEF KernelType, AllTimeouts, TimeoutStates
<1>7. k'.to = k2.to
  BY <1>3, <1>6, SwapSwitched DEF Switched
<1> QED BY <1>5, <1>6, <1>7, RunningSame DEF SameThreads

\* suspending, resuming and aborting touch no timer
LEMMA DisturbRuns == ASSUME KernelInv, Disturb PROVE Running(k, k')
<1>1. PICK t \in Victims : k_thread_suspend(t) \/ resume_not_ready(t) \/ k_thread_abort(t)
  BY DEF Disturb
<1>2. t \in Apps /\ t \in Threads \ {Idle}
  BY ObjectsAssumption DEF Apps
<1>3. k \in KernelType /\ Good(k)
  BY RunningFacts DEF Live
<1>4. CASE k_thread_suspend(t)
  <2>1. PICK k1 : k1 = IF is_thread_ready(k, t) THEN remove_thread_from_ready_q(k, t) ELSE k
    OBVIOUS
  <2>2. PICK k2 : k2 = [k1 EXCEPT !.state[t] = @ \cup {"SUSPENDED"}]
    OBVIOUS
  <2>3. k' = IF t = k.current THEN swap(k2) ELSE k2
    BY <1>4, <2>1, <2>2 DEF k_thread_suspend, Call
  <2>4. k1 \in KernelType /\ k1.to = k.to
    BY <1>2, <1>3, <2>1, OffRemoved DEF Off, Holds, SameThreads
  <2>5. k2 \in KernelType /\ k2.to = k1.to
    BY <1>2, <2>2, <2>4 DEF KernelType, StateFlags
  <2>6. k'.to = k2.to
    BY <2>3, <2>5, SwapSwitched DEF Switched
  <2> QED BY <2>4, <2>5, <2>6, RunningSame
<1>5. CASE resume_not_ready(t)
  <2>1. PICK k1 : k1 = [k EXCEPT !.state[t] = @ \ {"SUSPENDED"}]
    OBVIOUS
  <2>2. PICK k2 : k2 = IF is_thread_ready(k1, t) THEN add_thread_to_ready_q(k1, t) ELSE k1
    OBVIOUS
  <2>3. k' = reschedule_threads(k2)
    BY <1>5, <2>1, <2>2 DEF resume_not_ready, k_thread_resume, resume, Call
  <2>4. k1 \in KernelType /\ k1.to = k.to
    BY <1>2, <1>3, <2>1 DEF KernelType
  <2>5. k2 \in KernelType
    BY <1>2, <2>2, <2>4, AddType
  <2>6. k2.to = k1.to
    BY <2>2, <2>4 DEF add_thread_to_ready_q, KernelType
  <2>7. k'.to = k2.to
    BY <2>3, <2>5, RescheduleSwitched DEF Switched
  <2> QED BY <2>4, <2>6, <2>7, RunningSame
<1>6. CASE k_thread_abort(t)
  <2>1. PICK k1 : k1 = IF is_thread_ready(k, t)
                       THEN remove_thread_from_ready_q(k, t)
                       ELSE abort_thread_timeout(
                              IF "PENDING" \in k.state[t] THEN unpend_thread(k, t) ELSE k, t)
    OBVIOUS
  <2>2. PICK k2 : k2 = [k1 EXCEPT !.state[t] = @ \cup {"DEAD"}]
    OBVIOUS
  <2>3. k' = IF t = k.current THEN swap(k2) ELSE reschedule_threads(k2)
    BY <1>6, <2>1, <2>2 DEF k_thread_abort, single_abort, Call
  <2>4. k1 \in KernelType /\ \A x \in Timers : k1.to[x] = k.to[x]
    <3>1. CASE is_thread_ready(k, t)
      BY <1>2, <1>3, <2>1, <3>1, OffRemoved DEF Off, Holds, SameThreads
    <3>2. CASE ~is_thread_ready(k, t)
      <4>1. PICK k0 : k0 = IF "PENDING" \in k.state[t] THEN unpend_thread(k, t) ELSE k
        OBVIOUS
      <4>2. k0 \in KernelType /\ k0.to = k.to
        BY <1>2, <1>3, <4>1, UnpendEffect
      <4>3. k1 = [k0 EXCEPT !.to[t] = "INACTIVE"]
        BY <2>1, <3>2, <4>1 DEF abort_thread_timeout
      <4> QED BY <1>2, <4>2, <4>3, TimersAssumption DEF KernelType, AllTimeouts, TimeoutStates
    <3> QED BY <3>1, <3>2
  <2>5. k2 \in KernelType /\ k2.to = k1.to
    BY <1>2, <2>2, <2>4 DEF KernelType, StateFlags
  <2>6. k'.to = k2.to
    BY <2>3, <2>5, SwapSwitched, RescheduleSwitched DEF Switched
  <2> QED BY <2>4, <2>5, <2>6, RunningSame
<1> QED BY <1>1, <1>4, <1>5, <1>6

\* the clock interrupt expires a timer, and stops none
LEMMA InterruptsRun ==
    ASSUME KernelInv, Clock \/ DevEnter \/ DevExit PROVE Running(k, k')
<1>0. k \in KernelType /\ slice \in SliceSettings
  BY RunningFacts
<1>1. CASE ClockEnter \/ ClockExpired \/ DevEnter
  <2>1. k' = k \/ k' = [k EXCEPT !.handling = TRUE]
    BY <1>1 DEF ClockEnter, ClockExpired, DevEnter
  <2>2. k'.to = k.to
    BY <1>0, <2>1 DEF KernelType
  <2> QED BY <2>2, RunningSame
<1>2. CASE ClockExit
  <2>1. PICK k1 : k1 = [k EXCEPT !.handling = FALSE]
    OBVIOUS
  <2>2. PICK k2 : k2 = handle_time_slicing(k1, slice[1], slice[2])
    OBVIOUS
  <2>3. IsrExit(k2)
    BY <1>2, <2>1, <2>2 DEF ClockExit
  <2>4. Live(k1) /\ k1.to = k.to
    BY <1>0, <2>1, RunningFacts, HandlingSet DEF KernelType
  <2>5. slice[1] \in Nat
    BY <1>0, SchedAssumption
  <2>6. Live(k2) /\ k2.to = k1.to
    <3>1. k1 \in KernelType
      BY <2>4 DEF Live, Good, Holds
    <3>2. Switched(k1, k2)
      BY <2>2, <3>1, SlicingEffect
    <3>3. Live(k2)
      BY <2>2, <2>4, <2>5, SlicingLive
    <3> QED BY <3>2, <3>3 DEF Switched
  <2>7. k'.to = k2.to
    BY <2>3, <2>6, ExitEffect DEF Live, Good, Holds, Switched
  <2> QED BY <2>4, <2>6, <2>7, RunningSame
<1>3. ASSUME NEW t \in AllTimeouts, ClockExpire(t) PROVE Running(k, k')
  <2>1. k' = [k EXCEPT !.to[t] = "EXPIRED"]
    BY <1>3 DEF ClockExpire
  <2> QED BY <1>0, <2>1 DEF Running, KernelType, AllTimeouts
<1>4. ASSUME NEW t \in Threads, ClockHandle(t) PROVE Running(k, k')
  <2>1. PICK k1 : k1 = [k EXCEPT !.to[t] = "INACTIVE"]
    OBVIOUS
  <2>2. PICK k2 : k2 = IF "PENDING" \in k1.state[t] THEN unpend_thread(k1, t) ELSE k1
    OBVIOUS
  <2>3. k' = ready_thread(k2, t)
    BY <1>4, <2>1, <2>2 DEF ClockHandle, handle_one_expired_timeout
  <2>4. k1 \in KernelType /\ \A x \in Timers : k1.to[x] = k.to[x]
    BY <1>0, <1>4, <2>1, TimersAssumption DEF KernelType, AllTimeouts, TimeoutStates
  <2>5. k2 \in KernelType /\ k2.to = k1.to
    BY <1>4, <2>2, <2>4, UnpendEffect
  <2>6. k'.to = k2.to
    BY <1>4, <2>3, <2>5, ReadyThreadEffect
  <2> QED BY <2>4, <2>5, <2>6, RunningSame
<1>5. CASE DevExit
  <2>1. k'.to = k.to
    BY <1>0, <1>5, ExitEffect DEF DevExit, Switched
  <2> QED BY <2>1, RunningSame
<1> QED BY <1>1, <1>2, <1>3, <1>4, <1>5 DEF Clock

\* waiting for ever touches no timeout of a timer
LEMMA BlockRuns ==
    ASSUME KernelInv, InThread, NEW w \in WaitQs, NEW c, Block(w, "FOREVER", c)
    PROVE  Running(k, k')
<1>0. PICK r : r = k.current
  OBVIOUS
<1>1. PICK k1 : k1 = remove_thread_from_ready_q(k, r)
  OBVIOUS
<1>2. PICK k2 : k2 = Linked(k1, r, w)
  OBVIOUS
<1>3. k' = swap(k2)
  BY <1>0, <1>1, <1>2 DEF Block, Call, pend_current_thread, pend_thread, Linked
<1>4. Good(k) /\ is_thread_ready(k, r) /\ r \in Threads \ {Idle}
  BY <1>0, InThreadFacts DEF KernelInv
<1>5. k1 \in KernelType /\ SameThreads(k, k1)
  BY <1>1, <1>4, OffRemoved DEF Off, Holds
<1>6. k2 \in KernelType /\ k2.to = k1.to
  BY <1>2, <1>4, <1>5, LinkedEffect
<1>7. k'.to = k2.to
  BY <1>3, <1>6, SwapSwitched DEF Switched
<1> QED BY <1>5, <1>6, <1>7, RunningSame DEF SameThreads

\* What the last step of the expiry handler makes of the record kk.
Done(kk, t) == [ready_thread(kk, t) EXCEPT !.rv[t] = "0"]

\* whether it links the thread
Joins(kk, t) == kk.state[t] \ {"PRESTART"} = {} /\ kk.to[t] = "INACTIVE"

\* what it does to the record
LEMMA DoneEffect ==
    ASSUME NEW kk \in KernelType, NEW t \in Threads, NEW k2, k2 = Done(kk, t)
    PROVE  /\ k2 \in KernelType
           /\ k2.current = kk.current /\ k2.prio = kk.prio
           /\ k2.locked = kk.locked /\ k2.to = kk.to /\ k2.wq = kk.wq
           /\ k2.handling = kk.handling
           /\ k2.state = [kk.state EXCEPT ![t] = @ \ {"PRESTART"}]
           /\ Joins(kk, t) =>
                /\ k2.q = [kk.q EXCEPT ![kk.prio[t]] = Append(@, t)]
                /\ k2.bmap = kk.bmap \cup {kk.prio[t]}
                /\ k2.cache = IF kk.prio[t] < kk.prio[kk.cache] THEN t ELSE kk.cache
           /\ ~Joins(kk, t) =>
                k2.q = kk.q /\ k2.bmap = kk.bmap /\ k2.cache = kk.cache
<1>1. PICK k0 : k0 = [kk EXCEPT !.state[t] = @ \ {"PRESTART"}]
  OBVIOUS
<1>2. PICK k1 : k1 = ready_thread(kk, t)
  OBVIOUS
<1>3. /\ k0 \in KernelType
      /\ k0.current = kk.current /\ k0.prio = kk.prio
      /\ k0.locked = kk.locked /\ k0.to = kk.to /\ k0.wq = kk.wq
      /\ k0.handling = kk.handling /\ k0.q = kk.q /\ k0.bmap = kk.bmap
      /\ k0.cache = kk.cache
      /\ k0.state = [kk.state EXCEPT ![t] = @ \ {"PRESTART"}]
      /\ k0.state[t] = kk.state[t] \ {"PRESTART"}
  BY <1>1 DEF KernelType
<1>4. k1 = IF Joins(kk, t) THEN add_thread_to_ready_q(k0, t) ELSE k0
  BY <1>1, <1>2, <1>3 DEF ready_thread, Joins, is_thread_ready, is_thread_timeout_active
<1>5. k1 \in KernelType
  BY <1>3, <1>4, AddType
<1>6. /\ k1.current = k0.current /\ k1.prio = k0.prio
      /\ k1.locked = k0.locked /\ k1.to = k0.to /\ k1.wq = k0.wq
      /\ k1.handling = k0.handling /\ k1.state = k0.state
      /\ Joins(kk, t) =>
           /\ k1.q = [k0.q EXCEPT ![k0.prio[t]] = Append(@, t)]
           /\ k1.bmap = k0.bmap \cup {k0.prio[t]}
           /\ k1.cache = IF k0.prio[t] < k0.prio[k0.cache] THEN t ELSE k0.cache
      /\ ~Joins(kk, t) =>
           k1.q = k0.q /\ k1.bmap = k0.bmap /\ k1.cache = k0.cache
  BY <1>3, <1>4 DEF add_thread_to_ready_q, is_prio_higher, KernelType
<1>7. k2 = [k1 EXCEPT !.rv[t] = "0"]
  BY <1>2 DEF Done
<1>8. /\ k2 \in KernelType
      /\ k2.current = k1.current /\ k2.prio = k1.prio
      /\ k2.locked = k1.locked /\ k2.to = k1.to /\ k2.wq = k1.wq
      /\ k2.handling = k1.handling /\ k2.state = k1.state
      /\ k2.q = k1.q /\ k2.bmap = k1.bmap /\ k2.cache = k1.cache
  <2>1. "0" \in RetVals
    BY DEF RetVals
  <2> QED BY ONLY <1>5, <1>7, <2>1, t \in Threads DEF KernelType
<1> QED BY <1>3, <1>6, <1>8

\* what it means for the waiters
LEMMA DoneFrame ==
    ASSUME NEW kk \in KernelType, NEW t \in Threads, NEW k2, k2 = Done(kk, t)
    PROVE  /\ k2 \in KernelType /\ k2.to = kk.to /\ k2.wq = kk.wq
           /\ k2.handling = kk.handling
           /\ \A u \in Threads : "PENDING" \in k2.state[u] <=> "PENDING" \in kk.state[u]
<1>1. PICK k1 : k1 = ready_thread(kk, t)
  OBVIOUS
<1>2. PICK k0 : k0 = [kk EXCEPT !.state[t] = @ \ {"PRESTART"}]
  OBVIOUS
<1>3. k1 = k0 \/ k1 = add_thread_to_ready_q(k0, t)
  BY <1>1, <1>2 DEF ready_thread
<1>4. k0 \in KernelType
  BY <1>2 DEF KernelType
<1>5. k1 \in KernelType
  BY <1>3, <1>4, AddType
<1>6. /\ k1.to = kk.to /\ k1.wq = kk.wq /\ k1.handling = kk.handling
      /\ k1.state[t] = kk.state[t] \ {"PRESTART"}
      /\ \A u \in Threads \ {t} : k1.state[u] = kk.state[u]
  BY <1>1, ReadyThreadEffect
<1>7. k2 = [k1 EXCEPT !.rv[t] = "0"] /\ "0" \in RetVals
  BY <1>1 DEF Done, RetVals
<1>8. /\ k2 \in KernelType /\ k2.to = k1.to /\ k2.wq = k1.wq
      /\ k2.handling = k1.handling /\ k2.state = k1.state
  BY ONLY <1>5, <1>7, t \in Threads DEF KernelType
<1> QED BY <1>6, <1>8

\* a timeout of no thread makes no difference to it
LEMMA DoneTimeout ==
    ASSUME NEW kk \in KernelType, NEW t \in Threads, Live(Done(kk, t)),
           NEW x \in Timers, NEW s \in TimeoutStates,
           NEW k1, k1 = [kk EXCEPT !.to[x] = s]
    PROVE  k1 \in KernelType /\ Live(Done(k1, t))
<1>1. /\ k1 \in KernelType
      /\ k1.q = kk.q /\ k1.bmap = kk.bmap /\ k1.cache = kk.cache
      /\ k1.current = kk.current /\ k1.state = kk.state /\ k1.prio = kk.prio
      /\ \A u \in Threads : k1.to[u] = kk.to[u]
  BY TimersAssumption DEF KernelType, AllTimeouts
<1>2. Joins(k1, t) <=> Joins(kk, t)
  BY <1>1 DEF Joins
<1>3. PICK a : a = Done(kk, t)
  OBVIOUS
<1>4. PICK b : b = Done(k1, t)
  OBVIOUS
<1>5. /\ b \in KernelType /\ b.q = a.q /\ b.bmap = a.bmap /\ b.cache = a.cache
      /\ b.current = a.current /\ b.state = a.state /\ b.prio = a.prio
      /\ \A u \in Threads : b.to[u] = a.to[u]
      /\ a.current \in Threads
  <2> DEFINE Effect(k0, k2) ==
        /\ k2 \in KernelType
        /\ k2.current = k0.current /\ k2.prio = k0.prio /\ k2.to = k0.to
        /\ k2.state = [k0.state EXCEPT ![t] = @ \ {"PRESTART"}]
        /\ Joins(k0, t) =>
             /\ k2.q = [k0.q EXCEPT ![k0.prio[t]] = Append(@, t)]
             /\ k2.bmap = k0.bmap \cup {k0.prio[t]}
             /\ k2.cache = IF k0.prio[t] < k0.prio[k0.cache] THEN t ELSE k0.cache
        /\ ~Joins(k0, t) =>
             k2.q = k0.q /\ k2.bmap = k0.bmap /\ k2.cache = k0.cache
  <2>1. Effect(kk, a)
    BY <1>3, DoneEffect
  <2>2. Effect(k1, b)
    <3>1. k1 \in KernelType
      BY <1>1
    <3> QED BY ONLY <1>4, <3>1, t \in Threads, DoneEffect
  <2>3. a.current \in Threads
    BY <2>1 DEF KernelType
  <2> QED BY <1>1, <1>2, <2>1, <2>2, <2>3
<1>6. Good(a) /\ is_thread_ready(a, a.current)
  BY <1>3 DEF Live
<1>7. Good(b)
  BY <1>5, <1>6, GoodFrame
<1> QED BY <1>1, <1>4, <1>5, <1>6, <1>7 DEF Live, is_thread_ready, is_thread_timeout_active

\* k_timer_stop() leaves nobody waiting: the timer has one waiter at most.
LEMMA StopWakes ==
    ASSUME NEW kk, Live(kk), WaitsExact(kk),
           \A t \in Pending(kk) : kk.to[t] = "INACTIVE",
           \A t, u \in Pending(kk) : t = u,
           \A w \in WaitQs \ {TimerWaitQ} : Waiters(kk, w) = {},
           NEW k2, k2 = unpend_first(kk)
    PROVE  /\ Live(k2) /\ WaitsExact(k2) /\ Pending(k2) = {}
           /\ k2.current = kk.current /\ k2.handling = kk.handling
           /\ Pending(kk) = {} => k2 = kk
           /\ \A t \in Threads : k2.to[t] = kk.to[t]
<1>1. kk \in KernelType /\ TimerWaitQ \in WaitQs
  BY TimerAssumption DEF Live, Good, Holds
<1>2. PICK t : t = find_first_thread_to_unpend(kk, TimerWaitQ)
  OBVIOUS
<1>3. CASE t = NoThread
  <2>1. k2 = kk
    BY <1>2, <1>3 DEF unpend_first
  <2>2. \A u \in Waiters(kk, TimerWaitQ) : TimedOut(kk, u)
    BY <1>1, <1>2, <1>3, FirstWaiter
  <2>3. Waiters(kk, TimerWaitQ) = {}
    BY <1>1, <2>2 DEF TimedOut, WaitsExact
  <2>4. Pending(kk) = {}
    BY <2>3 DEF WaitsExact
  <2> QED BY <2>1, <2>4
<1>4. CASE t # NoThread
  <2>1. t \in Pending(kk)
    BY <1>1, <1>2, <1>4, FirstIsPending
  <2>2. t \in Threads /\ kk.to[t] = "INACTIVE"
    BY <2>1 DEF Pending
  <2>3. PICK k1 : k1 = unpend_thread(kk, t)
    OBVIOUS
  <2>4. k1 \in KernelType /\ k1.to = kk.to
    BY <1>1, <2>2, <2>3, UnpendEffect
  <2>5. k2 = ready_thread(k1, t)
    BY <1>2, <1>4, <2>3 DEF unpend_first
  <2>6. [k1 EXCEPT !.to[t] = "INACTIVE"] = k1
    BY ONLY <2>2, <2>4, <1>1 DEF KernelType, AllTimeouts
  <2>7. k2 = Woken(kk, t)
    BY <2>3, <2>5, <2>6 DEF Woken, abort_thread_timeout
  <2>8. /\ Live(k2) /\ WaitsExact(k2) /\ Pending(k2) = Pending(kk) \ {t}
        /\ k2.current = kk.current /\ k2.handling = kk.handling
        /\ k2.to[t] = "INACTIVE"
        /\ k2.state[t] = (kk.state[t] \ {"PENDING"}) \ {"PRESTART"}
        /\ \A u \in Threads \ {t} : k2.state[u] = kk.state[u] /\ k2.to[u] = kk.to[u]
    BY <2>1, <2>7, WokenLive
  <2>9. Pending(k2) = {} /\ \A u \in Pending(kk) : u = t
    BY <2>1, <2>8
  <2> QED BY <2>1, <2>2, <2>8, <2>9
<1> QED BY <1>3, <1>4

(***************************************************************************)
(* The invariant of the timer.  The expiry handler is a part of the clock  *)
(* interrupt.  A thread that waits does so for the timer and without a     *)
(* timeout, and is the only one.  While the handler takes it off the wait  *)
(* queue it stays there, and so do the links that the handler has loaded;  *)
(* between the handler's last two steps it is not linked anywhere, and the *)
(* ready queue is the one that the last step will complete.                *)
(***************************************************************************)
Syncs(t) == call[t].op = "timer_sync"

Links == {"none", "wait_q", "ready_q"}

TimerTypes ==
    /\ timer \in [periodic : BOOLEAN, status : BOOLEAN,
                  at : {"idle", "fired", "count", "peek", "unpend", "unlink", "ready"},
                  thread : Threads \cup {NoThread}, links : Links]
    /\ DOMAIN call = Threads
    /\ \A t \in Threads : call[t].op \in TimerOps \cup {"none"}
    /\ \A t, u \in Threads : Syncs(t) /\ Syncs(u) => t = u

Underway ==
    timer.at # "idle" =>
        clk = "handle" /\ isr \in {<<"clk">>, <<"dev", "clk">>, <<"clk", "dev">>}

Waiter ==
    /\ \A t \in Threads : "PENDING" \in k.state[t] => Syncs(t) /\ k.to[t] = "INACTIVE"
    /\ \A w \in WaitQs \ {TimerWaitQ} : Waiters(k, w) = {}

Target ==
    timer.at \in {"unpend", "unlink", "ready"} =>
        timer.thread \in Threads /\ Syncs(timer.thread)

Linking ==
    /\ timer.at \in {"unpend", "unlink"} => "PENDING" \in k.state[timer.thread]
    /\ timer.at = "unlink" => timer.links = "wait_q"

Unlinked(t) ==
    /\ TypeOK /\ ClockInv /\ WaitsExact(k)
    /\ Live(Done(k, t)) /\ "PENDING" \notin k.state[t]

TimerInv ==
    /\ TimerTypes /\ Underway /\ Waiter /\ Target /\ Linking
    /\ timer.at # "ready" => KernelInv
    /\ timer.at = "ready" => Unlinked(timer.thread)
    /\ SyncNotStranded

\* a thread runs: the expiry handler does not
LEMMA AtThreadLevel == ASSUME TimerInv, isr = <<>> PROVE timer.at = "idle" /\ KernelInv
<1>1. timer.at = "idle"
  BY DEF TimerInv, Underway
<1> QED BY <1>1 DEF TimerInv

\* between two expiries only the waiter and the kernel matter
LEMMA TimerIdle ==
    ASSUME TimerTypes', Waiter', KernelInv', SyncNotStranded', timer'.at = "idle"
    PROVE  TimerInv'
BY DEF TimerInv, Underway, Target, Linking

\* the pending thread is the one that synchronizes
LEMMA OneWaiter ==
    ASSUME TimerInv
    PROVE  /\ \A t \in Pending(k) : Syncs(t) /\ k.to[t] = "INACTIVE"
           /\ \A t, u \in Pending(k) : t = u
           /\ \A t \in Threads : Syncs(t) => Pending(k) \subseteq {t}
           /\ WaitsExact(k) /\ k \in KernelType
<1>1. WaitsExact(k) /\ k \in KernelType
  BY DEF TimerInv, KernelInv, IInv, Unlinked, TypeOK
<1>2. \A t \in Pending(k) : t \in Threads /\ Syncs(t) /\ k.to[t] = "INACTIVE"
  BY DEF TimerInv, Waiter, Pending
<1> QED BY <1>1, <1>2 DEF TimerInv, TimerTypes

\* with nobody waiting, nobody is stranded
LEMMA NobodyStranded == ASSUME Pending(k)' = {} PROVE SyncNotStranded'
BY DEF Pending, SyncNotStranded, waits_in

\* The timer is started or stopped, between any two steps of the handler.
LEMMA TimeoutChanged ==
    ASSUME TimerInv, NEW s \in TimeoutStates, k' = [k EXCEPT !.to[Tmr] = s],
           isr' = isr, clk' = clk, slice' = slice, call' = call,
           timer' \in [periodic : BOOLEAN, status : BOOLEAN,
                       at : {timer.at}, thread : {timer.thread}, links : {timer.links}],
           s # "INACTIVE" \/ Pending(k) = {}
    PROVE  TimerInv'
<1>1. Tmr \in Timers
  BY TimerAssumption
<1>2. WaitsExact(k) /\ k \in KernelType
  BY OneWaiter
<1>3. /\ k' \in KernelType
      /\ k'.q = k.q /\ k'.state = k.state /\ k'.prio = k.prio /\ k'.wq = k.wq
      /\ k'.handling = k.handling
      /\ k'.to[Tmr] = s /\ \A t \in Threads : k'.to[t] = k.to[t]
  BY <1>1, <1>2, TimersAssumption DEF KernelType, AllTimeouts
<1>4. timer'.at = timer.at /\ timer'.thread = timer.thread /\ timer'.links = timer.links
  OBVIOUS
<1>5. TimerTypes'
  BY DEF TimerInv, TimerTypes, Syncs
<1>6. Underway' /\ Target' /\ Linking'
  BY <1>3, <1>4 DEF TimerInv, Underway, Target, Linking, Syncs
<1>7. Waiter'
  BY <1>3 DEF TimerInv, Waiter, Syncs, Waiters
<1>8. ASSUME timer.at # "ready" PROVE KernelInv'
  BY <1>1, <1>8, AlmostSame, AlmostSet, AlmostKept DEF TimerInv
<1>10. ASSUME NEW t \in Threads, Unlinked(t) PROVE Unlinked(t)'
  <2>1. Live(Done(k, t)) /\ "PENDING" \notin k.state[t] /\ TypeOK /\ ClockInv
    BY <1>10 DEF Unlinked
  <2>2. Live(Done(k', t))
    BY <1>1, <1>2, <2>1, DoneTimeout
  <2>3. TypeOK' /\ ClockInv'
    BY <1>3, <2>1 DEF TypeOK, ClockInv
  <2>4. WaitsExact(k')
    BY <1>2, <1>3, WaitsFrame
  <2> QED BY <1>3, <2>1, <2>2, <2>3, <2>4 DEF Unlinked
<1>11. SyncNotStranded'
  BY <1>3 DEF SyncNotStranded, waits_in, Pending
<1>12. timer'.at = "ready" => Unlinked(timer.thread)'
  BY <1>4, <1>10 DEF TimerInv, Target, Unlinked
<1> QED BY <1>4, <1>5, <1>6, <1>7, <1>8, <1>11, <1>12 DEF TimerInv

\* k_timer_stop() in an interrupt, unless the handler holds the thread
LEMMA StopKept ==
    ASSUME TimerInv, timer.at # "ready", isr # <<>>, k' = isr_stop(k),
           isr' = isr, clk' = clk, slice' = slice, call' = call
    PROVE  KernelInv' /\ Waiter' /\ Pending(k') = {}
<1>1. KernelInv /\ Tmr \in Timers /\ Waiter
  BY TimerAssumption DEF TimerInv
<1>2. Live(k) /\ WaitsExact(k) /\ k \in KernelType
  BY <1>1, RunningFacts
<1>3. PICK k1 : k1 = [k EXCEPT !.to[Tmr] = "INACTIVE"]
  OBVIOUS
<1>4. k' = unpend_first(k1)
  BY <1>3 DEF isr_stop, abort_thread_timeout
<1>5. "INACTIVE" \in TimeoutStates
  BY DEF TimeoutStates
<1>6. /\ Live(k1) /\ WaitsExact(k1) /\ Pending(k1) = Pending(k)
      /\ \A w \in WaitQs : Waiters(k1, w) = Waiters(k, w)
      /\ k1.current = k.current /\ k1.handling = k.handling
      /\ k1.q = k.q /\ k1.prio = k.prio
      /\ k1.state = k.state /\ \A t \in Threads : k1.to[t] = k.to[t]
  BY ONLY <1>1, <1>2, <1>3, <1>5, TimeoutSet
<1>7. /\ \A t \in Pending(k1) : k1.to[t] = "INACTIVE"
      /\ \A t, u \in Pending(k1) : t = u
      /\ \A w \in WaitQs \ {TimerWaitQ} : Waiters(k1, w) = {}
  BY <1>1, <1>6, OneWaiter DEF Waiter, Pending
<1>8. /\ Live(k') /\ WaitsExact(k') /\ Pending(k') = {}
      /\ k'.current = k1.current /\ k'.handling = k1.handling
      /\ \A t \in Threads : k'.to[t] = k1.to[t]
  BY ONLY <1>4, <1>6, <1>7, StopWakes
<1>9. KernelInv'
  <2>1. \A t \in Threads : k'.to[t] = "EXPIRED" => k.to[t] = "EXPIRED"
    BY <1>6, <1>8
  <2>2. k' = switch_unless_isr(k', FALSE)
    BY DEF switch_unless_isr
  <2>3. FALSE \in BOOLEAN
    OBVIOUS
  <2> QED BY <1>1, <1>6, <1>8, <2>1, <2>2, <2>3, LiveKept
<1>10. Waiter'
  <2>1. \A t \in Threads : "PENDING" \notin k'.state[t]
    BY <1>8 DEF Pending
  <2>2. \A w \in WaitQs : Waiters(k', w) = {}
    BY <1>8 DEF WaitsExact
  <2> QED BY <2>1, <2>2 DEF Waiter
<1> QED BY <1>8, <1>9, <1>10

\* ... and when it does, there is nobody to wake
LEMMA StopNobody ==
    ASSUME TimerInv, timer.at = "ready"
    PROVE  Pending(k) = {} /\ isr_stop(k) = [k EXCEPT !.to[Tmr] = "INACTIVE"]
<1>1. Tmr \in Timers /\ TimerWaitQ \in WaitQs
  BY TimerAssumption
<1>2. /\ timer.thread \in Threads /\ Syncs(timer.thread)
      /\ "PENDING" \notin k.state[timer.thread]
  BY DEF TimerInv, Target, Unlinked
<1>3. Pending(k) = {}
  BY <1>2, OneWaiter DEF Pending
<1>4. k \in KernelType /\ WaitsExact(k)
  BY OneWaiter
<1>5. PICK k1 : k1 = [k EXCEPT !.to[Tmr] = "INACTIVE"]
  OBVIOUS
<1>6. k1 \in KernelType /\ k1.wq = k.wq
  BY ONLY <1>1, <1>4, <1>5 DEF KernelType, AllTimeouts, TimeoutStates
<1>7. Waiters(k1, TimerWaitQ) = {}
  BY <1>1, <1>3, <1>4, <1>6 DEF Waiters, WaitsExact
<1>8. find_first_thread_to_unpend(k1, TimerWaitQ) = NoThread
  BY <1>1, <1>6, <1>7, FirstWaiter
<1> QED BY <1>3, <1>5, <1>8 DEF isr_stop, unpend_first, abort_thread_timeout

\* the interrupts the handler nests in, or that nest in it
LEMMA DeviceNests ==
    ASSUME TimerInv, timer.at # "idle", DevEnter \/ DevExit
    PROVE  /\ k' = k /\ clk' = clk /\ slice' = slice
           /\ isr' \in {<<"clk">>, <<"dev", "clk">>, <<"clk", "dev">>}
           /\ TypeOK => TypeOK'
<1>1. isr \in {<<"clk">>, <<"dev", "clk">>, <<"clk", "dev">>}
  BY DEF TimerInv, Underway
<1>2. CASE DevEnter
  <2>1. isr' = <<"dev">> \o isr /\ ~Contains(isr, "dev") /\ k' = k /\ clk' = clk /\ slice' = slice
    BY <1>2 DEF DevEnter, IsrEnter
  <2>2. isr # <<"dev", "clk">> /\ isr # <<"clk", "dev">>
    <3>1. isr = <<"dev", "clk">> => isr[1] = "dev" /\ 1 \in 1..Len(isr)
      OBVIOUS
    <3>2. isr = <<"clk", "dev">> => isr[2] = "dev" /\ 2 \in 1..Len(isr)
      OBVIOUS
    <3> QED BY <2>1, <3>1, <3>2 DEF Contains
  <2>3. isr' = <<"dev", "clk">>
    BY <1>1, <2>1, <2>2, PairConcat
  <2> QED BY <2>1, <2>3 DEF TypeOK
<1>3. CASE DevExit
  <2>1. /\ isr # <<>> /\ Head(isr) = "dev" /\ isr' = Tail(isr)
        /\ clk' = clk /\ slice' = slice
        /\ k' = IF Tail(isr) = <<>> THEN isr_exit_swap(k) ELSE k
    BY <1>3 DEF DevExit, Active, IsrExit
  <2>2. isr = <<"dev", "clk">>
    BY <1>1, <2>1
  <2>3. Tail(isr) = <<"clk">>
    BY <2>2
  <2>4. Tail(isr) # <<>>
    BY <2>3
  <2> QED BY <2>1, <2>3, <2>4 DEF TypeOK
<1> QED BY <1>2, <1>3

\* nothing changes but the stack of interrupts
LEMMA NestedKept ==
    ASSUME TimerInv, timer.at # "idle", DevEnter \/ DevExit, call' = call, timer' = timer
    PROVE  TimerInv'
<1>1. /\ k' = k /\ clk' = clk /\ slice' = slice
      /\ isr' \in {<<"clk">>, <<"dev", "clk">>, <<"clk", "dev">>}
      /\ TypeOK => TypeOK'
  BY DeviceNests
<1>2. isr' # <<>>
  BY <1>1
<1>3. TimerTypes' /\ Underway' /\ Waiter' /\ Target' /\ Linking' /\ SyncNotStranded'
  BY <1>1 DEF TimerInv, TimerTypes, Underway, Waiter, Target, Linking, SyncNotStranded,
     Syncs, waits_in
<1>4. KernelInv => KernelInv'
  BY <1>1, <1>2 DEF KernelInv, IInv, ClockInv
<1>5. timer.at = "ready" => Unlinked(timer.thread)'
  BY <1>1 DEF TimerInv, Unlinked, ClockInv
<1> QED BY <1>3, <1>4, <1>5 DEF TimerInv

\* a step of the handler before it takes hold of a thread
LEMMA HandlerStep ==
    ASSUME TimerInv, Active("clk"), clk = "handle", KernelInv', Waiter',
           isr' = isr, clk' = clk, call' = call,
           timer' \in [periodic : BOOLEAN, status : BOOLEAN,
                       at : {"fired", "count", "peek"}, thread : Threads \cup {NoThread}, links : Links]
    PROVE  TimerInv'
<1>1. isr \in {<<>>, <<"clk">>, <<"dev">>, <<"clk", "dev">>, <<"dev", "clk">>}
  BY DEF TimerInv, KernelInv, IInv, Unlinked, TypeOK
<1>2. isr # <<>> /\ Head(isr) = "clk"
  BY DEF Active
<1>3. isr # <<"dev">>
  BY <1>2
<1>4. Underway'
  BY <1>1, <1>2, <1>3 DEF Underway
<1>5. TimerTypes'
  BY DEF TimerInv, TimerTypes, Syncs
<1>6. timer'.at \in {"fired", "count", "peek"}
  OBVIOUS
<1> QED BY <1>4, <1>5, <1>6 DEF TimerInv, Target, Linking, SyncNotStranded

\* a timeout is set while the handler holds no thread
LEMMA TimeoutKept ==
    ASSUME TimerInv, timer.at # "ready", NEW s \in TimeoutStates,
           k' = [k EXCEPT !.to[Tmr] = s],
           isr' = isr, clk' = clk, slice' = slice, call' = call
    PROVE  KernelInv' /\ Waiter'
<1>1. Tmr \in Timers /\ k \in KernelType
  BY TimerAssumption, OneWaiter
<1>2. /\ k'.state = k.state /\ k'.wq = k.wq
      /\ \A t \in Threads : k'.to[t] = k.to[t]
  BY <1>1, TimersAssumption DEF KernelType, AllTimeouts
<1>3. Waiter'
  BY <1>2 DEF TimerInv, Waiter, Syncs, Waiters
<1>4. KernelInv'
  BY <1>1, AlmostSame, AlmostSet, AlmostKept DEF TimerInv
<1> QED BY <1>3, <1>4

\* the handler's first three steps
LEMMA HandlerKept ==
    ASSUME TimerInv, timer_expired \/ timer_restart \/ timer_count
    PROVE  TimerInv'
<1>1. /\ Active("clk") /\ clk = "handle" /\ isr # <<>> /\ timer.at # "ready"
      /\ isr' = isr /\ clk' = clk /\ slice' = slice /\ call' = call
      /\ timer' \in [periodic : BOOLEAN, status : BOOLEAN,
                     at : {"fired", "count", "peek"}, thread : Threads \cup {NoThread}, links : Links]
  <2>1. timer \in [periodic : BOOLEAN, status : BOOLEAN,
                   at : {"idle", "fired", "count", "peek", "unpend", "unlink", "ready"},
                   thread : Threads \cup {NoThread}, links : Links]
    BY DEF TimerInv, TimerTypes
  <2>2. timer' \in [periodic : BOOLEAN, status : BOOLEAN,
                    at : {"fired", "count", "peek"}, thread : Threads \cup {NoThread}, links : Links]
    BY <2>1 DEF timer_expired, timer_restart, timer_count
  <2> QED BY <2>2 DEF timer_expired, timer_restart, timer_count, Handler, timerFrame,
             objVars, Active
<1>2. \/ k' = k
      \/ k' = [k EXCEPT !.to[Tmr] = "INACTIVE"]
      \/ k' = [k EXCEPT !.to[Tmr] = "ACTIVE"]
      \/ k' = isr_stop(k)
  BY DEF timer_expired, timer_restart, timer_count, abort_thread_timeout, add_thread_timeout
<1>3. KernelInv' /\ Waiter'
  <2>1. CASE k' = k
    BY <1>1, <2>1, KernelSame DEF TimerInv, Waiter, Syncs
  <2>2. CASE k' = [k EXCEPT !.to[Tmr] = "INACTIVE"]
    BY <1>1, <2>2, TimeoutKept DEF TimeoutStates
  <2>3. CASE k' = [k EXCEPT !.to[Tmr] = "ACTIVE"]
    BY <1>1, <2>3, TimeoutKept DEF TimeoutStates
  <2>4. CASE k' = isr_stop(k)
    BY <1>1, <2>4, StopKept
  <2> QED BY <1>2, <2>1, <2>2, <2>3, <2>4
<1> QED BY <1>1, <1>3, HandlerStep

\* the handler looks for a waiter
LEMMA PeekKept == ASSUME TimerInv, timer_peek PROVE TimerInv'
<1>1. /\ clk = "handle" /\ timer.at = "peek"
      /\ k' = k /\ isr' = isr /\ clk' = clk /\ slice' = slice /\ call' = call
      /\ timer' = IF k.wq[TimerWaitQ] = <<>>
                  THEN [timer EXCEPT !.at = "idle"]
                  ELSE [timer EXCEPT !.at = "unpend", !.thread = Head(k.wq[TimerWaitQ])]
  BY DEF timer_peek, Handler, timerFrame, objVars
<1>2. /\ KernelInv' /\ Waiter' /\ TimerWaitQ \in WaitQs /\ Underway
      /\ timer \in [periodic : BOOLEAN, status : BOOLEAN,
                    at : {"idle", "fired", "count", "peek", "unpend", "unlink", "ready"},
                    thread : Threads \cup {NoThread}, links : Links]
  BY <1>1, KernelSame, TimerAssumption DEF TimerInv, TimerTypes, Waiter, Syncs
<1>3. WaitsExact(k) /\ k \in KernelType
  BY OneWaiter
<1>4. PICK s : s = k.wq[TimerWaitQ]
  OBVIOUS
<1>5. IsList(s, Waiters(k, TimerWaitQ))
  BY <1>2, <1>3, <1>4 DEF IsList, Waiters, WaitsExact, KernelType
<1>6. CASE s = <<>>
  <2>1. timer' = [timer EXCEPT !.at = "idle"]
    BY <1>1, <1>4, <1>6
  <2>2. timer'.at = "idle" /\ TimerTypes'
    BY <1>1, <1>2, <2>1 DEF TimerInv, TimerTypes, Syncs
  <2>3. Waiters(k, TimerWaitQ) = {}
    BY <1>5, <1>6, ListHead
  <2>4. Pending(k') = {}
    BY <1>1, <1>3, <2>3 DEF TimerInv, Waiter, WaitsExact
  <2> QED BY <1>2, <2>2, <2>4, NobodyStranded, TimerIdle
<1>7. CASE s # <<>>
  <2>1. timer' = [timer EXCEPT !.at = "unpend", !.thread = Head(s)]
    BY <1>1, <1>4, <1>7
  <2>2. Head(s) \in Pending(k)
    BY <1>2, <1>3, <1>5, <1>7, ListHead DEF WaitsExact
  <2>3. Head(s) \in Threads /\ "PENDING" \in k.state[Head(s)] /\ Syncs(Head(s))
    BY <2>2, OneWaiter DEF Pending
  <2>4. timer'.at = "unpend" /\ timer'.thread = Head(s) /\ TimerTypes'
    BY <1>1, <1>2, <2>1, <2>3 DEF TimerInv, TimerTypes, Syncs
  <2>5. Target' /\ Linking'
    BY <1>1, <2>3, <2>4 DEF Target, Linking, Syncs
  <2>6. Underway' /\ SyncNotStranded'
    BY <1>1, <1>2, <2>4 DEF Underway, SyncNotStranded
  <2> QED BY <1>2, <2>4, <2>5, <2>6 DEF TimerInv
<1> QED BY <1>6, <1>7

\* When the handler has taken the thread off the queue, all that is left to do
\* to wake it is the handler's last step.
LEMMA UnpendDone ==
    ASSUME NEW kk \in KernelType, NEW t \in Threads, kk.to[t] = "INACTIVE",
           NEW k1, k1 = unpend_thread(kk, t)
    PROVE  Done(k1, t) = wake_waiter(kk, t)
<1>1. k1 \in KernelType /\ k1.to = kk.to
  BY UnpendEffect
<1>2. [k1 EXCEPT !.to[t] = "INACTIVE"] = k1
  BY ONLY <1>1, t \in Threads, kk.to[t] = "INACTIVE" DEF KernelType, AllTimeouts
<1>3. abort_thread_timeout(unpend_thread(kk, t), t) = k1
  BY <1>2 DEF abort_thread_timeout
<1> QED BY <1>3 DEF Done, wake_waiter

\* _unpend_thread() in the handler: the links are loaded ...
LEMMA LoadKept == ASSUME TimerInv, timer_unpend_load PROVE TimerInv'
<1>1. /\ timer.at = "unpend" /\ k' = k
      /\ isr' = isr /\ clk' = clk /\ slice' = slice /\ call' = call
  BY DEF timer_unpend_load, Handler, timerFrame, objVars
<1>2. "PENDING" \in k.state[timer.thread]
  BY <1>1 DEF TimerInv, Linking
<1>3. timer' = [timer EXCEPT !.at = "unlink", !.links = "wait_q"]
  BY <1>2 DEF timer_unpend_load
<1>4. /\ timer'.at = "unlink" /\ timer'.links = "wait_q" /\ timer'.thread = timer.thread
      /\ TimerTypes'
  BY <1>1, <1>3 DEF TimerInv, TimerTypes, Syncs, Links
<1>5. KernelInv' /\ Waiter'
  BY <1>1, KernelSame DEF TimerInv, Waiter, Syncs
<1>6. Underway' /\ Target' /\ Linking' /\ SyncNotStranded'
  BY <1>1, <1>2, <1>4 DEF TimerInv, Underway, Target, Linking, Syncs, SyncNotStranded
<1> QED BY <1>4, <1>5, <1>6 DEF TimerInv

\* ... and the thread is unlinked.
LEMMA UnpendKept == ASSUME TimerInv, timer_unpend PROVE TimerInv'
<1>0. PICK t \in Threads : t = timer.thread
  BY DEF TimerInv, Target, timer_unpend, Handler
<1>1. /\ timer.at = "unlink" /\ timer.links = "wait_q"
      /\ timer' = [timer EXCEPT !.at = "ready"]
      /\ isr' = isr /\ clk' = clk /\ slice' = slice /\ call' = call
  BY DEF TimerInv, Linking, timer_unpend, Handler, timerFrame, objVars
<1>2. /\ KernelInv /\ Syncs(t) /\ "PENDING" \in k.state[t] /\ Waiter /\ Underway
      /\ timer \in [periodic : BOOLEAN, status : BOOLEAN,
                    at : {"idle", "fired", "count", "peek", "unpend", "unlink", "ready"},
                    thread : Threads \cup {NoThread}, links : Links]
  BY <1>0, <1>1 DEF TimerInv, Target, Linking, TimerTypes
<1>3. timer'.at = "ready" /\ timer'.thread = t /\ TimerTypes'
  BY <1>0, <1>1, <1>2 DEF TimerInv, TimerTypes, Syncs
<1>4. /\ k \in KernelType /\ Live(k) /\ WaitsExact(k)
      /\ t \in Pending(k) /\ k.to[t] = "INACTIVE"
  BY <1>2, RunningFacts DEF Pending, Waiter
<1>5. k' = unpend_thread(k, t)
  BY <1>0, <1>1 DEF timer_unpend
<1>6. /\ k' \in KernelType /\ k'.to = k.to /\ k'.handling = k.handling
      /\ "PENDING" \notin k'.state[t]
      /\ \A u \in Threads \ {t} : k'.state[u] = k.state[u]
  BY <1>4, <1>5, UnpendEffect
<1>7. /\ Live(Done(k', t)) /\ WaitsExact(k')
      /\ \A w \in WaitQs : Waiters(k', w) \subseteq Waiters(k, w)
  <2>1. PICK a : a = Done(k', t)
    OBVIOUS
  <2>2. a = wake_waiter(k, t)
    BY <1>4, <1>5, <2>1, UnpendDone
  <2>3. /\ Live(a) /\ WaitsExact(a)
        /\ \A w \in WaitQs : Waiters(a, w) = Waiters(k, w) \ {t}
    BY ONLY <1>4, <2>2, WakeLive
  <2>4. /\ a.wq = k'.wq
        /\ \A u \in Threads : "PENDING" \in k'.state[u] <=> "PENDING" \in a.state[u]
    BY <1>6, <2>1, DoneFrame
  <2>5. WaitsExact(k') /\ \A w \in WaitQs : Waiters(k', w) = Waiters(a, w)
    BY <2>3, <2>4, WaitsFrame
  <2> QED BY <2>1, <2>3, <2>5
<1>8. TypeOK' /\ ClockInv'
  BY <1>1, <1>2, <1>6 DEF KernelInv, IInv, TypeOK, ClockInv
<1>9. Unlinked(timer.thread)'
  BY <1>3, <1>6, <1>7, <1>8 DEF Unlinked
<1>10. Waiter'
  BY <1>1, <1>2, <1>6, <1>7 DEF Waiter, Syncs
<1>11. Underway' /\ Target' /\ Linking' /\ SyncNotStranded'
  BY <1>1, <1>2, <1>3 DEF Underway, Target, Linking, Syncs, SyncNotStranded
<1> QED BY <1>3, <1>9, <1>10, <1>11 DEF TimerInv

\* _ready_thread() in the handler
LEMMA ReadyKept == ASSUME TimerInv, timer_ready PROVE TimerInv'
<1>0. PICK t \in Threads : t = timer.thread
  BY DEF TimerInv, Target, timer_ready, Handler
<1>1. /\ timer.at = "ready" /\ k' = Done(k, t)
      /\ timer' = [timer EXCEPT !.at = "idle", !.thread = NoThread, !.links = "none"]
      /\ isr # <<>> /\ isr' = isr /\ clk' = clk /\ slice' = slice /\ call' = call
  BY <1>0 DEF timer_ready, Handler, Active, timerFrame, objVars, Done
<1>2. /\ TypeOK /\ ClockInv /\ WaitsExact(k) /\ Live(k') /\ t \in Threads /\ Waiter
      /\ timer \in [periodic : BOOLEAN, status : BOOLEAN,
                    at : {"idle", "fired", "count", "peek", "unpend", "unlink", "ready"},
                    thread : Threads \cup {NoThread}, links : Links]
  BY <1>0, <1>1 DEF TimerInv, Unlinked, Target, TimerTypes
<1>3. k \in KernelType /\ Pending(k) = {}
  BY <1>1, <1>2, StopNobody DEF TypeOK
<1>4. /\ k' \in KernelType /\ k'.to = k.to /\ k'.wq = k.wq /\ k'.handling = k.handling
      /\ \A u \in Threads : "PENDING" \in k'.state[u] <=> "PENDING" \in k.state[u]
  BY <1>1, <1>3, DoneFrame
<1>6. /\ WaitsExact(k') /\ Pending(k') = {}
      /\ \A w \in WaitQs : Waiters(k', w) = Waiters(k, w)
  BY <1>2, <1>3, <1>4, WaitsFrame
<1>7. KernelInv'
  BY <1>1, <1>2, <1>4, <1>6 DEF KernelInv, IInv, TypeOK, ClockInv
<1>8. Waiter'
  BY <1>1, <1>2, <1>4, <1>6 DEF Waiter, Syncs
<1>9. timer'.at = "idle" /\ TimerTypes'
  BY <1>1, <1>2 DEF TimerInv, TimerTypes, Syncs, Links
<1> QED BY <1>6, <1>7, <1>8, <1>9, NobodyStranded, TimerIdle

\* k_timer_start() and k_timer_status_get()
LEMMA StartKept ==
    ASSUME TimerInv, NEW inThread \in BOOLEAN, NEW periodic \in BOOLEAN,
           k_timer_start(inThread, periodic)
    PROVE  TimerInv'
<1>1. /\ k' = add_thread_timeout(abort_thread_timeout(k, Tmr), Tmr)
      /\ timer' = [timer EXCEPT !.periodic = periodic, !.status = FALSE]
      /\ isr' = isr /\ clk' = clk /\ slice' = slice /\ call' = call
  BY DEF k_timer_start, timerFrame, objVars
<1>2. k' = [k EXCEPT !.to[Tmr] = "ACTIVE"]
  <2>1. k \in KernelType /\ Tmr \in AllTimeouts
    BY OneWaiter, TimerAssumption DEF AllTimeouts
  <2>2. k' = [[k EXCEPT !.to[Tmr] = "INACTIVE"] EXCEPT !.to[Tmr] = "ACTIVE"]
    BY <1>1 DEF add_thread_timeout, abort_thread_timeout
  <2> QED BY ONLY <2>1, <2>2 DEF KernelType
<1>3. timer' \in [periodic : BOOLEAN, status : BOOLEAN,
                  at : {timer.at}, thread : {timer.thread}, links : {timer.links}]
  BY <1>1 DEF TimerInv, TimerTypes
<1>4. "ACTIVE" \in TimeoutStates
  BY DEF TimeoutStates
<1> QED BY <1>1, <1>2, <1>3, <1>4, TimeoutChanged

\* k_timer_status_get()
LEMMA StatusKept ==
    ASSUME TimerInv, NEW inThread \in BOOLEAN, k_timer_status_get(inThread)
    PROVE  TimerInv'
<1>1. /\ k' = k /\ timer' = [timer EXCEPT !.status = FALSE]
      /\ isr' = isr /\ clk' = clk /\ slice' = slice /\ call' = call
  BY DEF k_timer_status_get, timerFrame, objVars
<1>2. /\ timer'.at = timer.at /\ timer'.thread = timer.thread
      /\ timer'.links = timer.links /\ TimerTypes'
  BY <1>1 DEF TimerInv, TimerTypes, Syncs
<1>3. KernelInv => KernelInv'
  BY <1>1, KernelSame
<1>4. Underway' /\ Waiter' /\ Target' /\ Linking' /\ SyncNotStranded'
  BY <1>1, <1>2 DEF TimerInv, Underway, Waiter, Target, Linking, SyncNotStranded, Syncs,
     waits_in
<1>5. timer.at = "ready" => Unlinked(timer.thread)'
  BY <1>1, <1>2 DEF TimerInv, Unlinked, TypeOK, ClockInv
<1> QED BY <1>2, <1>3, <1>4, <1>5 DEF TimerInv

\* k_timer_stop() in a device interrupt, which may be nested in the handler
LEMMA IsrStopKept ==
    ASSUME ~NestedStops, TimerInv, isr_k_timer_stop PROVE TimerInv'
<1>1. /\ isr # <<>> /\ k' = isr_stop(k) /\ timer' = timer
      /\ timer.at \notin {"unpend", "unlink"}
      /\ isr' = isr /\ clk' = clk /\ slice' = slice /\ call' = call
  BY DEF isr_k_timer_stop, Active, timerFrame, objVars
<1>2. TimerTypes' /\ Underway' /\ Target' /\ Linking'
  BY <1>1 DEF TimerInv, TimerTypes, Underway, Target, Linking, Syncs
<1>3. CASE timer.at = "ready"
  <2>1. Pending(k) = {} /\ k' = [k EXCEPT !.to[Tmr] = "INACTIVE"]
    BY <1>1, <1>3, StopNobody
  <2>2. "INACTIVE" \in TimeoutStates
    BY DEF TimeoutStates
  <2>3. timer' \in [periodic : BOOLEAN, status : BOOLEAN,
                    at : {timer.at}, thread : {timer.thread}, links : {timer.links}]
    BY <1>1 DEF TimerInv, TimerTypes
  <2> QED BY <1>1, <2>1, <2>2, <2>3, TimeoutChanged
<1>4. CASE timer.at # "ready"
  <2>1. KernelInv' /\ Waiter' /\ Pending(k') = {}
    BY <1>1, <1>4, StopKept
  <2>2. SyncNotStranded'
    BY <2>1, NobodyStranded
  <2> QED BY <1>1, <1>2, <1>4, <2>1, <2>2 DEF TimerInv
<1> QED BY <1>3, <1>4

\* the running thread goes on to the call c
LEMMA TimerCall ==
    ASSUME TimerInv, NEW c, c.op \in TimerOps \cup {"none"},
           call' = [call EXCEPT ![k.current] = c],
           c.op = "timer_sync" => \A t \in Threads : ~Syncs(t),
           timer' \in [periodic : BOOLEAN, status : BOOLEAN,
                       at : {timer.at}, thread : {timer.thread}, links : {timer.links}]
    PROVE  /\ TimerTypes' /\ timer'.at = timer.at
           /\ k.current \in Threads => call'[k.current] = c
           /\ \A t \in Threads \ {k.current} : call'[t] = call[t]
<1>1. PICK r : r = k.current
  OBVIOUS
<1>2. /\ DOMAIN call = Threads /\ call' = [call EXCEPT ![r] = c]
      /\ \A t \in Threads : call[t].op \in TimerOps \cup {"none"}
      /\ \A t, u \in Threads : Syncs(t) /\ Syncs(u) => t = u
      /\ timer \in [periodic : BOOLEAN, status : BOOLEAN,
                    at : {"idle", "fired", "count", "peek", "unpend", "unlink", "ready"},
                    thread : Threads \cup {NoThread}, links : Links]
  BY <1>1 DEF TimerInv, TimerTypes
<1>3. /\ DOMAIN call' = Threads
      /\ \A t \in Threads : call'[t] = IF t = r THEN c ELSE call[t]
  BY <1>2
<1>4. \A t \in Threads : call'[t].op \in TimerOps \cup {"none"}
  BY <1>2, <1>3
<1>5. \A t, u \in Threads : Syncs(t)' /\ Syncs(u)' => t = u
  BY <1>2, <1>3 DEF Syncs
<1>6. timer' \in [periodic : BOOLEAN, status : BOOLEAN,
                  at : {"idle", "fired", "count", "peek", "unpend", "unlink", "ready"},
                  thread : Threads \cup {NoThread}, links : Links] /\ timer'.at = timer.at
  BY <1>2
<1> QED BY <1>1, <1>3, <1>4, <1>5, <1>6 DEF TimerTypes

\* k_timer_stop() by a thread, its first step ...
LEMMA ThreadStopKept == ASSUME TimerInv, k_timer_stop PROVE TimerInv'
<1>1. /\ InThread /\ call[k.current] = NoCall
      /\ k' = [k EXCEPT !.to[Tmr] = "INACTIVE"] /\ timer' = timer
      /\ isr' = isr /\ clk' = clk /\ slice' = slice
      /\ call' = [call EXCEPT ![k.current] = [op |-> "timer_stop"]]
  BY DEF k_timer_stop, Caller, Call, abort_thread_timeout
<1>2. timer.at = "idle" /\ KernelInv
  BY <1>1, AtThreadLevel DEF InThread
<1>3. k.current \in Threads /\ k \in KernelType /\ "PENDING" \notin k.state[k.current]
  BY <1>2, RunningFacts
<1>4. /\ TimerTypes' /\ timer'.at = "idle" /\ call'[k.current].op = "timer_stop"
      /\ \A t \in Threads \ {k.current} : call'[t] = call[t]
  <2>1. timer' \in [periodic : BOOLEAN, status : BOOLEAN,
                    at : {timer.at}, thread : {timer.thread}, links : {timer.links}]
    BY <1>1 DEF TimerInv, TimerTypes
  <2>2. PICK c : c = [op |-> "timer_stop"]
    OBVIOUS
  <2>3. c.op = "timer_stop" /\ c.op \in TimerOps \cup {"none"} /\ c.op # "timer_sync"
    BY <2>2 DEF TimerOps
  <2>4. call' = [call EXCEPT ![k.current] = c]
    BY <1>1, <2>2
  <2> QED BY <1>2, <1>3, <2>1, <2>3, <2>4, TimerCall
<1>5. /\ k'.state = k.state /\ k'.wq = k.wq /\ \A t \in Threads : k'.to[t] = k.to[t]
  BY <1>1, <1>3, TimersAssumption, TimerAssumption DEF KernelType, AllTimeouts
<1>6. Waiter'
  BY <1>3, <1>4, <1>5 DEF TimerInv, Waiter, Syncs, Waiters
<1>7. KernelInv'
  BY <1>1, <1>2, AlmostSame, AlmostSet, AlmostKept, TimerAssumption DEF TimeoutStates
<1>8. SyncNotStranded'
  BY <1>3, <1>4 DEF SyncNotStranded
<1> QED BY <1>4, <1>6, <1>7, <1>8, TimerIdle

\* ... and its second
LEMMA ThreadUnpendKept == ASSUME TimerInv, k_timer_stop_unpend PROVE TimerInv'
<1>1. /\ InThread /\ call[k.current].op = "timer_stop"
      /\ k' = reschedule_threads(unpend_first(k)) /\ timer' = timer
      /\ isr' = isr /\ clk' = clk /\ slice' = slice
      /\ call' = [call EXCEPT ![k.current] = NoCall]
  BY DEF k_timer_stop_unpend, Resumes, Call
<1>2. timer.at = "idle" /\ KernelInv /\ isr = <<>>
  BY <1>1, AtThreadLevel DEF InThread
<1>3. k.current \in Threads /\ Live(k) /\ WaitsExact(k)
  BY <1>2, RunningFacts
<1>4. TimerTypes' /\ timer'.at = "idle"
  <2>1. timer' \in [periodic : BOOLEAN, status : BOOLEAN,
                    at : {timer.at}, thread : {timer.thread}, links : {timer.links}]
    BY <1>1 DEF TimerInv, TimerTypes
  <2>2. NoCall.op \in TimerOps \cup {"none"} /\ NoCall.op # "timer_sync"
    BY DEF NoCall
  <2> QED BY <1>1, <1>2, <2>1, <2>2, TimerCall
<1>5. PICK k1 : k1 = unpend_first(k)
  OBVIOUS
<1>6. /\ \A t \in Pending(k) : k.to[t] = "INACTIVE"
      /\ \A t, u \in Pending(k) : t = u
      /\ \A w \in WaitQs \ {TimerWaitQ} : Waiters(k, w) = {}
  BY OneWaiter DEF TimerInv, Waiter
<1>7. /\ Live(k1) /\ WaitsExact(k1) /\ Pending(k1) = {}
      /\ k1.current = k.current /\ k1.handling = k.handling
      /\ \A t \in Threads : k1.to[t] = k.to[t]
  BY ONLY <1>3, <1>5, <1>6, StopWakes
<1>8. KernelInv' /\ Switched(k1, k')
  <2>1. k' = switch_unless_isr(k1, TRUE)
    BY <1>1, <1>5 DEF switch_unless_isr
  <2>2. \A t \in Threads : k1.to[t] = "EXPIRED" => k.to[t] = "EXPIRED"
    BY <1>7
  <2>3. TRUE \in BOOLEAN
    OBVIOUS
  <2> QED BY <1>1, <1>2, <1>7, <2>1, <2>2, <2>3, LiveKept
<1>9. Pending(k') = {}
  BY <1>7, <1>8 DEF Pending, Switched
<1>10. Waiter'
  <2>1. \A w \in WaitQs : Waiters(k', w) = {}
    BY <1>8, <1>9 DEF KernelInv, WaitsExact
  <2> QED BY <1>9, <2>1 DEF Waiter, Pending
<1> QED BY <1>4, <1>8, <1>9, <1>10, NobodyStranded, TimerIdle

\* k_timer_status_sync() waits for an active timer ...
LEMMA SyncKept == ASSUME TimerInv, k_timer_status_sync PROVE TimerInv'
<1>1. /\ InThread /\ \A t \in Threads : ~Syncs(t)
      /\ k.to[Tmr] # "INACTIVE" /\ timer' = timer
      /\ Block(TimerWaitQ, "FOREVER", [op |-> "timer_sync"])
  BY DEF k_timer_status_sync, Caller, Syncs
<1>2. timer.at = "idle" /\ KernelInv /\ Tmr \in Timers /\ TimerWaitQ \in WaitQs
  BY <1>1, AtThreadLevel, TimerAssumption DEF InThread
<1>3. PICK c : c = [op |-> "timer_sync"]
  OBVIOUS
<1>4. /\ KernelInv' /\ Waiting(k, k', TimerWaitQ) /\ k'.to[k.current] = "INACTIVE"
      /\ call' = [call EXCEPT ![k.current] = c]
  <2>1. Block(TimerWaitQ, "FOREVER", c) /\ "FOREVER" # "TIMED"
    BY <1>1, <1>3
  <2> QED BY <1>1, <1>2, <2>1, BlockKept
<1>5. Running(k, k')
  BY <1>1, <1>2, BlockRuns
<1>6. PICK r \in Threads : r = k.current
  BY <1>2, RunningFacts
<1>7. /\ TimerTypes' /\ timer'.at = "idle" /\ Syncs(r)'
      /\ \A t \in Threads \ {r} : call'[t] = call[t]
  <2>1. timer' \in [periodic : BOOLEAN, status : BOOLEAN,
                    at : {timer.at}, thread : {timer.thread}, links : {timer.links}]
    BY <1>1 DEF TimerInv, TimerTypes
  <2>2. c.op = "timer_sync" /\ c.op \in TimerOps \cup {"none"}
    BY <1>3 DEF TimerOps
  <2>3. /\ TimerTypes' /\ timer'.at = timer.at
        /\ call'[k.current] = c
        /\ \A t \in Threads \ {k.current} : call'[t] = call[t]
    BY <1>1, <1>4, <1>6, <2>1, <2>2, TimerCall
  <2>4. call'[r].op = "timer_sync"
    BY <1>6, <2>2, <2>3
  <2> QED BY <1>2, <1>6, <2>3, <2>4 DEF Syncs
<1>8. Waiter'
  <2>1. /\ k'.state[r] = {"PENDING"} /\ k'.to[r] = "INACTIVE"
        /\ \A u \in Threads \ {r} : k'.state[u] = k.state[u] /\ k'.to[u] = k.to[u]
        /\ \A v \in WaitQs \ {TimerWaitQ} : Waiters(k', v) = Waiters(k, v)
    BY <1>4, <1>6 DEF Waiting
  <2>2. /\ \A t \in Threads : "PENDING" \in k.state[t] => Syncs(t) /\ k.to[t] = "INACTIVE"
        /\ \A w \in WaitQs \ {TimerWaitQ} : Waiters(k, w) = {}
    BY DEF TimerInv, Waiter
  <2>3. ASSUME NEW t \in Threads, "PENDING" \in k'.state[t]
        PROVE  Syncs(t)' /\ k'.to[t] = "INACTIVE"
    BY <1>1, <1>7, <2>1, <2>2, <2>3
  <2> QED BY <2>1, <2>2, <2>3 DEF Waiter
<1>9. SyncNotStranded'
  BY <1>1, <1>2, <1>5 DEF SyncNotStranded, Running
<1> QED BY <1>4, <1>7, <1>8, <1>9, TimerIdle

\* ... and returns
LEMMA SyncReturnKept == ASSUME TimerInv, k_timer_status_sync_return PROVE TimerInv'
<1>1. /\ InThread /\ call[k.current].op = "timer_sync"
      /\ Call([k EXCEPT !.rv[k.current] = "EAGAIN"])
      /\ timer' = [timer EXCEPT !.status = FALSE]
      /\ call' = [call EXCEPT ![k.current] = NoCall]
  BY DEF k_timer_status_sync_return, Resumes, Returns
<1>2. timer.at = "idle" /\ KernelInv
  BY <1>1, AtThreadLevel DEF InThread
<1>3. /\ k.current \in Threads /\ "PENDING" \notin k.state[k.current]
  BY <1>2, RunningFacts
<1>4. KernelInv' /\ k'.state = k.state /\ k'.to = k.to /\ k'.wq = k.wq
  BY <1>1, <1>2, ReturnKept
<1>5. Pending(k) = {} /\ Pending(k') = {}
  <2>1. PICK r : r = k.current
    OBVIOUS
  <2>2. r \in Threads /\ Syncs(r) /\ "PENDING" \notin k.state[r]
    BY <1>1, <1>3, <2>1 DEF Syncs
  <2>3. Pending(k) = {}
    BY <2>2, OneWaiter DEF Pending
  <2> QED BY <1>4, <2>3 DEF Pending
<1>6. TimerTypes' /\ timer'.at = "idle"
  <2>1. timer' \in [periodic : BOOLEAN, status : BOOLEAN,
                    at : {timer.at}, thread : {timer.thread}, links : {timer.links}]
    BY <1>1 DEF TimerInv, TimerTypes
  <2>2. NoCall.op \in TimerOps \cup {"none"} /\ NoCall.op # "timer_sync"
    BY DEF NoCall
  <2> QED BY <1>1, <1>2, <2>1, <2>2, TimerCall
<1>7. Waiter'
  <2>1. \A w \in WaitQs : Waiters(k', w) = {}
    BY <1>4, <1>5 DEF KernelInv, WaitsExact
  <2> QED BY <1>5, <2>1 DEF Waiter, Pending
<1> QED BY <1>4, <1>5, <1>6, <1>7, NobodyStranded, TimerIdle

\* What goes on around an idle timer leaves its waiter waiting, or ends the
\* wait, and leaves the timer running.
Spares(kk, k2) ==
    /\ \A t \in Threads : "PENDING" \in k2.state[t] =>
          "PENDING" \in kk.state[t] /\ (kk.to[t] = "INACTIVE" => k2.to[t] = "INACTIVE")
    /\ \A w \in WaitQs : Waiters(k2, w) \in SUBSET Waiters(kk, w)

\* then the timer's invariant stays
LEMMA AroundKept ==
    ASSUME TimerInv, timer.at = "idle", KernelInv', Running(k, k'), Spares(k, k'),
           call' = call, timer' = timer
    PROVE  TimerInv'
<1>1. TimerTypes' /\ timer'.at = "idle"
  BY DEF TimerInv, TimerTypes, Syncs
<1>2. Waiter'
  BY DEF TimerInv, Waiter, Spares, Syncs
<1>3. SyncNotStranded'
  <2>1. Tmr \in Timers /\ (k.to[Tmr] # "INACTIVE" => k'.to[Tmr] # "INACTIVE")
    BY TimerAssumption DEF Running
  <2>2. ASSUME NEW t \in Threads, waits_in(t, "timer_sync")' PROVE waits_in(t, "timer_sync")
    BY <2>2 DEF waits_in, Spares
  <2> QED BY <2>1, <2>2 DEF TimerInv, SyncNotStranded
<1> QED BY <1>1, <1>2, <1>3, TimerIdle

\* the calls that concern no waiter, and an abort
LEMMA CalmSpares ==
    ASSUME KernelInv, Undisturbed(k, k') PROVE Spares(k, k')
<1>1. "PENDING" \notin k.state[k.current]
  BY RunningFacts
<1>2. \A w \in WaitQs : Waiters(k', w) = Waiters(k, w)
  BY DEF Undisturbed, Waiters
<1>3. ASSUME NEW t \in Threads, "PENDING" \in k'.state[t]
      PROVE  "PENDING" \in k.state[t] /\ k'.to[t] = k.to[t]
  BY <1>1, <1>3 DEF Undisturbed
<1> QED BY <1>2, <1>3 DEF Spares

\* an abort ends one wait
LEMMA AbortSpares ==
    ASSUME NEW t \in Threads, Aborted(k, k', t) PROVE Spares(k, k')
<1>1. "PENDING" \notin k'.state[t] /\ \A w \in WaitQs : Waiters(k', w) = Waiters(k, w) \ {t}
  BY DEF Aborted, Pending
<1>2. \A u \in Threads \ {t} : k'.state[u] = k.state[u] /\ k'.to[u] = k.to[u]
  BY DEF Aborted
<1> QED BY <1>1, <1>2 DEF Spares

\* the interrupts; a timeout that expires was active
LEMMA InterruptsSpare ==
    ASSUME KernelInv, Clock \/ DevEnter \/ DevExit PROVE KernelInv' /\ Spares(k, k')
<1>1. /\ KernelInv'
      /\ \/ Passed(k, k')
         \/ \E t \in Threads : Expired(k, k', t) \/ Handled(k, k', t)
  BY InterruptsKept
<1>2. CASE Passed(k, k')
  BY <1>1, <1>2, CalmSpares DEF Passed
<1>3. ASSUME NEW t \in Threads, Expired(k, k', t) PROVE Spares(k, k')
  BY <1>3 DEF Expired, Spares, Waiters
<1>4. ASSUME NEW t \in Threads, Handled(k, k', t) PROVE Spares(k, k')
  <2>1. "PENDING" \notin k'.state[t] /\ \A w \in WaitQs : Waiters(k', w) = Waiters(k, w) \ {t}
    BY <1>4 DEF Handled, Pending
  <2>2. \A u \in Threads \ {t} : k'.state[u] = k.state[u] /\ k'.to[u] = k.to[u]
    BY <1>4 DEF Handled
  <2> QED BY <2>1, <2>2 DEF Spares
<1> QED BY <1>1, <1>2, <1>3, <1>4

\* every step of a behaviour that exercises the timer
LEMMA TimerKept ==
    ASSUME ~NestedStops, TimerInv, TimerNext
    PROVE  TimerInv'
<1>1. CASE Rest /\ UNCHANGED timer
  <2>1. k_sleep /\ isr = <<>>
    BY <1>1 DEF Rest, Caller, InThread
  <2>2. timer.at = "idle" /\ KernelInv
    BY <2>1, AtThreadLevel
  <2>3. KernelInv' /\ Calm(k, k') /\ call' = call
    BY <1>1, <2>2, RestKept
  <2>4. Spares(k, k') /\ Running(k, k')
    BY <2>1, <2>2, <2>3, CalmSpares, SleepRuns DEF Calm
  <2> QED BY <1>1, <2>2, <2>3, <2>4, AroundKept
<1>2. CASE Disturb /\ UNCHANGED <<objVars, timer>>
  <2>1. timer.at = "idle" /\ KernelInv
    BY <1>2, AtThreadLevel DEF Disturb, InThread
  <2>2. KernelInv' /\ (Calm(k, k') \/ \E t \in Threads : Aborted(k, k', t)) /\ call' = call
    BY <1>2, <2>1, DisturbKept DEF objVars
  <2>3. Spares(k, k') /\ Running(k, k')
    BY <1>2, <2>1, <2>2, CalmSpares, AbortSpares, DisturbRuns DEF Calm
  <2> QED BY <1>2, <2>1, <2>2, <2>3, AroundKept
<1>3. CASE /\ Clock \/ DevEnter \/ DevExit
           /\ timer.at = "idle" /\ UNCHANGED <<objVars, timer>>
  <2>1. KernelInv /\ call' = call
    BY <1>3 DEF TimerInv, objVars
  <2> QED BY <1>3, <2>1, InterruptsSpare, InterruptsRun, AroundKept
<1>4. CASE /\ DevEnter \/ DevExit
           /\ timer.at # "idle" /\ UNCHANGED <<objVars, timer>>
  BY <1>4, NestedKept DEF objVars
<1>5. CASE timer_expired \/ timer_restart \/ timer_count \/ timer_peek
             \/ timer_unpend_load \/ timer_unpend \/ timer_ready \/ isr_k_timer_stop \/ k_timer_stop \/ k_timer_stop_unpend
             \/ k_timer_status_sync \/ k_timer_status_sync_return
  BY <1>5, HandlerKept, PeekKept, LoadKept, UnpendKept, ReadyKept, IsrStopKept, ThreadStopKept,
     ThreadUnpendKept, SyncKept, SyncReturnKept
<1>6. ASSUME NEW inThread \in BOOLEAN,
             \/ k_timer_status_get(inThread)
             \/ \E periodic \in BOOLEAN : k_timer_start(inThread, periodic)
      PROVE  TimerInv'
  BY <1>6, StatusKept, StartKept
<1> QED BY <1>1, <1>2, <1>3, <1>4, <1>5, <1>6 DEF TimerNext

\* Whatever interrupts do, the threads are in no call but the timer's.
TimerCalls ==
    DOMAIN call = Threads /\ \A t \in Threads : call[t].op \in TimerOps \cup {"none"}

\* in every step
LEMMA TimerCallsKept == ASSUME TimerCalls, TimerNext PROVE TimerCalls'
<1>1. \/ call' = call
      \/ \E c \in {NoCall, [op |-> "timer_stop"], [op |-> "timer_sync"]} :
            call' = [call EXCEPT ![k.current] = c]
  BY DEF TimerNext, timer_expired, timer_restart, timer_count, timer_peek,
     timer_unpend_load, timer_unpend, timer_ready, k_timer_status_get, k_timer_start,
     isr_k_timer_stop, k_timer_stop, k_timer_stop_unpend, k_timer_status_sync,
     k_timer_status_sync_return, timerFrame, objVars, Rest, Block, Returns
<1>2. \A c \in {NoCall, [op |-> "timer_stop"], [op |-> "timer_sync"]} :
         c.op \in TimerOps \cup {"none"}
  BY DEF NoCall, TimerOps
<1> QED BY <1>1, <1>2 DEF TimerCalls

(***************************************************************************)
(* A behaviour exercises one object: use never changes.                    *)
(***************************************************************************)
LEMMA UseFixed == [Next]_vars => use' = use
<1> SUFFICES ASSUME [Next]_vars PROVE use' = use
  OBVIOUS
<1>1. CASE UNCHANGED vars
  BY <1>1 DEF vars, objVars
<1>2. Interrupts \/ Environment \/ Rest => use' = use
  BY DEF Interrupts, Environment, Rest, objVars
<1>3. append_insert => use' = use
  BY DEF append_insert
<1>4. Workqueue => use' = use
  BY <1>3 DEF Workqueue, submit_append, worker_get, worker_wait, worker_got, worker_run,
     worker_yield
<1>5. ASSUME NEW x, NEW after, work_submit(x, after) PROVE use' = use
  BY <1>5 DEF work_submit
<1>6. CASE QueueNext
  BY <1>2, <1>3, <1>6 DEF QueueNext, k_queue_append, isr_k_queue_append, k_queue_get,
     k_queue_cancel_wait, k_queue_prepend, k_queue_append_list, k_queue_get_return,
     k_queue_get_wait
<1>7. CASE WorkQNext
  BY <1>2, <1>4, <1>5, <1>7 DEF WorkQNext, handler_return, handler_resubmit,
     k_work_submit, isr_k_work_submit
<1>8. CASE DelayedNext
  BY <1>2, <1>4, <1>5, <1>8 DEF DelayedNext, handler_return, handler_delayed,
     k_work_submit, isr_k_work_submit,
     work_timeout, k_delayed_work_cancel, k_delayed_work_submit, delayed_submit
<1>9. CASE AlertNext
  BY <1>2, <1>4, <1>5, <1>9 DEF AlertNext, k_alert_send, alert_submit, deliver,
     deliver_again, k_alert_recv, k_alert_recv_wait, k_alert_recv_return, alertFrame
<1>10. CASE TimerNext
  BY <1>2, <1>10 DEF TimerNext, timer_expired, timer_restart, timer_count, timer_peek,
     timer_unpend_load, timer_unpend, timer_ready, k_timer_status_get, k_timer_start, isr_k_timer_stop,
     k_timer_stop, k_timer_stop_unpend, k_timer_status_sync, k_timer_status_sync_return,
     timerFrame, objVars
<1>11. CASE PollNext
  BY <1>2, <1>11 DEF PollNext, k_poll, poll_scan, poll_block, poll_resume, poll_clear,
     reset_signal, k_poll_signal, pollFrame
<1> QED BY <1>1, <1>6, <1>7, <1>8, <1>9, <1>10, <1>11 DEF Next

(***************************************************************************)
(* The invariant of the services.                                          *)
(***************************************************************************)
ServicesInv ==
    /\ use = "timer" => TimerCalls /\ (~NestedStops => TimerInv)
    /\ use = "poll" => PollInv
    /\ use \notin {"timer", "poll"} => KernelInv /\ OrdinaryCalls
    /\ use # "poll" => poll.listed = {}

\* the kernel at the start
LEMMA KernelStart ==
    ASSUME ObjectsInit
    PROVE  /\ KernelInv /\ isr = <<>> /\ \A t \in Threads : k.state[t] = {}
           /\ \A w \in WaitQs : Waiters(k, w) = {}
<1>1. k = Fresh /\ IsFiniteSet(Threads)
  BY ObjectsAssumption DEF ObjectsInit, Fresh
<1>2. IInv /\ isr = <<>>
  <2>1. k \in KernelType /\ Live(k) /\ Settled(k)
    BY <1>1, FreshGood
  <2> QED BY <2>1 DEF IInv, TypeOK, ObjectsInit
<1>3. /\ k.wq = [v \in WaitQs |-> <<>>] /\ k.state = [t \in Threads |-> {}]
      /\ k.to = [t \in AllTimeouts |-> "INACTIVE"] /\ clk = "off"
  BY DEF ObjectsInit
<1>4. \A t \in Threads : k.to[t] = "INACTIVE" /\ k.state[t] = {}
  BY <1>3 DEF AllTimeouts
<1>5. \A v \in WaitQs : k.wq[v] = <<>> /\ Waiters(k, v) = {} /\ IsInjective(k.wq[v])
  BY <1>3 DEF Waiters, ToSet, IsInjective
<1>6. Pending(k) = {}
  BY <1>4 DEF Pending
<1>7. WaitsExact(k)
  BY <1>5, <1>6 DEF WaitsExact
<1>8. ClockInv
  BY <1>3, <1>4 DEF ClockInv
<1> QED BY <1>2, <1>4, <1>5, <1>7, <1>8 DEF KernelInv

\* every object is idle at the start
LEMMA ServicesStart == Init => ServicesInv
<1> SUFFICES ASSUME Init PROVE ServicesInv
  OBVIOUS
<1>1. /\ KernelInv /\ isr = <<>> /\ \A t \in Threads : k.state[t] = {}
      /\ \A w \in WaitQs : Waiters(k, w) = {}
  BY KernelStart DEF Init
<1>2. poll = [signaled |-> {}, listed |-> {}, ready |-> {}, polling |-> FALSE]
  BY DEF Init, PollInit
<1>3. /\ DOMAIN call = Threads
      /\ \A t \in Threads : call[t] = NoCall \/ call[t] = [op |-> "loop"]
      /\ use \in {"timer", "poll"} => \A t \in Threads : call[t].op = "none"
  BY DEF Init, NoCall
<1>4. ASSUME use = "timer" PROVE TimerCalls /\ TimerInv
  <2>1. timer.at = "idle" /\ TimerTypes
    BY <1>3, <1>4 DEF Init, TimerInit, TimerTypes, Syncs, Links
  <2>2. Waiter /\ SyncNotStranded
    BY <1>1 DEF Waiter, SyncNotStranded, waits_in
  <2> QED BY <1>1, <2>1, <2>2 DEF TimerInv, TimerTypes, TimerCalls, Underway, Target,
          Linking
<1>5. ASSUME use = "poll" PROVE PollInv
  <2>1. \A t \in Threads : ~Polls(t)
    BY <1>3, <1>5 DEF Polls, PollOps
  <2>2. \A t \in Threads : PollOf(t)
    BY <1>1, <2>1, Idler
  <2>3. PollTypes
    BY <1>2, <1>3, <1>5 DEF PollTypes
  <2> QED BY <1>1, <1>2, <2>1, <2>2, <2>3 DEF PollInv
<1>6. OrdinaryCalls
  <2>1. Plain("loop") /\ "loop" \notin TwoStep
    BY DEF Plain, PollOps, TimerOps, TwoStep
  <2>2. Ordinary([op |-> "loop"])
    BY <2>1, SimpleOrdinary
  <2> QED BY <1>3, <2>2, NoCallOrdinary DEF OrdinaryCalls
<1> QED BY <1>1, <1>2, <1>4, <1>5, <1>6 DEF ServicesInv

\* doing nothing
LEMMA ServicesStutter == ASSUME ServicesInv, UNCHANGED vars PROVE ServicesInv'
<1>1. /\ k' = k /\ isr' = isr /\ clk' = clk /\ slice' = slice
      /\ use' = use /\ call' = call /\ timer' = timer /\ poll' = poll
  BY DEF vars, schedVars, objVars
<1>2. KernelInv => KernelInv'
  BY <1>1, KernelSame
<1>3. OrdinaryCalls => OrdinaryCalls'
  BY <1>1 DEF OrdinaryCalls
<1>4. ASSUME PollInv PROVE PollInv'
  <2>1. Quiet(k, k')
    BY <1>1 DEF Quiet
  <2> QED BY <1>1, <1>2, <1>4, <2>1, PollQuiet DEF PollInv
<1>5. ASSUME TimerInv PROVE TimerInv'
  <2>1. TimerTypes' /\ Underway' /\ Waiter' /\ Target' /\ Linking' /\ SyncNotStranded'
    BY <1>1, <1>5 DEF TimerInv, TimerTypes, Underway, Waiter, Target, Linking,
       SyncNotStranded, Syncs, waits_in
  <2>2. timer.at = "ready" => Unlinked(timer.thread)'
    BY <1>1, <1>5 DEF TimerInv, Unlinked, TypeOK, ClockInv
  <2> QED BY <1>1, <1>2, <1>5, <2>1, <2>2 DEF TimerInv
<1>6. TimerCalls => TimerCalls'
  BY <1>1 DEF TimerCalls
<1> QED BY <1>1, <1>2, <1>3, <1>4, <1>5, <1>6 DEF ServicesInv

\* every step is one of the exercised object
LEMMA ServicesStep == ServicesInv /\ [Next]_vars => ServicesInv'
<1> SUFFICES ASSUME ServicesInv, [Next]_vars PROVE ServicesInv'
  OBVIOUS
<1>0. use' = use
  BY UseFixed
<1>1. CASE UNCHANGED vars
  BY <1>1, ServicesStutter
<1>2. CASE use = "timer" /\ TimerNext /\ UNCHANGED <<data_q, workVars, alert, poll>>
  BY <1>0, <1>2, TimerKept, TimerCallsKept DEF ServicesInv
<1>3. CASE use = "poll" /\ PollNext
  BY <1>0, <1>3, PollKept DEF ServicesInv
<1>4. CASE /\ use \notin {"timer", "poll"} /\ UNCHANGED poll
           /\ QueueNext \/ WorkQNext \/ DelayedNext \/ AlertNext
  <2>1. KernelInv /\ OrdinaryCalls /\ poll.listed = {}
    BY <1>4 DEF ServicesInv
  <2>2. KernelInv' /\ Turn
    BY <1>4, <2>1, QueueKept, WorkQKept, DelayedKept, AlertKept
  <2>3. OrdinaryCalls'
    BY <2>1, <2>2, TurnKept
  <2> QED BY <1>0, <1>4, <2>1, <2>2, <2>3 DEF ServicesInv
<1> QED BY <1>1, <1>2, <1>3, <1>4 DEF Next

\* The invariant of the services: between any two steps of queues, workqueues,
\* alerts and k_poll() the scheduler's record is consistent, and so is that of
\* the timer unless NestedStops, with what the expiry handler has still to do
\* taken into account.
THEOREM ServicesInvariant == Spec => []ServicesInv
<1> QED BY ServicesStart, ServicesStep, PTL DEF Spec

(***************************************************************************)
(* What it says of each object, and of the threads that use others.        *)
(***************************************************************************)
\* who is in no call of the timer, or of k_poll()
LEMMA Strangers ==
    ASSUME ServicesInv, NEW t \in Threads
    PROVE  /\ use # "timer" => ~waits_in(t, "timer_sync")
           /\ use # "poll" => /\ ~served(t, "poll_wait") /\ ~eligible(t, "poll_wait")
<1>1. use # "timer" => call[t].op # "timer_sync"
  <2>1. CASE use = "poll"
    BY <2>1 DEF ServicesInv, PollInv, PollTypes, Polls, PollOps
  <2>2. CASE use \notin {"timer", "poll"}
    BY <2>2 DEF ServicesInv, OrdinaryCalls, Ordinary, Plain, TimerOps
  <2> QED BY <2>1, <2>2
<1>2. use # "poll" => call[t].op # "poll_wait"
  <2>1. CASE use = "timer"
    BY <2>1 DEF ServicesInv, TimerCalls, TimerOps
  <2>2. CASE use \notin {"timer", "poll"}
    BY <2>2 DEF ServicesInv, OrdinaryCalls, Ordinary, Plain, PollOps
  <2> QED BY <2>1, <2>2
<1> QED BY <1>1, <1>2 DEF waits_in, served, eligible

\* k_poll() misses no signal: whenever k_poll_signal() is called, by a thread
\* or in an interrupt, before, between or after the steps of the unlocked scan,
\* a thread that waits in k_poll() waits with none of its signals raised and is
\* registered with each of them.
THEOREM PollNoticesSignals == Spec => []PollSeesSignals
<1>1. ServicesInv => PollSeesSignals
  <2> SUFFICES ASSUME ServicesInv, NEW t \in Threads, eligible(t, "poll_wait")
               PROVE  poll.signaled = {} /\ poll.listed = Sigs
    BY DEF PollSeesSignals
  <2>1. use = "poll"
    BY Strangers
  <2> QED BY <2>1 DEF ServicesInv, PollInv, PollOf, Informed
<1> QED BY <1>1, ServicesInvariant, PTL

\* k_poll() leaves no event of its caller's stack on a signal's list, whatever
\* k_poll_signal() takes off it during the scan, the wait and the removal one
\* by one; and when it returns 0 an event is ready.
THEOREM PollLeavesNothing == Spec => []PollCleansUp
<1>1. ServicesInv => PollCleansUp
  <2> SUFFICES ASSUME ServicesInv PROVE PollCleansUp
    OBVIOUS
  <2>1. (\A t \in Threads : call[t].op \notin PollOps) => poll.listed = {}
    BY DEF ServicesInv, PollInv, Polls
  <2>2. ASSUME NEW t \in Threads, served(t, "poll_wait") PROVE poll.ready # {}
    <3>1. use = "poll"
      BY <2>2, Strangers
    <3> QED BY <2>2, <3>1 DEF ServicesInv, PollInv, PollOf, Successful
  <2> QED BY <2>1, <2>2 DEF PollCleansUp
<1> QED BY <1>1, ServicesInvariant, PTL

\* No thread is left waiting in k_timer_status_sync() for a timer that has
\* stopped: however k_timer_start() and k_timer_stop() of threads and nested
\* interrupts fall between the steps of _timer_expiration_handler(), but for a
\* nested stop during _unpend_thread(), the timer is active, its handler is
\* running or its stopper is about to wake it.
THEOREM SyncNeverStranded ==
    ASSUME ~NestedStops PROVE Spec => []SyncNotStranded
<1>1. ServicesInv => SyncNotStranded
  <2>1. CASE use = "timer"
    BY <2>1 DEF ServicesInv, TimerInv
  <2>2. CASE use # "timer"
    BY <2>2, Strangers DEF SyncNotStranded
  <2> QED BY <2>1, <2>2
<1> QED BY <1>1, ServicesInvariant, PTL

\* The expiry handler unlinks the waiter and readies it in a later step, with
\* interrupts in between.  If none of them stops the timer while the thread is
\* being unlinked, then when the last interrupt has returned every ready thread
\* is in the ready queue once and at its priority, and no other thread is.  The
\* same holds of all the other services.
THEOREM ReadyWhenExpired ==
    ASSUME ~NestedStops PROVE Spec => []ReadyAfterExpiry
<1>1. ServicesInv => ReadyAfterExpiry
  <2> SUFFICES ASSUME ServicesInv, isr = <<>> PROVE ReadyQueueExact
    BY DEF ReadyAfterExpiry
  <2>1. KernelInv
    BY AtThreadLevel DEF ServicesInv, PollInv
  <2> QED BY <2>1 DEF KernelInv, IInv, Live, Good, Holds, IsList, ReadyQueueExact,
          ready_q_exact
<1> QED BY <1>1, ServicesInvariant, PTL

=============================================================================
