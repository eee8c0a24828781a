------------------------------- MODULE Timer -------------------------------
(***************************************************************************)
(* A k_timer (kernel/timer.c).  Its expiry handler runs in the clock       *)
(* interrupt with interrupts enabled, so a device interrupt may start and  *)
(* stop the timer between any two of its steps.                            *)
(*                                                                         *)
(* "Only a single thread at a time should synchronize with a given timer"  *)
(* (timers.rst).  The status is 0 or not.  Durations are positive: one of  *)
(* 0 ticks calls the expiry handler at once.  No interrupt starts or stops *)
(* the timer while it is EXPIRED but not handled (timeout_q.h:145-152      *)
(* would corrupt the list of expired timeouts, see README).                *)
(***************************************************************************)
EXTENDS Objects

CONSTANTS
    Tmr,          \* the timer's timeout
    TimerWaitQ,   \* k_timer.wait_q
    NestedStops   \* does an interrupt stop the timer while the expiry handler
                  \* is taking a thread off the wait queue?

ASSUME TimerAssumption ==
    Tmr \in Timers /\ TimerWaitQ \in WaitQs /\ NestedStops \in BOOLEAN

VARIABLE timer   \* period > 0, status > 0, and the expiry handler's progress:
                 \* its thread, and the list that the links it loaded are of

TimerInit == timer = [periodic |-> FALSE, status |-> FALSE,
                      at |-> "idle", thread |-> NoThread, links |-> "none"]

timerFrame == <<isr, clk, slice, objVars>>
Handler(point) == Active("clk") /\ clk = "handle" /\ timer.at = point

\* _unpend_first_thread() and _ready_thread() of k_timer_stop()
unpend_first(kk) ==
    LET t == find_first_thread_to_unpend(kk, TimerWaitQ) IN
    IF t = NoThread THEN kk ELSE ready_thread(unpend_thread(kk, t), t)

\* k_timer_stop() of an active timer, in an interrupt
isr_stop(kk) == unpend_first(abort_thread_timeout(kk, Tmr))

(***************************************************************************)
(* _handle_one_expired_timeout() and _timer_expiration_handler()           *)
(***************************************************************************)
timer_expired ==
    /\ Handler("idle") /\ k.to[Tmr] = "EXPIRED"
    /\ k' = abort_thread_timeout(k, Tmr)
    /\ timer' = [timer EXCEPT !.at = "fired"]
    /\ UNCHANGED timerFrame

timer_restart ==
    /\ Handler("fired")
    /\ k' = IF timer.periodic THEN add_thread_timeout(k, Tmr) ELSE k
    /\ timer' = [timer EXCEPT !.at = "count"]
    /\ UNCHANGED timerFrame

\* status and expiry_fn, which may stop the timer
timer_count ==
    /\ Handler("count")
    /\ \/ k' = k
       \/ k.to[Tmr] = "ACTIVE" /\ k' = isr_stop(k)
    /\ timer' = [timer EXCEPT !.status = TRUE, !.at = "peek"]
    /\ UNCHANGED timerFrame

timer_peek ==
    /\ Handler("peek")
    /\ timer' = IF k.wq[TimerWaitQ] = <<>>
                THEN [timer EXCEPT !.at = "idle"]
                ELSE [timer EXCEPT !.at = "unpend", !.thread = Head(k.wq[TimerWaitQ])]
    /\ UNCHANGED <<k, timerFrame>>

\* _unpend_thread() runs with interrupts enabled.  First it loads the links of
\* the thread's node, from whatever list the thread is in by now ...
timer_unpend_load ==
    /\ Handler("unpend")
    /\ timer' = [timer EXCEPT !.at = "unlink",
                    !.links = IF "PENDING" \in k.state[timer.thread]
                              THEN "wait_q" ELSE "ready_q"]
    /\ UNCHANGED <<k, timerFrame>>

\* ... then it joins the two neighbours they name and clears the flag.  A node
\* that has moved to the ready queue in between stays linked there.
timer_unpend ==
    /\ Handler("unlink")
    /\ LET t  == timer.thread
           k1 == unpend_thread(k, t)
       IN k' = IF timer.links = "wait_q" THEN k1
               ELSE [k1 EXCEPT !.q = [p \in Prios |-> dlist_remove(@[p], t)]]
    /\ timer' = [timer EXCEPT !.at = "ready"]
    /\ UNCHANGED timerFrame

\* Mutant: the return value is set and the thread not made ready.
timer_ready_value_only ==
    /\ Handler("ready")
    /\ k' = [k EXCEPT !.rv[timer.thread] = "0"]
    /\ timer' = [timer EXCEPT !.at = "idle", !.thread = NoThread, !.links = "none"]
    /\ UNCHANGED timerFrame

timer_ready ==
    /\ Handler("ready")
    /\ k' = [ready_thread(k, timer.thread) EXCEPT !.rv[timer.thread] = "0"]
    /\ timer' = [timer EXCEPT !.at = "idle", !.thread = NoThread, !.links = "none"]
    /\ UNCHANGED timerFrame

(***************************************************************************)
(* The timer API.                                                          *)
(***************************************************************************)
\* Started again between the two locked regions of the handler, a periodic
\* timer would be linked twice: left out, as is an EXPIRED one.
k_timer_start(inThread, periodic) ==
    /\ Caller(inThread)
    /\ k.to[Tmr] # "EXPIRED" /\ timer.at # "fired"
    /\ k' = add_thread_timeout(abort_thread_timeout(k, Tmr), Tmr)
    /\ timer' = [timer EXCEPT !.periodic = periodic, !.status = FALSE]
    /\ UNCHANGED timerFrame

\* Mutant: a stopped timer keeps its waiter.
isr_k_timer_stop_only ==
    /\ Active("dev") /\ k.to[Tmr] = "ACTIVE"
    /\ k' = abort_thread_timeout(k, Tmr)
    /\ UNCHANGED <<timer, timerFrame>>

\* It may come between any two steps of the handler if NestedStops.
isr_k_timer_stop ==
    /\ Active("dev") /\ k.to[Tmr] = "ACTIVE"
    /\ NestedStops \/ timer.at \notin {"unpend", "unlink"}
    /\ k' = isr_stop(k)
    /\ UNCHANGED <<timer, timerFrame>>

\* A thread's stop releases the lock after the timeout is aborted.
k_timer_stop ==
    /\ Caller(TRUE) /\ k.to[Tmr] = "ACTIVE"
    /\ Call(abort_thread_timeout(k, Tmr))
    /\ call' = [call EXCEPT ![k.current] = [op |-> "timer_stop"]]
    /\ UNCHANGED <<use, data, held, timer>>

k_timer_stop_unpend ==
    /\ Resumes("timer_stop")
    /\ Call(reschedule_threads(unpend_first(k)))
    /\ call' = [call EXCEPT ![k.current] = NoCall]
    /\ UNCHANGED <<use, data, held, timer>>

k_timer_status_get(inThread) ==
    /\ Caller(inThread) /\ timer.status
    /\ timer' = [timer EXCEPT !.status = FALSE]
    /\ UNCHANGED <<k, timerFrame>>

\* status 0 and the timer active; otherwise it is k_timer_status_get()
k_timer_status_sync ==
    /\ Caller(TRUE)
    /\ \A t \in Threads : call[t].op # "timer_sync"
    /\ ~timer.status /\ k.to[Tmr] # "INACTIVE"
    /\ Block(TimerWaitQ, "FOREVER", [op |-> "timer_sync"])
    /\ UNCHANGED <<use, data, held, timer>>

k_timer_status_sync_return ==
    /\ Resumes("timer_sync")
    /\ Returns
    /\ timer' = [timer EXCEPT !.status = FALSE]
    /\ UNCHANGED <<use, held>>

TimerNext ==
    \/ timer_expired \/ timer_restart \/ timer_count
    \/ timer_peek \/ timer_unpend_load \/ timer_unpend \/ timer_ready
    \/ \E inThread \in BOOLEAN :
          \/ k_timer_status_get(inThread)
          \/ \E periodic \in BOOLEAN : k_timer_start(inThread, periodic)
    \/ isr_k_timer_stop \/ k_timer_stop \/ k_timer_stop_unpend
    \/ k_timer_status_sync \/ k_timer_status_sync_return
    \/ Rest /\ UNCHANGED timer
    \/ /\ Disturb \/ DevEnter \/ DevExit \/ (timer.at = "idle" /\ Clock)
       /\ UNCHANGED <<objVars, timer>>

(***************************************************************************)
(* Properties.                                                             *)
(***************************************************************************)
\* A thread never waits for a timer that has stopped: the timer is active,
\* its expiry handler is running, or whoever stopped it is about to wake it.
SyncNotStranded ==
    \A t \in Threads : waits_in(t, "timer_sync") =>
        \/ k.to[Tmr] # "INACTIVE" \/ timer.at # "idle"
        \/ \E u \in Threads : call[u].op = "timer_stop"

\* The expiry handler takes a thread off its queue without a lock, because "this
\* is the only place a thread can be taken off this pend queue" (timer.c:79);
\* until it has locked again and made the thread ready, the thread is in no
\* list.  Whatever interrupts come meanwhile, when the last of them returns
\* every ready thread is linked, and once.  k_timer_stop() in a nested
\* interrupt is another such place: without NestedStops the property holds,
\* with it the thread may be linked twice.
ReadyAfterExpiry == isr = <<>> => ReadyQueueExact

=============================================================================
