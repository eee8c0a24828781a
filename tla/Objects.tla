------------------------------ MODULE Objects ------------------------------
(***************************************************************************)
(* What the kernel objects that threads wait on have in common: the calls  *)
(* threads are blocked in, the word handed over through base.swap_data,    *)
(* and the calls by which other threads disturb a waiter.                  *)
(*                                                                         *)
(* The modules of the objects extend this one and each adds the state and  *)
(* the operations of one object.  Objects share nothing but the scheduler, *)
(* so a behaviour exercises one of them: use says which.                   *)
(***************************************************************************)
EXTENDS Sched

CONSTANTS
    Items,    \* what is passed around: messages, words, blocks, list nodes
    Patience, \* the timeouts, "TIMED" or "FOREVER", each thread waits with
    Victims,  \* the threads that others suspend, resume and abort
    Nil       \* the null pointer, and the absence of an item

ASSUME ObjectsAssumption ==
    /\ IsFiniteSet(Threads)
    /\ Nil \notin Items
    /\ Victims \subseteq Apps
    /\ Patience \in [Threads -> SUBSET {"TIMED", "FOREVER"}]

VARIABLES
    use,      \* the object this behaviour exercises
    call,     \* per thread: the blocking call it is in
    data,     \* per thread: what base.swap_data points to
    held      \* per thread, and for interrupts: the items it has been given

objVars == <<use, call, data, held>>

Isr == "isr"
NoCall == [op |-> "none"]

\* Every thread has been started and none has run yet: the most urgent one is
\* about to.
ObjectsInit ==
    /\ LET at(p) == SetToSeq({t \in Threads : InitPrio[t] = p})
           top   == Head(at(Min({InitPrio[t] : t \in Threads})))
       IN k = [current  |-> top,
               cache    |-> top,
               q        |-> [p \in Prios |-> at(p)],
               bmap     |-> {InitPrio[t] : t \in Threads},
               prio     |-> InitPrio,
               state    |-> [t \in Threads |-> {}],
               locked   |-> [t \in Threads |-> 0],
               to       |-> [t \in AllTimeouts |-> "INACTIVE"],
               wq       |-> [w \in WaitQs |-> <<>>],
               rv       |-> [t \in Threads |-> "EAGAIN"],
               handling |-> FALSE,
               elapsed  |-> 0]
    /\ isr = <<>>
    /\ clk = "off"
    /\ slice \in SliceSettings
    /\ data = [t \in Threads |-> Nil]

\* who makes the next call: the running thread or the device interrupt
Caller(inThread) ==
    IF inThread THEN InThread /\ call[k.current] = NoCall ELSE Active("dev")

Self(inThread) == IF inThread THEN k.current ELSE Isr

\* if (!_is_in_isr() && _must_switch_threads()) _Swap()
switch_unless_isr(kk, inThread) ==
    IF inThread THEN reschedule_threads(kk) ELSE kk

\* _pend_current_thread() on w and _Swap(), inside the call c
Block(w, timeout, c) ==
    /\ Call(swap(pend_current_thread(k, w, timeout = "TIMED")))
    /\ call' = [call EXCEPT ![k.current] = c]

\* The thread runs again and its _Swap() returns in the call op.  When the
\* call has returned its return value and swap_data are dead.
Resumes(op) == InThread /\ call[k.current].op = op
Returns ==
    /\ Call([k EXCEPT !.rv[k.current] = "EAGAIN"])
    /\ call' = [call EXCEPT ![k.current] = NoCall]
    /\ data' = [data EXCEPT ![k.current] = Nil]

waits_in(t, op) == "PENDING" \in k.state[t] /\ call[t].op = op
\* a waiter that can still be served
eligible(t, op) == waits_in(t, op) /\ k.to[t] # "EXPIRED"
\* a waiter that was served and has not returned yet
served(t, op) ==
    call[t].op = op /\ "PENDING" \notin k.state[t] /\ k.rv[t] = "0"

\* Calls of several steps that do not wait: a thread aborted inside one leaves
\* the object half changed, and is not.
Unfinished == {"submit", "append", "timer_stop"}

\* What other threads may do to one that is inside a call.
Disturb ==
    /\ InThread /\ call[k.current] = NoCall
    /\ \E t \in Victims \ {k.current} :
          /\ call[t] # NoCall /\ call[t].op \notin Unfinished
          /\ "DEAD" \notin k.state[t]
          /\ k_thread_suspend(t) \/ resume_not_ready(t) \/ k_thread_abort(t)

\* What goes on around an object, and around its users.
Interrupts  == (Clock \/ DevEnter \/ DevExit) /\ UNCHANGED objVars
Environment == Interrupts \/ (Disturb /\ UNCHANGED objVars)
Rest == Caller(TRUE) /\ k_sleep /\ UNCHANGED objVars

=============================================================================
