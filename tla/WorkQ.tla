------------------------------- MODULE WorkQ -------------------------------
(***************************************************************************)
(* A workqueue (kernel/work_q.c): a thread that takes work items from a    *)
(* queue and calls their handlers, plain work submitted by threads and     *)
(* interrupts, and delayed work submitted by the clock interrupt.          *)
(* Handlers return without blocking; they may submit their item again.     *)
(***************************************************************************)
EXTENDS Queue

CONSTANT Worker         \* k_work_q.thread
ASSUME WorkQAssumption == Worker \in Apps

Delayed == Items \cap Timers   \* a delayed work item is also its timeout

VARIABLES
    pending,    \* work items whose K_WORK_STATE_PENDING bit is set
    attached    \* delayed work items whose work_q is not NULL

workVars == <<pending, attached>>

WorkQInit == pending = {} /\ attached = {}

At(op, x) == [op |-> op, x |-> x]
Goto(c) == call' = [call EXCEPT ![k.current] = c]

(***************************************************************************)
(* k_work_submit_to_queue(): set the bit, read the tail, insert.           *)
(***************************************************************************)

\* Mutant: the bit is not tested.
work_submit_untested(x, after) ==
    /\ pending' = pending \cup {x}
    /\ Goto([op |-> "submit", x |-> x, after |-> after])
    /\ UNCHANGED <<schedVars, use, held, data, data_q, attached>>

work_submit(x, after) ==
    /\ x \notin pending
    /\ pending' = pending \cup {x}
    /\ Goto([op |-> "submit", x |-> x, after |-> after])
    /\ UNCHANGED <<schedVars, use, held, data, data_q, attached>>

k_work_submit(x) ==
    Producer(TRUE) /\ x \notin Timers /\ work_submit(x, NoCall)

submit_append ==
    /\ Resumes("submit")
    /\ append_read(call[k.current].x, call[k.current].after)
    /\ UNCHANGED <<schedVars, use, held, data, data_q, workVars>>

\* In an interrupt no thread runs between the three, and what a nested
\* interrupt does between them it could as well have done before or after.
isr_submit(kk, x) ==
    IF x \in pending
    THEN k' = kk /\ UNCHANGED <<data, data_q, pending>>
    ELSE /\ pending' = pending \cup {x}
         /\ queue_insert(kk, data_q, data_q.tail, x, FALSE)

isr_k_work_submit(x) ==
    /\ Caller(FALSE) /\ x \notin pending /\ x \notin Timers
    /\ isr_submit(k, x)
    /\ UNCHANGED <<isr, clk, slice, use, call, held, attached>>

(***************************************************************************)
(* work_q_main()                                                           *)
(***************************************************************************)
worker_get ==
    /\ Resumes("loop")
    /\ data_q.head # Nil
    /\ data_q' = slist_get_not_empty(data_q)
    /\ Goto(At("run", data_q.head))
    /\ UNCHANGED <<schedVars, use, held, data, workVars>>

worker_wait ==
    /\ Resumes("loop")
    /\ data_q.head = Nil
    /\ Block(QueueWaitQ, "FOREVER", [op |-> "queue_get"])
    /\ UNCHANGED <<use, held, data, data_q, workVars>>

worker_got ==
    /\ Resumes("queue_get")
    /\ LET x == IF k.rv[k.current] = "0" THEN data[k.current] ELSE Nil IN
       Goto(IF x = Nil THEN [op |-> "loop"] ELSE At("run", x))
    /\ Call([k EXCEPT !.rv[k.current] = "EAGAIN"])
    /\ data' = [data EXCEPT ![k.current] = Nil]
    /\ UNCHANGED <<use, held, data_q, workVars>>

\* atomic_test_and_clear_bit()
worker_run ==
    /\ Resumes("run")
    /\ LET x == call[k.current].x IN
       /\ Goto(IF x \in pending THEN At("handler", x) ELSE [op |-> "yield"])
       /\ pending' = pending \ {x}
    /\ UNCHANGED <<schedVars, use, held, data, data_q, attached>>

\* The handler returns, or submits its item first.
handler_return ==
    /\ Resumes("handler")
    /\ Goto([op |-> "yield"])
    /\ UNCHANGED <<schedVars, use, held, data, data_q, workVars>>

handler_resubmit ==
    /\ Resumes("handler")
    /\ work_submit(call[k.current].x, [op |-> "yield"])

worker_yield ==
    /\ Resumes("yield")
    /\ k_yield
    /\ Goto([op |-> "loop"])
    /\ UNCHANGED <<use, held, data, data_q, workVars>>

Workqueue ==
    \/ submit_append
    \/ append_insert /\ UNCHANGED workVars
    \/ worker_get \/ worker_wait \/ worker_got \/ worker_run \/ worker_yield

(***************************************************************************)
(* Delayed work.  An interrupt that cancels a timeout the clock interrupt  *)
(* has marked EXPIRED but not handled is left out: see README, section 4.  *)
(***************************************************************************)
\* k_delayed_work_cancel() succeeds
cancellable(x) ==
    /\ x \in attached /\ k.to[x] # "EXPIRED"
    /\ x \in pending => x \in slist_nodes(data_q)

\* what it does to the list and to the kernel: a queued item leaves the
\* queue, with its PENDING bit set; otherwise the timeout is aborted
cancelled_list(x) == IF x \in pending THEN slist_remove(data_q, x) ELSE data_q
cancelled_k(x) == IF x \in pending THEN k ELSE abort_thread_timeout(k, x)

k_delayed_work_cancel(inThread, x) ==
    /\ Caller(inThread)
    /\ cancellable(x)
    /\ data_q' = cancelled_list(x)
    /\ k' = cancelled_k(x)
    /\ attached' = attached \ {x}
    /\ UNCHANGED <<isr, clk, slice, use, call, held, data, pending>>

\* k_delayed_work_submit_to_queue(): cancelled first when attached
delayed_submit(inThread, x, delay) ==
    /\ x \in attached => cancellable(x)
    /\ LET k1 == IF x \in attached THEN cancelled_k(x) ELSE k
           l1 == IF x \in attached THEN cancelled_list(x) ELSE data_q
       IN IF delay = 0 /\ x \notin pending
          THEN /\ pending' = pending \cup {x}
               /\ queue_insert(k1, l1, l1.tail, x, inThread)
          ELSE /\ k' = IF delay = 0 THEN k1 ELSE add_thread_timeout(k1, x)
               /\ data_q' = l1
               /\ UNCHANGED <<data, pending>>
    /\ attached' = attached \cup {x}
    /\ UNCHANGED <<isr, clk, slice, use, held>>

k_delayed_work_submit(inThread, x, delay) ==
    /\ Caller(inThread)
    /\ delayed_submit(inThread, x, delay)
    /\ UNCHANGED call

\* the handler of a delayed work item submits it again
handler_delayed(delay) ==
    /\ Resumes("handler") /\ call[k.current].x \in Delayed
    /\ delayed_submit(TRUE, call[k.current].x, delay)
    /\ Goto([op |-> "yield"])

\* _handle_one_expired_timeout() calls work_timeout()
work_timeout(x) ==
    /\ Active("clk") /\ clk = "handle"
    /\ k.to[x] = "EXPIRED"
    /\ isr_submit([k EXCEPT !.to[x] = "INACTIVE"], x)
    /\ UNCHANGED <<isr, clk, slice, use, call, held, attached>>

WorkQNext ==
    \/ Workqueue \/ handler_return \/ handler_resubmit
    \/ \E x \in Items : k_work_submit(x) \/ isr_k_work_submit(x)
    \/ (Rest \/ Interrupts) /\ UNCHANGED <<data_q, workVars>>

DelayedNext ==
    \/ Workqueue \/ handler_return
    \/ \E delay \in {0, 1} : handler_delayed(delay)
    \/ \E x \in Items : k_work_submit(x) \/ isr_k_work_submit(x)
    \/ \E x \in Delayed :
          \/ work_timeout(x)
          \/ \E inThread \in BOOLEAN :
                \/ k_delayed_work_cancel(inThread, x)
                \/ \E delay \in {0, 1} : k_delayed_work_submit(inThread, x, delay)
    \/ (Rest \/ Interrupts) /\ UNCHANGED <<data_q, workVars>>

(***************************************************************************)
(* Properties.                                                             *)
(***************************************************************************)
\* where work item x is on its way to the handler: being submitted, linked,
\* handed to the worker, or taken from the queue
WorkPlaces(x) ==
      (IF x \in slist_nodes(data_q) THEN 1 ELSE 0)
    + Cardinality({t \in Threads :
          \/ call[t].op \in {"submit", "append", "run"} /\ call[t].x = x
          \/ served(t, "queue_get") /\ data[t] = x})

\* The PENDING bit and the queue agree, though they are changed in separate
\* steps by submitters, interrupts and the worker: an item whose bit is set
\* is on its way to its handler, once; one whose bit is clear is not linked,
\* so that it can be submitted again.
PendingIsQueued(x) == WorkPlaces(x) = IF x \in pending THEN 1 ELSE 0

\* No submission of plain work is lost, and no item, delayed ones included,
\* is on its way twice: linked twice it would corrupt the list.
WorkNotLost ==
    use \in {"workq", "delayed", "alert"} =>
        /\ slist_ok(data_q)
        /\ \A x \in Items \ Timers : PendingIsQueued(x)
        /\ \A x \in Delayed : WorkPlaces(x) <= 1

\* "This routine indicates if work item work is pending in a workqueue's
\* queue" (kernel.h, k_work_pending), of delayed work too: otherwise its
\* next submission is taken for one that is already queued, and dropped.
DelayedWorkNotLost ==
    use = "delayed" => \A x \in Delayed : PendingIsQueued(x)

=============================================================================
