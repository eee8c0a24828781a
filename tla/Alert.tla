------------------------------- MODULE Alert -------------------------------
(***************************************************************************)
(* An alert (kernel/alert.c): sends are counted, the first one submits a   *)
(* work item whose handler, _alert_deliver(), delivers until the count is  *)
(* back at 0.  An alert the handler does not consume is pended in a        *)
(* semaphore (kernel/sem.c).                                               *)
(***************************************************************************)
EXTENDS WorkQ

CONSTANTS
    AlertWork,    \* k_alert.work_item
    AlertWaitQ,   \* k_alert.sem.wait_q
    MaxPended,    \* k_alert.sem.limit
    MaxSends      \* bound: alerts sent and not delivered

ASSUME AlertAssumption ==
    /\ AlertWork \in Items \ Timers /\ AlertWaitQ \in WaitQs
    /\ MaxPended \in Nat \ {0} /\ MaxSends \in Nat \ {0}

VARIABLE alert    \* handler, send_count and the semaphore's count

AlertInit == \E h \in {"CALLBACK", "DEFAULT"} :
                alert = [handler |-> h, send_count |-> 0, sem |-> 0]

alertFrame == <<use, held, data_q, workVars>>

\* k_sem_give(&alert->sem)
sem_give(inThread) ==
    LET t == find_first_thread_to_unpend(k, AlertWaitQ) IN
    IF t # NoThread
    THEN /\ k' = switch_unless_isr(wake_waiter(k, t), inThread)
         /\ UNCHANGED alert
    ELSE /\ alert' = [alert EXCEPT !.sem = IF @ # MaxPended THEN @ + 1 ELSE @]
         /\ UNCHANGED k

\* k_alert_send(), K_ALERT_DEFAULT or the atomic_inc() of the others; the
\* first sender goes on to submit the work item
k_alert_send(inThread) ==
    /\ Caller(inThread)
    /\ alert.handler = "DEFAULT" \/ alert.send_count < MaxSends
    /\ \/ /\ alert.handler = "DEFAULT"
          /\ sem_give(inThread)
          /\ UNCHANGED <<isr, clk, slice, call, data, alertFrame>>
       \/ /\ alert.handler # "DEFAULT"
          /\ alert' = [alert EXCEPT !.send_count = @ + 1]
          /\ \/ /\ alert.send_count = 0 /\ inThread
                /\ Goto([op |-> "alert"])
                /\ UNCHANGED <<schedVars, data, alertFrame>>
             \/ /\ alert.send_count = 0 /\ ~inThread
                /\ isr_submit(k, AlertWork)
                /\ UNCHANGED <<isr, clk, slice, use, call, held, attached>>
             \/ /\ alert.send_count # 0
                /\ UNCHANGED <<schedVars, call, data, alertFrame>>

alert_submit ==
    /\ Resumes("alert")
    /\ IF AlertWork \notin pending
       THEN work_submit(AlertWork, NoCall)
       ELSE Goto(NoCall) /\ UNCHANGED <<schedVars, data, alertFrame>>
    /\ UNCHANGED alert

\* one round of _alert_deliver(): the handler, which may return non-zero
deliver ==
    /\ Resumes("handler")
    /\ \/ UNCHANGED <<k, alert>>
       \/ sem_give(TRUE)
    /\ Goto([op |-> "deliver"])
    /\ UNCHANGED <<isr, clk, slice, data, alertFrame>>

\* Mutant: the loop ends when the old count was 0.
deliver_again_off_by_one ==
    /\ Resumes("deliver")
    /\ alert' = [alert EXCEPT !.send_count = @ - 1]
    /\ Goto(IF alert.send_count = 0 THEN [op |-> "yield"] ELSE At("handler", AlertWork))
    /\ UNCHANGED <<schedVars, data, alertFrame>>

\* atomic_dec() == 1 ends the loop
deliver_again ==
    /\ Resumes("deliver")
    /\ alert' = [alert EXCEPT !.send_count = @ - 1]
    /\ Goto(IF alert.send_count = 1 THEN [op |-> "yield"] ELSE At("handler", AlertWork))
    /\ UNCHANGED <<schedVars, data, alertFrame>>

\* k_alert_recv() is k_sem_take() of the semaphore
k_alert_recv ==
    /\ Caller(TRUE)
    /\ alert.sem > 0
    /\ alert' = [alert EXCEPT !.sem = @ - 1]
    /\ UNCHANGED <<schedVars, call, data, alertFrame>>

k_alert_recv_wait(timeout) ==
    /\ Caller(TRUE)
    /\ alert.sem = 0
    /\ Block(AlertWaitQ, timeout, [op |-> "alert_recv"])
    /\ UNCHANGED <<data, alertFrame, alert>>

k_alert_recv_return ==
    /\ Resumes("alert_recv")
    /\ Returns
    /\ UNCHANGED <<alertFrame, alert>>

AlertNext ==
    \/ \E inThread \in BOOLEAN : k_alert_send(inThread)
    \/ alert_submit \/ deliver \/ deliver_again
    \/ k_alert_recv \/ k_alert_recv_return
    \/ \E timeout \in Patience[k.current] : k_alert_recv_wait(timeout)
    \/ Workqueue /\ UNCHANGED alert
    \/ (Rest \/ Environment) /\ UNCHANGED <<data_q, workVars, alert>>

(***************************************************************************)
(* Properties.                                                             *)
(***************************************************************************)
\* who is responsible for the alerts sent and not delivered: the sender that
\* is about to submit, the work item on its way, or the delivery loop
Carriers ==
    WorkPlaces(AlertWork)
    + Cardinality({t \in Threads : call[t].op \in {"alert", "handler", "deliver"}})

\* While alerts are undelivered exactly one party is on its way to deliver
\* them, and none when the count is 0, though senders increment it between
\* any two steps of the loop: no alert is forgotten and _alert_deliver() never
\* takes the count below 0, where its loop would not end.
AlertsCarried ==
    use = "alert" => Carriers = IF alert.send_count > 0 THEN 1 ELSE 0

=============================================================================
