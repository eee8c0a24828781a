------------------------------ MODULE Services ------------------------------
(***************************************************************************)
(* The objects built from others: queues, the workqueues and alerts on     *)
(* top of them, timers, and polling, each on the same scheduler, clock and *)
(* interrupts.                                                             *)
(***************************************************************************)
EXTENDS Alert, Timer, Poll

CONSTANT Uses   \* the objects that are exercised
ASSUME UsesAssumption ==
    Uses \subseteq {"queue", "workq", "delayed", "alert", "timer", "poll"}

vars == <<schedVars, objVars, data_q, workVars, alert, timer, poll>>

\* The items of the queue are with the interrupt, which puts them in; threads
\* append what they have taken out.  The worker is in its loop.
Init ==
    /\ ObjectsInit /\ QueueInit /\ WorkQInit /\ AlertInit /\ TimerInit /\ PollInit
    /\ use \in Uses
    /\ use # "alert" => alert.handler = "DEFAULT"
    /\ call = [t \in Threads |->
                  IF use \in {"workq", "delayed", "alert"} /\ t = Worker
                  THEN [op |-> "loop"] ELSE NoCall]
    /\ held = [p \in Threads \cup {Isr} |->
                  IF use = "queue" /\ p = Isr THEN Items ELSE {}]

Next ==
    \/ /\ use = "queue" /\ QueueNext
       /\ UNCHANGED <<workVars, alert, timer, poll>>
    \/ /\ use = "workq" /\ WorkQNext
       /\ UNCHANGED <<alert, timer, poll>>
    \/ /\ use = "delayed" /\ DelayedNext
       /\ UNCHANGED <<alert, timer, poll>>
    \/ /\ use = "alert" /\ AlertNext
       /\ UNCHANGED <<timer, poll>>
    \/ /\ use = "timer" /\ TimerNext
       /\ UNCHANGED <<data_q, workVars, alert, poll>>
    \/ /\ use = "poll" /\ PollNext
       /\ UNCHANGED <<data_q, workVars, alert, timer>>

Spec == Init /\ [][Next]_vars

=============================================================================
