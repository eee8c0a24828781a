----------------------------- MODULE MCServices -----------------------------
(* Instances of Services for TLC. *)
EXTENDS Services

CONSTANTS main, a, b, idle, x1, x2, d1, tm1, queue_w, alert_w, timer_w, poll_w

MCInitPrio == [t \in Threads |-> CASE t = idle -> NumPreempt [] t = main -> 0
                                   [] OTHER -> -1]

MCPatience == [t \in Threads |-> IF t = b THEN {"FOREVER"} ELSE {"TIMED"}]
MCSignals == <<x1, x2>>
MCSlices == {<<0, 0>>}
=============================================================================
