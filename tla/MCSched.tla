------------------------------ MODULE MCSched ------------------------------
(* Instances of Sched for TLC: two or three application threads and idle. *)
EXTENDS Sched

CONSTANTS main, a, b, idle

MCInitPrio == [t \in Threads |-> IF t = idle THEN NumPreempt ELSE 0]
MCNewPrios == {p \in AppPrios : p <= 1}
MCSlices == {<<0, 0>>, <<1, 0>>}
=============================================================================
