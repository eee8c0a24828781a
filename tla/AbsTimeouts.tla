---------------------------- MODULE AbsTimeouts ----------------------------
(***************************************************************************)
(* What the kernel's timeout queue promises: a timeout that was added for  *)
(* n ticks fires once n ticks have been announced, unless it is aborted    *)
(* first; all timeouts that fall due on one tick fire before the next      *)
(* tick, in the order in which they were added (sys_clock.c:213-220; the   *)
(* comment at timeout_q.h:204 says the reverse, see module TimeoutQ).      *)
(***************************************************************************)
EXTENDS Integers, SequencesExt

CONSTANTS Timeouts, MaxTicks

VARIABLES
    due,    \* ticks to go of each timeout, -1 when it is not active
    order,  \* the active timeouts, oldest first
    outcome \* how each timeout last ended: "none" while it has not

Init == /\ due = [t \in Timeouts |-> -1]
        /\ order = <<>>
        /\ outcome = [t \in Timeouts |-> "none"]

Add(t, ticks) ==
    /\ due[t] = -1
    /\ due' = [due EXCEPT ![t] = ticks]
    /\ order' = Append(order, t)
    /\ outcome' = [outcome EXCEPT ![t] = "none"]

Abort(t) ==
    /\ due[t] >= 0
    /\ due' = [due EXCEPT ![t] = -1]
    /\ order' = RemoveFirst(order, t)
    /\ outcome' = [outcome EXCEPT ![t] = "aborted"]

Announce(ticks) ==
    /\ \A t \in Timeouts : due[t] = -1 \/ due[t] >= ticks
    /\ due' = [t \in Timeouts |-> IF due[t] = -1 THEN -1 ELSE due[t] - ticks]
    /\ UNCHANGED <<order, outcome>>

\* the oldest of the timeouts that are due
Fire(t) ==
    /\ due[t] = 0
    /\ \A i, j \in 1..Len(order) :
          i < j /\ order[j] = t => due[order[i]] # 0
    /\ due' = [due EXCEPT ![t] = -1]
    /\ order' = RemoveFirst(order, t)
    /\ outcome' = [outcome EXCEPT ![t] = "fired"]

Next ==
    \/ \E t \in Timeouts : Abort(t) \/ Fire(t)
    \/ \E t \in Timeouts, n \in 1..MaxTicks : Add(t, n)
    \/ \E n \in 1..MaxTicks : Announce(n)

Spec == Init /\ [][Next]_<<due, order, outcome>>

=============================================================================
