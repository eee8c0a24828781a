------------------------------ MODULE TimeoutQ ------------------------------
(***************************************************************************)
(* The kernel's timeout queue: the delta list _timeout_q and its           *)
(* operations (kernel/include/timeout_q.h) and the clock interrupt that    *)
(* expires them (handle_timeouts of kernel/sys_clock.c).  Every operation  *)
(* runs with interrupts locked; the clock interrupt releases the lock      *)
(* after each timeout, and then threads' timeouts and timers may be added  *)
(* and aborted by nested interrupts and by the expiry functions it calls.  *)
(***************************************************************************)
EXTENDS Integers, SequencesExt

CONSTANTS
    Timeouts,      \* every struct _timeout
    None,          \* a NULL pointer
    MaxTicks       \* bound: the longest timeout, in ticks

ASSUME TimeoutQAssumption ==
    /\ None \notin Timeouts
    /\ MaxTicks \in Nat \ {0}

INACTIVE == -1
EXPIRED  == -2

VARIABLES
    tq,       \* _timeout_q
    delta,    \* delta_ticks_from_prev of each timeout
    clk,      \* handle_timeouts(): "off", "expire" or "handle"
    expired,  \* its local list of expired timeouts
    next,     \* the loop's saved pointer to the timeout it handles next
    order,    \* ghost: the active timeouts in the order they were added
    outcome   \* ghost: how each timeout last ended

vars == <<tq, delta, clk, expired, next, order, outcome>>

Init ==
    /\ tq = <<>>
    /\ delta = [t \in Timeouts |-> INACTIVE]
    /\ clk = "off"
    /\ expired = <<>>
    /\ next = None
    /\ order = <<>>
    /\ outcome = [t \in Timeouts |-> "none"]

\* the ticks left over for the new timeout after the first i in the queue
remaining(ticks) ==
    LET r[i \in 0..Len(tq)] ==
            IF i = 0 THEN ticks ELSE r[i - 1] - delta[tq[i]]
    IN r

add_timeout(t, ticks) ==
    /\ delta[t] = INACTIVE
    /\ LET r == remaining(ticks)
           before == {i \in 1..Len(tq) : r[i - 1] <= delta[tq[i]]}
           pos == IF before = {} THEN Len(tq) + 1 ELSE Min(before)
       IN /\ tq' = InsertAt(tq, pos, t)
          /\ delta' = [u \in Timeouts |->
                         IF u = t THEN r[pos - 1]
                         ELSE IF pos <= Len(tq) /\ u = tq[pos]
                              THEN delta[u] - r[pos - 1]
                         ELSE delta[u]]
    /\ order' = Append(order, t)
    /\ outcome' = [outcome EXCEPT ![t] = "none"]
    /\ UNCHANGED <<clk, expired, next>>

\* Abort of a timeout on _timeout_q.  The code does not see that a timeout is
\* on the clock interrupt's own list instead, and corrupts that list
\* (README, section 4): callers that do this are left out.
abort_timeout(t) ==
    /\ delta[t] >= 0
    /\ LET i == CHOOSE i \in 1..Len(tq) : tq[i] = t
       IN /\ delta' = [u \in Timeouts |->
                         IF u = t THEN INACTIVE
                         ELSE IF i < Len(tq) /\ u = tq[i + 1]
                              THEN delta[u] + delta[t]
                         ELSE delta[u]]
          /\ tq' = RemoveAt(tq, i)
    /\ order' = RemoveFirst(order, t)
    /\ outcome' = [outcome EXCEPT ![t] = "aborted"]
    /\ UNCHANGED <<clk, expired, next>>

\* handle_timeouts(), up to its loop.  The timer driver never announces more
\* ticks than the first timeout has left.
announce(ticks) ==
    /\ clk = "off"
    /\ tq # <<>>
    /\ ticks <= delta[tq[1]]
    /\ delta' = [delta EXCEPT ![tq[1]] = @ - ticks]
    /\ clk' = "expire"
    /\ UNCHANGED <<tq, expired, next, order, outcome>>

ExpireDue == tq # <<>> /\ delta[tq[1]] = 0

\* Mutant: an expired timeout keeps its delta of 0.
expire_one_unmarked ==
    /\ clk = "expire" /\ ExpireDue
    /\ tq' = Tail(tq)
    /\ expired' = <<tq[1]>> \o expired
    /\ UNCHANGED <<delta, clk, next, order, outcome>>

\* Mutant: the expired list is built in queue order.
expire_one_appending ==
    /\ clk = "expire" /\ ExpireDue
    /\ tq' = Tail(tq)
    /\ expired' = Append(expired, tq[1])
    /\ delta' = [delta EXCEPT ![tq[1]] = EXPIRED]
    /\ UNCHANGED <<clk, next, order, outcome>>

expire_one ==
    /\ clk = "expire" /\ ExpireDue
    /\ tq' = Tail(tq)
    /\ expired' = <<tq[1]>> \o expired
    /\ delta' = [delta EXCEPT ![tq[1]] = EXPIRED]
    /\ UNCHANGED <<clk, next, order, outcome>>

\* Mutant: the loop may stop with a timeout of this tick still queued.
expire_done_early ==
    /\ clk = "expire"
    /\ clk' = "handle"
    /\ next' = IF expired = <<>> THEN None ELSE expired[1]
    /\ expired' = IF expired = <<>> THEN expired ELSE Tail(expired)
    /\ UNCHANGED <<tq, delta, order, outcome>>

\* the loop over the expired list keeps its next element in hand
expire_done ==
    /\ clk = "expire" /\ ~ExpireDue
    /\ clk' = "handle"
    /\ next' = IF expired = <<>> THEN None ELSE expired[1]
    /\ expired' = IF expired = <<>> THEN expired ELSE Tail(expired)
    /\ UNCHANGED <<tq, delta, order, outcome>>

\* Mutant: a handled timeout is still marked _EXPIRED.
handle_one_unmarked ==
    /\ clk = "handle" /\ next # None
    /\ order' = RemoveFirst(order, next)
    /\ outcome' = [outcome EXCEPT ![next] = "fired"]
    /\ next' = IF expired = <<>> THEN None ELSE expired[1]
    /\ expired' = IF expired = <<>> THEN expired ELSE Tail(expired)
    /\ UNCHANGED <<delta, tq, clk>>

\* handle_one_expired_timeout(): the thread is readied or the timer's expiry
\* function called
handle_one ==
    /\ clk = "handle" /\ next # None
    /\ delta' = [delta EXCEPT ![next] = INACTIVE]
    /\ order' = RemoveFirst(order, next)
    /\ outcome' = [outcome EXCEPT ![next] = "fired"]
    /\ next' = IF expired = <<>> THEN None ELSE expired[1]
    /\ expired' = IF expired = <<>> THEN expired ELSE Tail(expired)
    /\ UNCHANGED <<tq, clk>>

handle_done ==
    /\ clk = "handle" /\ next = None
    /\ clk' = "off"
    /\ UNCHANGED <<tq, delta, expired, next, order, outcome>>

Clock == \/ \E n \in 1..MaxTicks : announce(n)
         \/ expire_one \/ expire_done \/ handle_one \/ handle_done

Next == \/ Clock
        \/ \E t \in Timeouts : abort_timeout(t)
        \/ \E t \in Timeouts, n \in 1..MaxTicks : add_timeout(t, n)

Spec == Init /\ [][Next]_vars

\* The clock keeps ticking while a timeout is active, and its handler ends.
FairSpec == Spec /\ WF_vars(Clock)

(***************************************************************************)
(* Properties.                                                             *)
(***************************************************************************)
\* the timeouts the clock interrupt still has to handle
Unhandled == IF next = None THEN expired ELSE <<next>> \o expired

\* A timeout is linked where its delta says: on _timeout_q when it is counting
\* down, on the expired list when it is _EXPIRED, nowhere when _INACTIVE, and
\* never twice.  (Code all over the kernel tells the three apart by delta.)
LinkedAsMarked ==
    \A t \in Timeouts :
        /\ Cardinality({i \in 1..Len(tq) : tq[i] = t})
              = IF delta[t] >= 0 THEN 1 ELSE 0
        /\ Cardinality({i \in 1..Len(Unhandled) : Unhandled[i] = t})
              = IF delta[t] = EXPIRED THEN 1 ELSE 0

\* Between two ticks no timeout is left behind at 0: the loop tests for
\* equality with 0, so one that was would block the queue for ever.
NothingOverdue == clk = "off" => expired = <<>> /\ next = None /\ ~ExpireDue

\* Every timeout that is added fires or is aborted.
EventuallyOff == \A t \in Timeouts : delta[t] # INACTIVE ~> delta[t] = INACTIVE

(***************************************************************************)
(* Refinement: the ticks to go of a queued timeout are the sum of the      *)
(* deltas up to it.                                                        *)
(***************************************************************************)
sums(q, d) ==
    LET s[i \in 0..Len(q)] == IF i = 0 THEN 0 ELSE s[i - 1] + d[q[i]]
    IN s

ticks_to_go(t) == sums(tq, delta)[CHOOSE i \in 1..Len(tq) : tq[i] = t]

dueMap == [t \in Timeouts |-> IF delta[t] = INACTIVE THEN -1
                              ELSE IF delta[t] = EXPIRED THEN 0
                              ELSE ticks_to_go(t)]

Abs == INSTANCE AbsTimeouts WITH due <- dueMap

\* The queue implements AbsTimeouts: every timeout goes off on its own tick, and
\* those of one tick in the order they were added, though timeouts come and go
\* between two iterations of the loops.  The comment of _add_timeout()
\* (timeout_q.h:204) says "the timeouts are then processed in the _reverse
\* order_ if they expire on the same tick"; the loop of handle_timeouts()
\* reverses them again, and its comment (sys_clock.c:213-220) says the same
\* as this property.
Refines == Abs!Spec

=============================================================================
