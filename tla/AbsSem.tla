------------------------------- MODULE AbsSem -------------------------------
(***************************************************************************)
(* What a counting semaphore promises, with no scheduler in sight: a unit  *)
(* that is given goes to exactly one waiter if there is one, and is kept   *)
(* (up to the limit) only if there is none; a unit is taken at once only   *)
(* when one is kept.                                                       *)
(***************************************************************************)
EXTENDS Integers

CONSTANTS Threads, Limit, InitCount

VARIABLES
    count,     \* units kept
    waiters,   \* threads waiting that have not given up
    granted    \* threads that were handed a unit and have not returned yet

Init == count = InitCount /\ waiters = {} /\ granted = {}

Take == count > 0 /\ count' = count - 1 /\ UNCHANGED <<waiters, granted>>

Wait(t) ==
    /\ count = 0 /\ t \notin waiters \cup granted
    /\ waiters' = waiters \cup {t}
    /\ UNCHANGED <<count, granted>>

GiveToWaiter(t) ==
    /\ t \in waiters
    /\ waiters' = waiters \ {t}
    /\ granted' = granted \cup {t}
    /\ UNCHANGED count

GiveKept ==
    /\ waiters = {}
    /\ count < Limit
    /\ count' = count + 1
    /\ UNCHANGED <<waiters, granted>>

\* timed out or aborted
GiveUp(t) ==
    /\ t \in waiters
    /\ waiters' = waiters \ {t}
    /\ UNCHANGED <<count, granted>>

Return(t) ==
    /\ t \in granted
    /\ granted' = granted \ {t}
    /\ UNCHANGED <<count, waiters>>

Reset == count' = 0 /\ UNCHANGED <<waiters, granted>>

Next == \/ Take \/ GiveKept \/ Reset
        \/ \E t \in Threads :
              Wait(t) \/ GiveToWaiter(t) \/ GiveUp(t) \/ Return(t)

Spec == Init /\ [][Next]_<<count, waiters, granted>>

=============================================================================
