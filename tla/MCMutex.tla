------------------------------ MODULE MCMutex ------------------------------
(* Instances of Mutex for TLC. *)
EXTENDS Mutex

CONSTANTS main, a, b, idle, m1

\* b high, main intermediate, a low
MCInitPrio == (main :> 1) @@ (a :> 2) @@ (b :> 0) @@ (idle :> NumPreempt)
\* the same with b cooperative, above the ceiling
MCCoopHigh == (main :> 1) @@ (a :> 2) @@ (b :> -1) @@ (idle :> NumPreempt)
MCSlices == {<<0, 0>>}
=============================================================================
