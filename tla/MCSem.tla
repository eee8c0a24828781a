------------------------------- MODULE MCSem -------------------------------
(* Instances of Sem for TLC. *)
EXTENDS Sem

CONSTANTS main, a, b, idle, semq

MCInitPrio == [t \in Threads |-> CASE t = idle -> NumPreempt [] t = b -> -1
                                   [] OTHER -> 0]

MCNewPrios == {-1, 0}
MCSlices == {<<0, 0>>}
MCSliceTwo == {<<2, 0>>}
=============================================================================
