------------------------------- MODULE MCData -------------------------------
(* Instances of DataPassing for TLC. *)
EXTENDS DataPassing

CONSTANTS main, a, b, idle, x1, x2, msgq_w, stack_w, slab_w,
          pool_w, tx_w, rx_w, read_w, write_w

MCInitPrio == [t \in Threads |-> CASE t = idle -> NumPreempt [] t = b -> -1
                                   [] OTHER -> 0]

MCPatience == [t \in Threads |-> IF t = a THEN {"TIMED"} ELSE {"FOREVER"}]
MCPoolLevels == [t \in Threads \cup {Isr} |->
                    CASE t = main -> {0, 2} [] t = a -> {2, TooLarge}
                      [] t = b -> {0} [] t = Isr -> {2} [] OTHER -> {}]
ItemSymmetry == Permutations(Items)
MCSlices == {<<0, 0>>}
=============================================================================
