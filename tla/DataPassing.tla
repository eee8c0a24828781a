---------------------------- MODULE DataPassing ----------------------------
(***************************************************************************)
(* The objects that pass items, data and memory between threads and        *)
(* interrupts, each on the same scheduler, clock and interrupts.           *)
(***************************************************************************)
EXTENDS MsgQ, Stack, MemSlab, MemPool, Mailbox, Pipe

CONSTANT Uses   \* the objects that are exercised
ASSUME UsesAssumption ==
    Uses \subseteq {"msgq", "stack", "slab", "pool", "mbox", "pipe"}

vars == <<schedVars, objVars, msgq, stack, slab, pool, syncing, pipe>>

\* The words of the stack are with the interrupt at first, which adds them
\* one by one as init_mbox_module() and init_pipes_module() do.
Init ==
    /\ ObjectsInit /\ MsgQInit /\ StackInit /\ MemSlabInit
    /\ MemPoolInit /\ MailboxInit /\ PipeInit
    /\ use \in Uses
    /\ call = [t \in Threads |-> NoCall]
    /\ held = [p \in Threads \cup {Isr} |->
                  IF use = "stack" /\ p = Isr THEN Items ELSE {}]

Next ==
    \/ /\ use = "msgq" /\ MsgQNext
       /\ UNCHANGED <<stack, slab, pool, syncing, pipe>>
    \/ /\ use = "stack" /\ StackNext
       /\ UNCHANGED <<msgq, slab, pool, syncing, pipe>>
    \/ /\ use = "slab" /\ MemSlabNext
       /\ UNCHANGED <<msgq, stack, pool, syncing, pipe>>
    \/ /\ use = "pool" /\ MemPoolNext
       /\ UNCHANGED <<msgq, stack, slab, syncing, pipe>>
    \/ /\ use = "mbox" /\ MailboxNext
       /\ UNCHANGED <<msgq, stack, slab, pool, pipe>>
    \/ /\ use = "pipe" /\ PipeNext
       /\ UNCHANGED <<msgq, stack, slab, pool, syncing>>

Spec == Init /\ [][Next]_vars

(***************************************************************************)
(* Properties.                                                             *)
(***************************************************************************)
\* Indices stay in their buffers and counters in their range.
DataTypeOK ==
    /\ TypeOK
    /\ data \in [Threads -> Items \cup {Nil}]
    /\ held \in [Threads \cup {Isr} -> SUBSET Items]
    /\ msgq \in [buffer : [0..(MaxMsgs - 1) -> Items \cup {Nil}],
                 read : 0..(MaxMsgs - 1), write : 0..(MaxMsgs - 1),
                 used : 0..MaxMsgs]
    /\ stack \in Seq(Items)
    /\ slab \in [free : Seq(Items), num_used : 0..Cardinality(Items)]
    /\ pool \in [list : [Levels -> SUBSET Nat], bits : SUBSET Blocks,
                 owned : SUBSET Blocks]
    /\ syncing \in [Threads -> Threads \cup {NoThread}]
    /\ pipe.read \in 0..(PipeSize - 1) /\ pipe.write \in 0..(PipeSize - 1)
    /\ pipe.used \in 0..PipeSize
    /\ pipe.left \in [Threads -> Nat]

=============================================================================
