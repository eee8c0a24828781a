------------------------------ MODULE MemSlab ------------------------------
(***************************************************************************)
(* A memory slab (kernel/mem_slab.c): a free list threaded through blocks  *)
(* of equal size.  k_mem_slab_free() switches threads without asking       *)
(* whether it runs in an interrupt, so it is called by threads only;       *)
(* k_mem_slab_alloc() without waiting is called by interrupts too.         *)
(***************************************************************************)
EXTENDS Objects

CONSTANT SlabWaitQ    \* k_mem_slab.wait_q
ASSUME MemSlabAssumption == SlabWaitQ \in WaitQs /\ IsFiniteSet(Items)

VARIABLE slab         \* free_list, first block first, and num_used

\* create_free_list() links the blocks in some order
MemSlabInit == \E list \in SetToSeqs(Items) : slab = [free |-> list, num_used |-> 0]

slabFrame == <<isr, clk, slice, use>>

\* Mutant: the head of the list is given away and kept.
k_mem_slab_alloc_kept(inThread) ==
    /\ Caller(inThread)
    /\ slab.free # <<>>
    /\ slab' = [slab EXCEPT !.num_used = @ + 1]
    /\ held' = [held EXCEPT ![Self(inThread)] = @ \cup {Head(slab.free)}]
    /\ UNCHANGED <<k, slabFrame, call, data>>

k_mem_slab_alloc(inThread) ==
    /\ Caller(inThread)
    /\ slab.free # <<>>
    /\ slab' = [free |-> Tail(slab.free), num_used |-> slab.num_used + 1]
    /\ held' = [held EXCEPT ![Self(inThread)] = @ \cup {Head(slab.free)}]
    /\ UNCHANGED <<k, slabFrame, call, data>>

\* an empty list; K_NO_WAIT returns -ENOMEM
k_mem_slab_alloc_wait(timeout) ==
    /\ Caller(TRUE)
    /\ slab.free = <<>>
    /\ Block(SlabWaitQ, timeout, [op |-> "slab_alloc"])
    /\ UNCHANGED <<use, held, data, slab>>

k_mem_slab_alloc_return ==
    /\ Resumes("slab_alloc")
    /\ held' = [held EXCEPT ![k.current] =
                    IF k.rv[k.current] = "0" THEN @ \cup {data[k.current]} ELSE @]
    /\ Returns
    /\ UNCHANGED <<use, slab>>

\* To the first waiter, or back to the head of the list.
k_mem_slab_free(x) ==
    /\ Caller(TRUE) /\ x \in held[k.current]
    /\ held' = [held EXCEPT ![k.current] = @ \ {x}]
    /\ LET t == find_first_thread_to_unpend(k, SlabWaitQ) IN
       IF t # NoThread
       THEN /\ k' = reschedule_threads(wake_waiter(k, t))
            /\ data' = [data EXCEPT ![t] = x]
            /\ UNCHANGED slab
       ELSE /\ slab' = [free |-> <<x>> \o slab.free, num_used |-> slab.num_used - 1]
            /\ UNCHANGED <<k, data>>
    /\ UNCHANGED <<slabFrame, call>>

\* an interrupt hands its block to a thread to free it
PassBlock(x) ==
    /\ Active("dev") /\ x \in held[Isr]
    /\ \E t \in Apps : held' = [held EXCEPT ![Isr] = @ \ {x}, ![t] = @ \cup {x}]
    /\ UNCHANGED <<k, slabFrame, call, data, slab>>

MemSlabNext ==
    \/ \E inThread \in BOOLEAN : k_mem_slab_alloc(inThread)
    \/ \E timeout \in Patience[k.current] : k_mem_slab_alloc_wait(timeout)
    \/ \E x \in Items : k_mem_slab_free(x) \/ PassBlock(x)
    \/ k_mem_slab_alloc_return
    \/ Environment /\ UNCHANGED slab

(***************************************************************************)
(* Properties.                                                             *)
(***************************************************************************)
SlabUsers(x) ==
      Cardinality({p \in DOMAIN held : x \in held[p]})
    + Cardinality({t \in Threads : served(t, "slab_alloc") /\ data[t] = x})

\* A block has one user or is in the free list, never both, though it may
\* pass from the thread that frees it to one that waits without ever being
\* free; num_used counts the blocks in use, k_mem_slab_num_free_get() relies
\* on it; and no thread waits for a block while there is one.
SlabBlocksOwned ==
    use = "slab" =>
        /\ IsInjective(slab.free)
        /\ \A x \in Items : SlabUsers(x) = (IF Contains(slab.free, x) THEN 0 ELSE 1)
        /\ slab.num_used = Cardinality(Items) - Len(slab.free)
        /\ slab.free # <<>> => \A t \in Threads : ~eligible(t, "slab_alloc")

=============================================================================
