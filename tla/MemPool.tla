------------------------------ MODULE MemPool ------------------------------
(***************************************************************************)
(* A memory pool (kernel/mempool.c): a buddy allocator that splits blocks  *)
(* in four.  Allocating and freeing take the lock for one block at a time: *)
(* the search for a level, the removal of a block, each split, the         *)
(* decision to wait and each merge are steps of their own.  The interrupt, *)
(* which no thread preempts, allocates and frees in one step.              *)
(*                                                                         *)
(* The largest block size is the smallest times a power of 4, so that      *)
(* every block fits in the buffer.  A free list is the set of its blocks:  *)
(* an allocation takes the one that has been free longest, here any.       *)
(***************************************************************************)
EXTENDS Objects

CONSTANTS
    NumMax,      \* k_mem_pool.n_max: number of largest blocks
    NumLevels,   \* k_mem_pool.n_levels
    PoolWaitQ,   \* k_mem_pool.wait_q
    PoolLevels,  \* the levels each thread, and the interrupt, asks for
    MaxBlocks    \* bound: blocks that users have or calls are taking

Levels == 0..(NumLevels - 1)
TooLarge == -1   \* the "level" of a request larger than the largest block

ASSUME MemPoolAssumption ==
    /\ NumMax \in Nat \ {0} /\ NumLevels \in Nat \ {0} /\ PoolWaitQ \in WaitQs
    /\ PoolLevels \in [Threads \cup {Isr} -> SUBSET (Levels \cup {TooLarge})]
    /\ MaxBlocks \in Nat \ {0}

Blocks == UNION {{<<l, bn>> : bn \in 0..(NumMax * 4^l - 1)} : l \in Levels}

VARIABLE pool   \* list: free_list of each level; bits: the blocks whose free
                \* bit is set; owned: the blocks users have

MemPoolInit ==
    pool = [list  |-> [l \in Levels |-> IF l = 0 THEN 0..(NumMax - 1) ELSE {}],
            bits  |-> {<<0, bn>> : bn \in 0..(NumMax - 1)},
            owned |-> {}]

poolFrame == <<use, data, held>>
Continue(c) == call' = [call EXCEPT ![k.current] = c]

(***************************************************************************)
(* The store.                                                              *)
(***************************************************************************)
take_block(p, l, bn) ==
    [p EXCEPT !.list[l] = @ \ {bn}, !.bits = @ \ {<<l, bn>>}]

\* three of the four parts become free
break_block(p, l, bn) ==
    [p EXCEPT !.list[l + 1] = @ \cup {4 * bn + i : i \in 1..3},
              !.bits = @ \cup {<<l + 1, 4 * bn + i>> : i \in 1..3}]

\* break_block() from level from down to level to
break_all(p, from, bn, to) ==
    FoldLeft(LAMBDA s, l : [p |-> break_block(s.p, l, s.bn), bn |-> 4 * s.bn],
             [p |-> p, bn |-> bn], [i \in 1..(to - from) |-> from + i - 1])

partners(l, bn) == {<<l, 4 * (bn \div 4) + i>> : i \in 0..3}
merges(p, l, bn) == l > 0 /\ partners(l, bn) \subseteq p.bits \cup {<<l, bn>>}

\* Mutant: the partners stay on the free list.
free_block_linked(p, l, bn) ==
    IF merges(p, l, bn)
    THEN [p EXCEPT !.bits = @ \ partners(l, bn)]
    ELSE [p EXCEPT !.bits = @ \cup {<<l, bn>>}, !.list[l] = @ \cup {bn}]

\* one level of free_block(): the block becomes free, or it and its partners
\* disappear and the block they are parts of is to be freed next
free_block(p, l, bn) ==
    IF merges(p, l, bn)
    THEN [p EXCEPT !.bits = @ \ partners(l, bn),
                   !.list[l] = {b \in @ : <<l, b>> \notin partners(l, bn)}]
    ELSE [p EXCEPT !.bits = @ \cup {<<l, bn>>}, !.list[l] = @ \cup {bn}]

\* free_block() with its recursion; a level below 0 means it has ended
free_block_step(s, i) ==
    IF s.l < 0 THEN s
    ELSE [p  |-> free_block(s.p, s.l, s.bn),
          l  |-> IF merges(s.p, s.l, s.bn) THEN s.l - 1 ELSE -1,
          bn |-> s.bn \div 4]

free_all(p, l, bn) ==
    FoldLeft(free_block_step, [p |-> p, l |-> l, bn |-> bn], [i \in 1..NumLevels |-> i]).p

(***************************************************************************)
(* k_mem_pool_alloc() of a block of level l.  The search looks at one      *)
(* level after the other with interrupts enabled; for a request that is    *)
(* too large it looks at none and finds nothing.                           *)
(***************************************************************************)
Outstanding ==
    Cardinality(pool.owned)
    + Cardinality({t \in Threads :
                     call[t].op \in {"pool_search", "pool_break"}})

Searching(l, timeout) ==
    [op |-> "pool_search", l |-> l, i |-> 0, free |-> -1, timeout |-> timeout]

k_mem_pool_alloc(l, timeout) ==
    /\ Caller(TRUE) /\ Outstanding < MaxBlocks
    /\ Continue(Searching(l, timeout))
    /\ UNCHANGED <<schedVars, poolFrame, pool>>

pool_search ==
    /\ Resumes("pool_search")
    /\ LET c == call[k.current] IN
       /\ c.i <= c.l
       /\ Continue([c EXCEPT !.i = @ + 1, !.free = IF pool.list[c.i] = {} THEN @ ELSE c.i])
    /\ UNCHANGED <<schedVars, poolFrame, pool>>

\* alloc_block(); -EAGAIN, should the level be empty by now, ends the call
alloc_block ==
    /\ Resumes("pool_search")
    /\ LET c == call[k.current] IN
       /\ c.i > c.l /\ c.free >= 0
       /\ \/ /\ pool.list[c.free] = {}
             /\ Continue(NoCall) /\ UNCHANGED pool
          \/ \E bn \in pool.list[c.free] :
             /\ pool' = take_block(pool, c.free, bn)
             /\ Continue([op |-> "pool_break", l |-> c.l, at |-> c.free, bn |-> bn])
    /\ UNCHANGED <<schedVars, poolFrame>>

pool_break ==
    /\ Resumes("pool_break")
    /\ LET c == call[k.current] IN
       IF c.at < c.l
       THEN /\ pool' = break_block(pool, c.at, c.bn)
            /\ Continue([c EXCEPT !.at = @ + 1, !.bn = 4 * @])
       ELSE /\ pool' = [pool EXCEPT !.owned = @ \cup {<<c.l, c.bn>>}]
            /\ Continue(NoCall)
    /\ UNCHANGED <<schedVars, poolFrame>>

\* -ENOMEM: returned with K_NO_WAIT, otherwise the thread waits
pool_wait ==
    /\ Resumes("pool_search")
    /\ LET c == call[k.current] IN
       /\ c.i > c.l /\ c.free < 0
       /\ IF c.timeout = "NO_WAIT"
          THEN Continue(NoCall) /\ UNCHANGED schedVars
          ELSE Block(PoolWaitQ, c.timeout,
                     [op |-> "pool_wait", l |-> c.l, timeout |-> c.timeout])
    /\ UNCHANGED <<poolFrame, pool>>

\* Woken or timed out the thread tries again with the time it has left, which
\* may be none (K_NO_WAIT), or less: then it returns.
pool_retry ==
    /\ Resumes("pool_wait")
    /\ LET c == call[k.current] IN
       \/ Continue(Searching(c.l, c.timeout))
       \/ c.timeout # "FOREVER" /\ Continue(Searching(c.l, "NO_WAIT"))
       \/ c.timeout # "FOREVER" /\ Continue(NoCall)
    /\ UNCHANGED <<schedVars, poolFrame, pool>>

\* all of pool_alloc() with K_NO_WAIT; when it fails nothing changes
isr_k_mem_pool_alloc(l) ==
    /\ Caller(FALSE) /\ Outstanding < MaxBlocks
    /\ \E from \in 0..l :
          /\ \A i \in (from + 1)..l : pool.list[i] = {}
          /\ \E bn \in pool.list[from] :
                LET s == break_all(take_block(pool, from, bn), from, bn, l)
                IN pool' = [s.p EXCEPT !.owned = @ \cup {<<l, s.bn>>}]
    /\ UNCHANGED <<schedVars, call, poolFrame>>

(***************************************************************************)
(* k_mem_pool_free()                                                       *)
(***************************************************************************)
\* every waiter is made ready
wake_all(kk) ==
    FoldLeft(LAMBDA r, t : ready_thread(abort_thread_timeout(unpend_thread(r, t), t), t),
             kk, kk.wq[PoolWaitQ])

k_mem_pool_free(b) ==
    /\ Caller(TRUE) /\ b \in pool.owned
    /\ pool' = [pool EXCEPT !.owned = @ \ {b}]
    /\ Continue([op |-> "pool_free", l |-> b[1], bn |-> b[2]])
    /\ UNCHANGED <<schedVars, poolFrame>>

pool_free ==
    /\ Resumes("pool_free")
    /\ LET c == call[k.current] IN
       /\ pool' = free_block(pool, c.l, c.bn)
       /\ Continue(IF merges(pool, c.l, c.bn)
                   THEN [c EXCEPT !.l = @ - 1, !.bn = @ \div 4]
                   ELSE [op |-> "pool_wake"])
    /\ UNCHANGED <<schedVars, poolFrame>>

\* reschedules only if it woke someone
pool_wake ==
    /\ Resumes("pool_wake")
    /\ Call(IF k.wq[PoolWaitQ] = <<>> THEN k ELSE reschedule_threads(wake_all(k)))
    /\ Continue(NoCall)
    /\ UNCHANGED <<poolFrame, pool>>

\* A free that would stop a timeout which has expired and is not handled yet is
\* left out: _abort_timeout() corrupts the list of expired ones (see README).
isr_k_mem_pool_free(b) ==
    /\ Caller(FALSE) /\ b \in pool.owned
    /\ \A t \in ToSet(k.wq[PoolWaitQ]) : k.to[t] # "EXPIRED"
    /\ pool' = free_all([pool EXCEPT !.owned = @ \ {b}], b[1], b[2])
    /\ k' = wake_all(k)
    /\ UNCHANGED <<isr, clk, slice, call, poolFrame>>

MemPoolNext ==
    \/ \E l \in PoolLevels[k.current], timeout \in Patience[k.current] :
          k_mem_pool_alloc(l, timeout)
    \/ \E l \in PoolLevels[Isr] : isr_k_mem_pool_alloc(l)
    \/ pool_search \/ alloc_block \/ pool_break \/ pool_wait \/ pool_retry
    \/ \E b \in pool.owned : k_mem_pool_free(b) \/ isr_k_mem_pool_free(b)
    \/ pool_free \/ pool_wake
    \/ Interrupts /\ UNCHANGED pool

(***************************************************************************)
(* Properties.                                                             *)
(***************************************************************************)
\* the blocks, one of each level, that the smallest block number u is in
Around(u) == {<<l, u \div 4^(NumLevels - 1 - l)>> : l \in Levels}

FreeBlocks == UNION {{<<l, bn>> : bn \in pool.list[l]} : l \in Levels}

\* the blocks that calls in progress hold, one per call
Carried(t) ==
    CASE call[t].op = "pool_break" -> {<<call[t].at, call[t].bn>>}
      [] call[t].op = "pool_free"  -> {<<call[t].l, call[t].bn>>}
      [] OTHER -> {}

\* Every byte of the pool is in exactly one block, free, owned by a user or
\* in the hands of a call, whatever splits and merges interleave, also when
\* others allocate and free between two levels of a merge; the bits and the
\* lists agree, and no four free partners are left unmerged.
PoolPartitioned ==
    use = "pool" =>
      /\ pool.bits = FreeBlocks
      /\ \A u \in 0..(NumMax * 4^(NumLevels - 1) - 1) :
            Cardinality(Around(u) \cap pool.bits)
            + Cardinality(Around(u) \cap pool.owned)
            + Cardinality({t \in Threads : Carried(t) \cap Around(u) # {}}) = 1
      /\ \A b \in pool.bits : b[1] > 0 => ~(partners(b[1], b[2]) \subseteq pool.bits)

=============================================================================
