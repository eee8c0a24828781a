------------------------------- MODULE Stack -------------------------------
(***************************************************************************)
(* A stack object (kernel/stack.c), used as mailbox.c and pipes.c use      *)
(* theirs: as a pool of descriptors.  Whoever popped a word pushes it back *)
(* later, so the array of Cardinality(Items) words never overflows (the    *)
(* code only asserts it).                                                  *)
(***************************************************************************)
EXTENDS Objects

CONSTANT StackWaitQ   \* k_stack.wait_q
ASSUME StackAssumption == StackWaitQ \in WaitQs

VARIABLE stack        \* the words from base up to next

StackInit == stack = <<>>

stackFrame == <<isr, clk, slice, use>>

\* Mutant: the word is handed to the waiter and stored as well.
k_stack_push_twice(inThread, x) ==
    /\ Caller(inThread) /\ x \in held[Self(inThread)]
    /\ held' = [held EXCEPT ![Self(inThread)] = @ \ {x}]
    /\ stack' = Append(stack, x)
    /\ LET t == find_first_thread_to_unpend(k, StackWaitQ) IN
       IF t # NoThread
       THEN /\ k' = switch_unless_isr(wake_waiter(k, t), inThread)
            /\ data' = [data EXCEPT ![t] = x]
       ELSE UNCHANGED <<k, data>>
    /\ UNCHANGED <<stackFrame, call>>

k_stack_push(inThread, x) ==
    /\ Caller(inThread) /\ x \in held[Self(inThread)]
    /\ held' = [held EXCEPT ![Self(inThread)] = @ \ {x}]
    /\ LET t == find_first_thread_to_unpend(k, StackWaitQ) IN
       IF t # NoThread
       THEN /\ k' = switch_unless_isr(wake_waiter(k, t), inThread)
            /\ data' = [data EXCEPT ![t] = x]
            /\ UNCHANGED stack
       ELSE /\ stack' = Append(stack, x)
            /\ UNCHANGED <<k, data>>
    /\ UNCHANGED <<stackFrame, call>>

k_stack_pop(inThread) ==
    /\ Caller(inThread)
    /\ stack # <<>>
    /\ stack' = Front(stack)
    /\ held' = [held EXCEPT ![Self(inThread)] = @ \cup {Last(stack)}]
    /\ UNCHANGED <<k, stackFrame, call, data>>

\* an empty stack; K_NO_WAIT returns -EBUSY
k_stack_pop_wait(timeout) ==
    /\ Caller(TRUE)
    /\ stack = <<>>
    /\ Block(StackWaitQ, timeout, [op |-> "stack_pop"])
    /\ UNCHANGED <<use, held, data, stack>>

\* swap_data is looked at only if the return value says that it counts
k_stack_pop_return ==
    /\ Resumes("stack_pop")
    /\ held' = [held EXCEPT ![k.current] =
                    IF k.rv[k.current] = "0" THEN @ \cup {data[k.current]} ELSE @]
    /\ Returns
    /\ UNCHANGED <<use, stack>>

StackNext ==
    \/ \E inThread \in BOOLEAN :
          k_stack_pop(inThread) \/ \E x \in Items : k_stack_push(inThread, x)
    \/ \E timeout \in Patience[k.current] : k_stack_pop_wait(timeout)
    \/ k_stack_pop_return
    \/ Environment /\ UNCHANGED stack

(***************************************************************************)
(* Properties.                                                             *)
(***************************************************************************)
\* how often x is in the pool, with a holder, or on its way to a waiter
StackPlaces(x) ==
      Cardinality({i \in 1..Len(stack) : stack[i] = x})
    + Cardinality({p \in DOMAIN held : x \in held[p]})
    + Cardinality({t \in Threads : served(t, "stack_pop") /\ data[t] = x})

\* A word pushed is popped exactly once: it is in the array, with the one
\* thread or interrupt that popped it, or in the swap_data of the one waiter
\* it was handed to, whatever timeouts and aborts that waiter meets; and no
\* thread waits for a word while there is one.
StackKeepsWords ==
    use = "stack" =>
        /\ \A x \in Items : StackPlaces(x) = 1
        /\ stack # <<>> => \A t \in Threads : ~eligible(t, "stack_pop")

=============================================================================
