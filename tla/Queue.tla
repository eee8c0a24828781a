------------------------------- MODULE Queue -------------------------------
(***************************************************************************)
(* k_queue, the object behind fifos and lifos (kernel/queue.c on           *)
(* include/misc/slist.h; CONFIG_POLL off): a singly linked list threaded   *)
(* through the items, and a wait queue.  k_queue_append() reads the tail   *)
(* before k_queue_insert() locks interrupts, so an append of a thread is   *)
(* two steps.                                                              *)
(***************************************************************************)
EXTENDS Objects

CONSTANTS
    QueueWaitQ,   \* k_queue.wait_q
    Appenders,    \* the threads that put items into the queue
    IsrGets       \* whether interrupts take items out, without waiting

ASSUME QueueAssumption ==
    QueueWaitQ \in WaitQs /\ Appenders \subseteq Apps /\ IsrGets \in BOOLEAN

VARIABLE data_q   \* the list: head, tail and each item's next pointer

EmptyList == [head |-> Nil, tail |-> Nil, next |-> [x \in Items |-> Nil]]
QueueInit == data_q = EmptyList

(***************************************************************************)
(* The list.                                                               *)
(***************************************************************************)
slist_prepend(l, x) ==
    [l EXCEPT !.next[x] = l.head, !.head = x, !.tail = IF @ = Nil THEN x ELSE @]

\* the chain from first to last becomes the end of the list
slist_append_list(l, first, last) ==
    IF l.tail = Nil
    THEN [l EXCEPT !.head = first, !.tail = last]
    ELSE [l EXCEPT !.next[l.tail] = first, !.tail = last]

slist_append(l, x) == slist_append_list([l EXCEPT !.next[x] = Nil], x, x)

\* Mutant: the link of the predecessor is overwritten.
slist_insert_cut(l, prev, x) ==
    IF prev = Nil THEN slist_prepend(l, x)
    ELSE IF l.next[prev] = Nil THEN slist_append(l, x)
    ELSE [l EXCEPT !.next[x] = Nil, !.next[prev] = x]

slist_insert(l, prev, x) ==
    IF prev = Nil THEN slist_prepend(l, x)
    ELSE IF l.next[prev] = Nil THEN slist_append(l, x)
    ELSE [l EXCEPT !.next[x] = l.next[prev], !.next[prev] = x]

\* The item taken keeps its next pointer.
slist_get_not_empty(l) ==
    LET x == l.head IN
    [l EXCEPT !.head = l.next[x], !.tail = IF @ = x THEN l.next[x] ELSE @]

\* node n of the chain from the head, counted from 0
slist_node(l) ==
    LET walk[n \in Nat] == IF n = 0 THEN l.head
                           ELSE IF walk[n - 1] = Nil THEN Nil
                           ELSE l.next[walk[n - 1]]
    IN walk

slist_nodes(l) == {slist_node(l)[n] : n \in 0..Cardinality(Items)} \ {Nil}

\* sys_slist_find_and_remove() of an item that is in the list
slist_remove(l, x) ==
    IF l.head = x
    THEN [slist_get_not_empty(l) EXCEPT !.next[x] = Nil]
    ELSE LET prev == CHOOSE y \in slist_nodes(l) : l.next[y] = x
         IN [l EXCEPT !.next = [@ EXCEPT ![prev] = l.next[x], ![x] = Nil],
                      !.tail = IF @ = x THEN prev ELSE @]

\* what the code relies on: the tail is the last node of the chain
slist_ok(l) ==
    LET nodes == slist_nodes(l) IN
    /\ slist_node(l)[Cardinality(Items)] = Nil
    /\ IF nodes = {} THEN l.tail = Nil
       ELSE l.tail \in nodes /\ l.next[l.tail] = Nil

(***************************************************************************)
(* The queue.                                                              *)
(***************************************************************************)
\* k_queue_insert() on kernel record kk and list l: to the first waiter, or
\* into the list
queue_insert(kk, l, prev, x, inThread) ==
    LET t == find_first_thread_to_unpend(kk, QueueWaitQ) IN
    IF t # NoThread
    THEN /\ k' = switch_unless_isr(wake_waiter(kk, t), inThread)
         /\ data' = [data EXCEPT ![t] = x]
         /\ data_q' = l
    ELSE /\ k' = kk
         /\ data_q' = slist_insert(l, prev, x)
         /\ UNCHANGED data

\* k_queue_append() up to the lock; after is what the thread does next
append_read(x, after) ==
    call' = [call EXCEPT ![k.current] = [op |-> "append", x |-> x,
                                         prev |-> data_q.tail, after |-> after]]

\* who puts items in
Producer(inThread) == Caller(inThread) /\ (inThread => k.current \in Appenders)

k_queue_append(x) ==
    /\ Producer(TRUE) /\ x \in held[k.current]
    /\ append_read(x, NoCall)
    /\ held' = [held EXCEPT ![k.current] = @ \ {x}]
    /\ UNCHANGED <<schedVars, use, data, data_q>>

append_insert ==
    /\ Resumes("append")
    /\ LET c == call[k.current] IN
       /\ queue_insert(k, data_q, c.prev, c.x, TRUE)
       /\ call' = [call EXCEPT ![k.current] = c.after]
    /\ UNCHANGED <<isr, clk, slice, use, held>>

\* An interrupt's append is one step: no thread runs between its two halves.
isr_k_queue_append(x) ==
    /\ Caller(FALSE) /\ x \in held[Isr]
    /\ queue_insert(k, data_q, data_q.tail, x, FALSE)
    /\ held' = [held EXCEPT ![Isr] = @ \ {x}]
    /\ UNCHANGED <<isr, clk, slice, use, call>>

k_queue_prepend(inThread, x) ==
    /\ Producer(inThread) /\ x \in held[Self(inThread)]
    /\ queue_insert(k, data_q, Nil, x, inThread)
    /\ held' = [held EXCEPT ![Self(inThread)] = @ \ {x}]
    /\ UNCHANGED <<isr, clk, slice, use, call>>

\* k_queue_append_list() of the chain x, y: waiters take from its front.
\* k_queue_merge_slist() is the same call.
k_queue_append_list(inThread, x, y) ==
    /\ Producer(inThread) /\ {x, y} \subseteq held[Self(inThread)] /\ x # y
    /\ LET l  == [data_q EXCEPT !.next[x] = y, !.next[y] = Nil]
           t1 == find_first_thread_to_unpend(k, QueueWaitQ)
           k1 == wake_waiter(k, t1)
           t2 == find_first_thread_to_unpend(k1, QueueWaitQ)
           k2 == wake_waiter(k1, t2)
       IN \/ /\ t1 = NoThread
             /\ data_q' = slist_append_list(l, x, y)
             /\ UNCHANGED <<k, data>>
          \/ /\ t1 # NoThread /\ t2 = NoThread
             /\ data_q' = slist_append_list(l, y, y)
             /\ data' = [data EXCEPT ![t1] = x]
             /\ k' = switch_unless_isr(k1, inThread)
          \/ /\ t1 # NoThread /\ t2 # NoThread
             /\ data_q' = l
             /\ data' = [data EXCEPT ![t1] = x, ![t2] = y]
             /\ k' = switch_unless_isr(k2, inThread)
    /\ held' = [held EXCEPT ![Self(inThread)] = @ \ {x, y}]
    /\ UNCHANGED <<isr, clk, slice, use, call>>

k_queue_get(inThread) ==
    /\ Caller(inThread)
    /\ inThread \/ IsrGets
    /\ data_q.head # Nil
    /\ data_q' = slist_get_not_empty(data_q)
    /\ held' = [held EXCEPT ![Self(inThread)] = @ \cup {data_q.head}]
    /\ UNCHANGED <<schedVars, use, call, data>>

\* an empty list; K_NO_WAIT returns NULL
k_queue_get_wait(timeout) ==
    /\ Caller(TRUE)
    /\ data_q.head = Nil
    /\ Block(QueueWaitQ, timeout, [op |-> "queue_get"])
    /\ UNCHANGED <<use, held, data, data_q>>

\* NULL after a timeout, and after a cancelled wait
k_queue_get_return ==
    /\ Resumes("queue_get")
    /\ LET got == IF k.rv[k.current] = "0" THEN {data[k.current]} \ {Nil} ELSE {}
       IN held' = [held EXCEPT ![k.current] = @ \cup got]
    /\ Returns
    /\ UNCHANGED <<use, data_q>>

\* the first waiter gets NULL
k_queue_cancel_wait(inThread) ==
    /\ Caller(inThread)
    /\ LET t == find_first_thread_to_unpend(k, QueueWaitQ) IN
       /\ t # NoThread
       /\ k' = switch_unless_isr(wake_waiter(k, t), inThread)
       /\ data' = [data EXCEPT ![t] = Nil]
    /\ UNCHANGED <<isr, clk, slice, use, call, held, data_q>>

QueueNext ==
    \/ \E x \in Items : k_queue_append(x) \/ isr_k_queue_append(x)
    \/ append_insert
    \/ \E inThread \in BOOLEAN :
          \/ k_queue_get(inThread) \/ k_queue_cancel_wait(inThread)
          \/ \E x \in Items :
                \/ k_queue_prepend(inThread, x)
                \/ \E y \in Items : k_queue_append_list(inThread, x, y)
    \/ k_queue_get_return
    \/ \E timeout \in Patience[k.current] : k_queue_get_wait(timeout)
    \/ Interrupts /\ UNCHANGED data_q

(***************************************************************************)
(* Properties.                                                             *)
(***************************************************************************)
\* where x is: linked, held, handed to a waiter, or being appended
QueuePlaces(x) ==
      (IF x \in slist_nodes(data_q) THEN 1 ELSE 0)
    + Cardinality({p \in DOMAIN held : x \in held[p]})
    + Cardinality({t \in Threads : \/ served(t, "queue_get") /\ data[t] = x
                                   \/ call[t].op = "append" /\ call[t].x = x})

\* Every item is in one place and no thread waits for one that is linked.
ItemsKept ==
    /\ \A x \in Items : QueuePlaces(x) = 1
    /\ data_q.head # Nil => \A t \in Threads : ~eligible(t, "queue_get")

\* An item is in one place, the list is well formed and no thread waits for
\* an item that is in it, though appends take two steps, interrupts insert in
\* between, and waiters time out.  It rests on nobody getting an item between
\* the two steps: appenders that no other thread preempts, and interrupts
\* that only put items in.
QueueKeepsItems == use = "queue" => ItemsKept /\ slist_ok(data_q)

\* "The item is given directly to a waiting thread, if one exists; otherwise
\* the item is added to the fifo's queue" (fifos.rst), whoever appends and
\* gets: an appended item does not disappear.
FifoKeepsItems == use = "queue" => ItemsKept

=============================================================================
