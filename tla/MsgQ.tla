-------------------------------- MODULE MsgQ --------------------------------
(***************************************************************************)
(* A message queue (kernel/msg_q.c): a ring buffer of MaxMsgs messages and *)
(* one wait queue, on which readers wait while it is empty and writers     *)
(* while it is full.                                                       *)
(***************************************************************************)
EXTENDS Objects

CONSTANTS
    MaxMsgs,    \* k_msgq.max_msgs
    MsgQWaitQ   \* k_msgq.wait_q

ASSUME MsgQAssumption == MaxMsgs \in Nat \ {0} /\ MsgQWaitQ \in WaitQs

VARIABLE msgq   \* buffer, read_ptr, write_ptr (as indices) and used_msgs

MsgQInit ==
    msgq = [buffer |-> [i \in 0..(MaxMsgs - 1) |-> Nil],
            read |-> 0, write |-> 0, used |-> 0]

\* Mutant: wraps one slot late.
next_slot_late(i) == IF i = MaxMsgs THEN 0 ELSE i + 1

next_slot(i) == IF i + 1 = MaxMsgs THEN 0 ELSE i + 1

write_msg(q, m) == [q EXCEPT !.buffer[q.write] = m,
                             !.write = next_slot(@), !.used = @ + 1]

\* what is left in a slot that was read is dead
read_msg(q) == [q EXCEPT !.buffer[q.read] = Nil,
                         !.read = next_slot(@), !.used = @ - 1]

msgqFrame == <<isr, clk, slice, use, held>>

\* k_msgq_put() with room in the buffer: to the first reader, or stored
k_msgq_put(inThread, m) ==
    /\ Caller(inThread)
    /\ msgq.used < MaxMsgs
    /\ LET t == find_first_thread_to_unpend(k, MsgQWaitQ) IN
       IF t # NoThread
       THEN /\ data' = [data EXCEPT ![t] = m]
            /\ k' = switch_unless_isr(wake_waiter(k, t), inThread)
            /\ UNCHANGED msgq
       ELSE /\ msgq' = write_msg(msgq, m)
            /\ UNCHANGED <<k, data>>
    /\ UNCHANGED <<msgqFrame, call>>

\* k_msgq_put() with a full buffer; K_NO_WAIT returns -ENOMSG
k_msgq_put_wait(m, timeout) ==
    /\ Caller(TRUE)
    /\ msgq.used = MaxMsgs
    /\ Block(MsgQWaitQ, timeout, [op |-> "msgq_put"])
    /\ data' = [data EXCEPT ![k.current] = m]
    /\ UNCHANGED <<use, held, msgq>>

\* Mutant: the space is not given to the first waiting writer.
k_msgq_get_no_refill(inThread) ==
    /\ Caller(inThread)
    /\ msgq.used > 0
    /\ msgq' = read_msg(msgq)
    /\ UNCHANGED <<k, msgqFrame, call, data>>

\* k_msgq_get() of the first message; the space goes to the first writer
k_msgq_get(inThread) ==
    /\ Caller(inThread)
    /\ msgq.used > 0
    /\ LET t == find_first_thread_to_unpend(k, MsgQWaitQ)
           q == read_msg(msgq)
       IN IF t # NoThread
          THEN /\ msgq' = write_msg(q, data[t])
               /\ k' = switch_unless_isr(wake_waiter(k, t), inThread)
          ELSE msgq' = q /\ k' = k
    /\ UNCHANGED <<msgqFrame, call, data>>

\* k_msgq_get() of an empty buffer; K_NO_WAIT returns -ENOMSG
k_msgq_get_wait(timeout) ==
    /\ Caller(TRUE)
    /\ msgq.used = 0
    /\ Block(MsgQWaitQ, timeout, [op |-> "msgq_get"])
    /\ UNCHANGED <<use, held, data, msgq>>

k_msgq_return ==
    /\ Resumes("msgq_put") \/ Resumes("msgq_get")
    /\ Returns
    /\ UNCHANGED <<use, held, msgq>>

\* all waiters leave with -ENOMSG, in the order of the wait queue
purge_waiter(kk, t) == [wake_waiter(kk, t) EXCEPT !.rv[t] = "ENOMSG"]
wake_purged(kk) ==
    LET list == kk.wq[MsgQWaitQ]
        woken[i \in 0..Len(list)] ==
            IF i = 0 THEN kk ELSE purge_waiter(woken[i - 1], list[i])
    IN woken[Len(list)]

\* Mutant: the read pointer is left alone.
k_msgq_purge_stale ==
    /\ Caller(TRUE)
    /\ Call(reschedule_threads(wake_purged(k)))
    /\ msgq' = [msgq EXCEPT !.used = 0, !.buffer = [i \in DOMAIN @ |-> Nil]]
    /\ UNCHANGED <<use, held, call, data>>

\* Thread level only: no waiter is EXPIRED, so none is skipped.
k_msgq_purge ==
    /\ Caller(TRUE)
    /\ Call(reschedule_threads(wake_purged(k)))
    /\ msgq' = [msgq EXCEPT !.used = 0, !.read = msgq.write,
                            !.buffer = [i \in DOMAIN @ |-> Nil]]
    /\ UNCHANGED <<use, held, call, data>>

MsgQNext ==
    \/ \E inThread \in BOOLEAN :
          k_msgq_get(inThread) \/ \E m \in Items : k_msgq_put(inThread, m)
    \/ \E timeout \in Patience[k.current] :
          k_msgq_get_wait(timeout) \/ \E m \in Items : k_msgq_put_wait(m, timeout)
    \/ k_msgq_return \/ k_msgq_purge
    \/ Environment /\ UNCHANGED msgq

(***************************************************************************)
(* Properties.                                                             *)
(***************************************************************************)
\* The one wait queue is unambiguous, which msg_q.c takes for granted: a put
\* that finds room hands its message to the first waiter without asking
\* whether it is a reader, and a get copies from the first one as a writer.
\* Except for waiters that have already timed out, readers wait only while
\* the buffer is empty and writers only while it is full.
WaitersMatchBuffer ==
    \A t \in Threads :
        /\ eligible(t, "msgq_get") => msgq.used = 0
        /\ eligible(t, "msgq_put") => msgq.used = MaxMsgs

\* Refinement: the buffer as a sequence; a waiter gives up at the instant the
\* clock interrupt marks its timeout expired.
bufMap == [i \in 1..msgq.used |-> msgq.buffer[(msgq.read + i - 1) % MaxMsgs]]
readersMap == {t \in Threads : eligible(t, "msgq_get")}
writersMap == {<<t, data[t]>> : t \in {u \in Threads : eligible(u, "msgq_put")}}
deliveredMap == {<<t, data[t]>> : t \in {u \in Threads : served(u, "msgq_get")}}

AbsMsgQ == INSTANCE AbsMsgQ WITH
    Procs <- Threads, buf <- bufMap, readers <- readersMap,
    writers <- writersMap, delivered <- deliveredMap

\* The ring buffer, the shared wait queue and swap_data implement a bounded
\* FIFO: nothing is lost, doubled or overtaken, however puts and gets of
\* threads and interrupts, timeouts, aborts and purges interleave.
MsgQRefines == AbsMsgQ!Spec

=============================================================================
