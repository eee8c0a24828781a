------------------------------ MODULE Mailbox ------------------------------
(***************************************************************************)
(* A mailbox (kernel/mailbox.c), synchronous sends.  A sender waits in     *)
(* tx_msg_queue until a receiver that matches takes its message, and then, *)
(* off every queue, until the receiver has disposed of the message: its    *)
(* data are in the sender's memory.                                        *)
(***************************************************************************)
EXTENDS Objects

CONSTANTS TxWaitQ, RxWaitQ, K_ANY
ASSUME MailboxAssumption ==
    TxWaitQ \in WaitQs /\ RxWaitQ \in WaitQs /\ TxWaitQ # RxWaitQ /\ K_ANY \notin Threads

VARIABLE syncing   \* per thread: rx_msg._syncing_thread of the message it has
                   \* received and not disposed of

MailboxInit == syncing = [t \in Threads |-> NoThread]

mboxFrame == <<use, data, held>>

\* _mbox_message_match(): sender s to target, receiver r from source
matches(s, target, r, source) ==
    target \in {K_ANY, r} /\ source \in {K_ANY, s}

\* the first of the threads S in wait queue w
first_match(w, S) ==
    LET hits == {i \in 1..Len(k.wq[w]) : k.wq[w][i] \in S}
    IN IF hits = {} THEN NoThread ELSE k.wq[w][Min(hits)]

Receiver(target) ==
    first_match(RxWaitQ, {r \in ToSet(k.wq[RxWaitQ]) :
                             matches(k.current, target, r, call[r].source)})

Sender(source) ==
    first_match(TxWaitQ, {s \in ToSet(k.wq[TxWaitQ]) :
                             matches(s, call[s].target, k.current, source)})

Putting(target) == [op |-> "mbox_put", target |-> target]

\* a receiver waits: it becomes ready, and the sender pends on no queue
k_mbox_put_match(target) ==
    LET r == Receiver(target)
        k1 == remove_thread_from_ready_q(wake_waiter(k, r), k.current)
    IN /\ Caller(TRUE)
       /\ r # NoThread
       /\ Call(swap([k1 EXCEPT !.state[k.current] = @ \cup {"PENDING"}]))
       /\ syncing' = [syncing EXCEPT ![r] = k.current]
       /\ call' = [call EXCEPT ![k.current] = Putting(target)]
       /\ UNCHANGED mboxFrame

k_mbox_put_wait(target, timeout) ==
    /\ Caller(TRUE)
    /\ Receiver(target) = NoThread
    /\ Block(TxWaitQ, timeout, Putting(target))
    /\ UNCHANGED <<mboxFrame, syncing>>

k_mbox_put_return ==
    /\ Resumes("mbox_put")
    /\ Returns
    /\ UNCHANGED <<use, held, syncing>>

\* Mutant: the sender is made ready when its message is taken.
k_mbox_get_match_early(source) ==
    LET s == Sender(source) IN
    /\ Caller(TRUE) /\ syncing[k.current] = NoThread
    /\ s # NoThread
    /\ Call(wake_waiter(k, s))
    /\ syncing' = [syncing EXCEPT ![k.current] = s]
    /\ UNCHANGED <<call, mboxFrame>>

\* a sender waits: it leaves the queue, its timeout is cancelled, and it is
\* not made ready.  One receive descriptor per thread.
k_mbox_get_match(source) ==
    LET s == Sender(source) IN
    /\ Caller(TRUE) /\ syncing[k.current] = NoThread
    /\ s # NoThread
    /\ Call(abort_thread_timeout(unpend_thread(k, s), s))
    /\ syncing' = [syncing EXCEPT ![k.current] = s]
    /\ UNCHANGED <<call, mboxFrame>>

k_mbox_get_wait(source, timeout) ==
    /\ Caller(TRUE) /\ syncing[k.current] = NoThread
    /\ Sender(source) = NoThread
    /\ Block(RxWaitQ, timeout, [op |-> "mbox_get", source |-> source])
    /\ UNCHANGED <<mboxFrame, syncing>>

k_mbox_get_return ==
    /\ Resumes("mbox_get")
    /\ Returns
    /\ UNCHANGED <<use, held, syncing>>

\* _mbox_message_dispose(), at the end of k_mbox_get() with a buffer, or
\* whenever the receiver gets the data later
mbox_message_dispose ==
    LET s == syncing[k.current] IN
    /\ Caller(TRUE) /\ s # NoThread
    /\ Call(reschedule_threads(ready_thread(
               [k EXCEPT !.rv[s] = "0", !.state[s] = @ \ {"PENDING"}], s)))
    /\ syncing' = [syncing EXCEPT ![k.current] = NoThread]
    /\ UNCHANGED <<call, mboxFrame>>

MailboxNext ==
    \/ \E peer \in Apps \cup {K_ANY} :
          \/ k_mbox_put_match(peer) \/ k_mbox_get_match(peer)
          \/ \E timeout \in Patience[k.current] :
                k_mbox_put_wait(peer, timeout) \/ k_mbox_get_wait(peer, timeout)
    \/ k_mbox_put_return \/ k_mbox_get_return \/ mbox_message_dispose
    \/ (Rest \/ Interrupts) /\ UNCHANGED syncing

(***************************************************************************)
(* Properties.                                                             *)
(***************************************************************************)
queued(t) == \E p \in Prios : Contains(k.q[p], t)

\* A sender is in the mailbox's queue, or one receiver has its message, or it
\* can run: never two of these, for a sender that runs gives up the memory
\* its receiver reads, and never none, for nobody would wake it.  And no
\* sender and receiver that match wait side by side.
Rendezvous ==
    use = "mbox" =>
        /\ \A s \in Threads : call[s].op = "mbox_put" =>
              (IF Contains(k.wq[TxWaitQ], s) THEN 1 ELSE 0)
              + Cardinality({r \in Threads : syncing[r] = s})
              + (IF queued(s) THEN 1 ELSE 0) = 1
        /\ \A s, r \in Threads :
              Contains(k.wq[TxWaitQ], s) /\ Contains(k.wq[RxWaitQ], r)
              => ~matches(s, call[s].target, r, call[r].source)

=============================================================================
