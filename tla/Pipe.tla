-------------------------------- MODULE Pipe --------------------------------
(***************************************************************************)
(* A pipe (kernel/pipes.c), synchronous calls of threads.  A call takes    *)
(* the waiters it can satisfy off their queue with interrupts locked, and  *)
(* copies with the scheduler locked: another waiter may time out in        *)
(* between, but no thread runs.  So a call is two steps; all copies and    *)
(* the wait or return are the second.                                      *)
(*                                                                         *)
(* A byte is the thread that wrote it and its number in what that thread   *)
(* wrote, modulo Wrap and counted anew when all of it has been read.       *)
(***************************************************************************)
EXTENDS Objects

CONSTANTS
    PipeSize,            \* k_pipe.size
    Requests,            \* bytes_to_write and bytes_to_read of the calls
    ReadWaitQ, WriteWaitQ  \* k_pipe.wait_q

Wrap == PipeSize + 2

ASSUME PipeAssumption ==
    /\ PipeSize \in Nat \ {0} /\ Requests \subseteq Nat \ {0}
    /\ ReadWaitQ \in WaitQs /\ WriteWaitQ \in WaitQs /\ ReadWaitQ # WriteWaitQ

VARIABLE pipe   \* buffer, read_index, write_index and bytes_used; left:
                \* bytes_to_xfer of each waiter; sent, due: per writer, the
                \* number of the byte it writes next, and of the byte of its
                \* that is to be read next

NoByte == <<NoThread, 0>>

PipeInit ==
    pipe = [buffer |-> [i \in 0..(PipeSize - 1) |-> NoByte],
            read |-> 0, write |-> 0, used |-> 0,
            left |-> [t \in Threads |-> 0],
            sent |-> [t \in Threads |-> 0], due |-> [t \in Threads |-> 0]]

pipeFrame == <<use, data, held>>

(***************************************************************************)
(* The circular buffer: each transfer is at most two runs.                 *)
(***************************************************************************)
put_run(s, i) ==
    LET n == Min({s.n, PipeSize - s.p.used, PipeSize - s.p.write})
        w == s.w
    IN [s EXCEPT !.n = @ - n,
                 !.p.buffer = [j \in DOMAIN @ |->
                     IF j \in s.p.write..(s.p.write + n - 1)
                     THEN <<w, (s.p.sent[w] + j - s.p.write) % Wrap>> ELSE @[j]],
                 !.p.used = @ + n,
                 !.p.write = (@ + n) % PipeSize,
                 !.p.sent[w] = (@ + n) % Wrap,
                 !.p.left[w] = @ - n]

\* _pipe_buffer_put() of the bytes that writer w has left
pipe_buffer_put(p, w) == FoldLeft(put_run, [p |-> p, w |-> w, n |-> p.left[w]], <<1, 2>>).p

\* a byte read is forgotten, but for its number
get_run(p, r) ==
    LET n == Min({p.left[r], p.used, PipeSize - p.read})
        run == p.read..(p.read + n - 1)
        mine(t) == {j \in run : p.buffer[j][1] = t}
    IN [p EXCEPT !.left[r] = @ - n, !.used = @ - n, !.read = (@ + n) % PipeSize,
                 !.buffer = [j \in DOMAIN @ |-> IF j \in run THEN NoByte ELSE @[j]],
                 !.due = [t \in Threads |-> IF mine(t) = {} THEN @[t]
                                           ELSE (p.buffer[Max(mine(t))][2] + 1) % Wrap]]

\* _pipe_buffer_get() of what reader r has left to read
pipe_buffer_get(p, r) == get_run(get_run(p, r), r)

\* _pipe_xfer() from writer w's data to reader r's buffer
pipe_xfer(p, w, r) ==
    LET n == Min({p.left[w], p.left[r]}) IN
    [p EXCEPT !.left[w] = @ - n, !.left[r] = @ - n,
              !.sent[w] = (@ + n) % Wrap,
              !.due[w] = IF n = 0 THEN @ ELSE (p.sent[w] + n) % Wrap]

(***************************************************************************)
(* _pipe_xfer_prepare() for a request of n bytes: the waiters of w that    *)
(* can be satisfied, and the one that can be in part.                      *)
(***************************************************************************)
Wanted(w, i) == FoldLeft(LAMBDA sum, t : sum + pipe.left[t], 0, SubSeq(k.wq[w], 1, i))
Satisfied(w, n) == {i \in 1..Len(k.wq[w]) : Wanted(w, i) <= n}
XferList(w, n) == SubSeq(k.wq[w], 1, Cardinality(Satisfied(w, n)))
Partial(w, n) ==
    LET i == Cardinality(Satisfied(w, n)) + 1
    IN IF i > Len(k.wq[w]) THEN NoThread ELSE k.wq[w][i]

\* off the wait queue, the timeout aborted, on the transfer list
unpend_all(kk, list) ==
    FoldLeft(LAMBDA r, t : abort_thread_timeout(unpend_thread(r, t), t), kk, list)

ready_all(kk, list) == FoldLeft(ready_thread, kk, list)

\* op: the call; w: the queue of its peers; space: what the buffer offers.
\* -EIO with K_NO_WAIT and fewer than min bytes to be had changes nothing.
prepare(op, w, space, n, min, timeout) ==
    /\ Caller(TRUE)
    /\ timeout = "NO_WAIT" => Wanted(w, Len(k.wq[w])) + space >= min
    /\ Call(sched_lock(unpend_all(k, XferList(w, n))))
    /\ pipe' = [pipe EXCEPT !.left[k.current] = n]
    /\ call' = [call EXCEPT ![k.current] =
                   [op |-> op, list |-> XferList(w, n), partial |-> Partial(w, n),
                    timeout |-> timeout]]
    /\ UNCHANGED pipeFrame

recount(p) ==
    LET new(t) == p.sent[t] = p.due[t] IN
    [p EXCEPT !.sent = [t \in Threads |-> IF new(t) THEN 0 ELSE @[t]],
              !.due  = [t \in Threads |-> IF new(t) THEN 0 ELSE @[t]]]

\* The rest of the call: wait on w for what is left, or return.
wait_or_return(p, kk, w, op) ==
    LET c == call[k.current] IN
    IF p.left[k.current] > 0 /\ c.timeout # "NO_WAIT"
    THEN /\ Call(swap(pend_current_thread(sched_unlock_no_reschedule(kk), w,
                                          c.timeout = "TIMED")))
         /\ call' = [call EXCEPT ![k.current] = [op |-> op]]
         /\ pipe' = recount(p)
    ELSE /\ Call(reschedule_threads(sched_unlock_no_reschedule(kk)))
         /\ call' = [call EXCEPT ![k.current] = NoCall]
         /\ pipe' = [recount(p) EXCEPT !.left[k.current] = 0]

peers == LET c == call[k.current]
         IN IF c.partial = NoThread THEN c.list ELSE Append(c.list, c.partial)

(***************************************************************************)
(* k_pipe_put() and k_pipe_get()                                           *)
(***************************************************************************)
k_pipe_put(n, min, timeout) ==
    prepare("pipe_putting", ReadWaitQ, PipeSize - pipe.used, n, min, timeout)

\* Mutant: the buffer is filled before the readers are served.
pipe_put_buffer_first ==
    /\ Resumes("pipe_putting")
    /\ LET w  == k.current
           p1 == FoldLeft(LAMBDA p, r : pipe_xfer(p, w, r), pipe_buffer_put(pipe, w), peers)
       IN wait_or_return(p1, ready_all(k, call[w].list), WriteWaitQ, "pipe_put")
    /\ UNCHANGED pipeFrame

\* to the waiting readers, then into the buffer
pipe_put ==
    /\ Resumes("pipe_putting")
    /\ LET w  == k.current
           p1 == FoldLeft(LAMBDA p, r : pipe_xfer(p, w, r), pipe, peers)
       IN wait_or_return(pipe_buffer_put(p1, w), ready_all(k, call[w].list),
                         WriteWaitQ, "pipe_put")
    /\ UNCHANGED pipeFrame

k_pipe_get(n, min, timeout) ==
    prepare("pipe_getting", WriteWaitQ, pipe.used, n, min, timeout)

\* Mutant: the waiting writers do not refill the buffer.
pipe_get_no_refill ==
    /\ Resumes("pipe_getting")
    /\ LET r  == k.current
           p1 == FoldLeft(LAMBDA p, w : pipe_xfer(p, w, r), pipe_buffer_get(pipe, r), peers)
       IN wait_or_return(p1, ready_all(k, call[r].list), ReadWaitQ, "pipe_get")
    /\ UNCHANGED pipeFrame

\* from the buffer, then from the waiting writers, whose other bytes refill
\* the buffer
pipe_get ==
    /\ Resumes("pipe_getting")
    /\ LET r  == k.current
           p1 == FoldLeft(LAMBDA p, w : pipe_xfer(p, w, r), pipe_buffer_get(pipe, r), peers)
           p2 == FoldLeft(pipe_buffer_put, p1, peers)
       IN wait_or_return(p2, ready_all(k, call[r].list), ReadWaitQ, "pipe_get")
    /\ UNCHANGED pipeFrame

\* 0 or -EAGAIN, by how much is left
pipe_return ==
    /\ Resumes("pipe_put") \/ Resumes("pipe_get")
    /\ Returns
    /\ pipe' = [pipe EXCEPT !.left[k.current] = 0]
    /\ UNCHANGED <<use, held>>

PipeNext ==
    \/ \E n \in Requests, timeout \in Patience[k.current] \cup {"NO_WAIT"} :
          \E min \in {1, n} : k_pipe_put(n, min, timeout) \/ k_pipe_get(n, min, timeout)
    \/ pipe_put \/ pipe_get \/ pipe_return
    \/ Interrupts /\ UNCHANGED pipe

(***************************************************************************)
(* Properties.                                                             *)
(***************************************************************************)
\* the bytes of w in the buffer, oldest first
Buffered(w) ==
    LET all == [i \in 1..pipe.used |-> pipe.buffer[(pipe.read + i - 1) % PipeSize]]
    IN SelectSeq(all, LAMBDA b : b[1] = w)

\* The bytes a thread wrote and nobody has read yet are in the buffer, none
\* missing, none twice and in order: copies from thread to thread do not
\* overtake them, though requests are split and waiters time out.
PipeKeepsBytes ==
    use = "pipe" => \A w \in Threads :
        LET s == Buffered(w) IN
        /\ \A i \in 1..Len(s) : s[i][2] = (pipe.due[w] + i - 1) % Wrap
        /\ pipe.sent[w] = (pipe.due[w] + Len(s)) % Wrap

\* "If there are writers in wait_q, then the pipe's buffer is full", "If there
\* are readers in wait_q, then the pipe's buffer is empty" (pipes.c): between
\* calls nobody waits for what is there, and every waiter lacks something.
PipeWaitersJustified ==
    use = "pipe" /\ (\A t \in Threads : call[t].op \notin {"pipe_putting", "pipe_getting"}) =>
        /\ k.wq[WriteWaitQ] # <<>> => pipe.used = PipeSize /\ k.wq[ReadWaitQ] = <<>>
        /\ k.wq[ReadWaitQ] # <<>> => pipe.used = 0
        /\ \A w \in {ReadWaitQ, WriteWaitQ} :
              \A t \in ToSet(k.wq[w]) : pipe.left[t] > 0

=============================================================================
