-------------------------------- MODULE Poll --------------------------------
(***************************************************************************)
(* k_poll() on poll signals (kernel/poll.c).  The events are checked and   *)
(* registered one by one with the lock released in between, so a signal    *)
(* may be raised at any point of the scan, of the wait and of the removal  *)
(* of the registrations.                                                   *)
(*                                                                         *)
(* One thread polls at a time ("Only one thread can poll on a semaphore or *)
(* a FIFO at a time", polling.rst); the code does not enforce it.          *)
(***************************************************************************)
EXTENDS Objects

CONSTANTS Signals, PollWaitQ   \* the events' signals, in order; the wait queue
ASSUME PollAssumption == Signals \in Seq(Items) /\ PollWaitQ \in WaitQs

Sigs == ToSet(Signals)

VARIABLE poll   \* signaled: signals raised; listed: events on their signal's
                \* poll_events; ready: events whose state is SIGNALED;
                \* polling: the poller's _THREAD_POLLING flag

PollInit == poll = [signaled |-> {}, listed |-> {}, ready |-> {}, polling |-> FALSE]

PollOps == {"poll_scan", "poll_wait", "poll_clear"}
pollFrame == <<use, held>>

k_poll(timeout) ==
    /\ Caller(TRUE)
    /\ \A t \in Threads : call[t].op \notin PollOps
    /\ poll' = [poll EXCEPT !.polling = TRUE, !.ready = {}]
    /\ call' = [call EXCEPT ![k.current] =
                   [op |-> "poll_scan", i |-> 1, last |-> 0, timeout |-> timeout]]
    /\ UNCHANGED <<schedVars, data, pollFrame>>

\* one event: its condition is met, or it is registered if still polling
poll_scan ==
    /\ Resumes("poll_scan") /\ call[k.current].i <= Len(Signals)
    /\ LET c == call[k.current]
           s == Signals[c.i]
           met == s \in poll.signaled
           reg == ~met /\ c.timeout # "NO_WAIT" /\ poll.polling
       IN /\ poll' = IF met THEN [poll EXCEPT !.ready = @ \cup {s}, !.polling = FALSE]
                     ELSE IF reg THEN [poll EXCEPT !.listed = @ \cup {s}]
                     ELSE poll
          /\ call' = [call EXCEPT ![k.current].i = @ + 1,
                                  ![k.current].last = IF reg THEN c.i ELSE @]
    /\ UNCHANGED <<schedVars, data, pollFrame>>

Clearing(last) == [op |-> "poll_clear", i |-> last]

\* Mutant: waits without looking whether an event came in.
poll_block_blind ==
    /\ Resumes("poll_scan") /\ call[k.current].i > Len(Signals)
    /\ poll' = [poll EXCEPT !.polling = FALSE]
    /\ IF call[k.current].timeout = "NO_WAIT"
       THEN /\ call' = [call EXCEPT ![k.current] = NoCall]
            /\ UNCHANGED schedVars
       ELSE Block(PollWaitQ, call[k.current].timeout,
                  [op |-> "poll_wait", last |-> call[k.current].last])
    /\ UNCHANGED <<data, pollFrame>>

\* An event is ready, or there is nothing to wait for, or the thread waits.
poll_block ==
    /\ Resumes("poll_scan") /\ call[k.current].i > Len(Signals)
    /\ LET c == call[k.current] IN
       \/ /\ ~poll.polling
          /\ call' = [call EXCEPT ![k.current] = Clearing(c.last)]
          /\ UNCHANGED schedVars
       \/ /\ poll.polling /\ c.timeout = "NO_WAIT"
          /\ call' = [call EXCEPT ![k.current] = NoCall]
          /\ UNCHANGED schedVars
       \/ /\ poll.polling /\ c.timeout # "NO_WAIT"
          /\ Block(PollWaitQ, c.timeout, [op |-> "poll_wait", last |-> c.last])
    /\ poll' = [poll EXCEPT !.polling = FALSE]
    /\ UNCHANGED <<data, pollFrame>>

poll_resume ==
    /\ Resumes("poll_wait")
    /\ call' = [call EXCEPT ![k.current] = Clearing(@.last)]
    /\ UNCHANGED <<schedVars, data, pollFrame, poll>>

\* Mutant: the first registration is kept.
poll_clear_short ==
    /\ Resumes("poll_clear")
    /\ LET i == call[k.current].i IN
       IF i <= 1
       THEN Returns /\ UNCHANGED poll
       ELSE /\ poll' = [poll EXCEPT !.listed = @ \ {Signals[i]}]
            /\ call' = [call EXCEPT ![k.current] = Clearing(i - 1)]
            /\ UNCHANGED <<schedVars, data>>
    /\ UNCHANGED pollFrame

\* clear_event_registrations(), last one first
poll_clear ==
    /\ Resumes("poll_clear")
    /\ LET i == call[k.current].i IN
       IF i = 0
       THEN Returns /\ UNCHANGED poll
       ELSE /\ poll' = [poll EXCEPT !.listed = @ \ {Signals[i]}]
            /\ call' = [call EXCEPT ![k.current] = Clearing(i - 1)]
            /\ UNCHANGED <<schedVars, data>>
    /\ UNCHANGED pollFrame

Poller == CHOOSE t \in Threads : call[t].op \in PollOps

\* k_poll_signal() and _signal_poll_event()
k_poll_signal(inThread, s) ==
    /\ Caller(inThread)
    /\ LET t      == Poller
           waits  == "PENDING" \in k.state[t]
           missed == waits /\ k.to[t] = "EXPIRED"
       IN IF s \notin poll.listed
          THEN /\ poll' = [poll EXCEPT !.signaled = @ \cup {s}]
               /\ UNCHANGED k
          ELSE /\ poll' = [signaled |-> poll.signaled \cup {s},
                           listed   |-> poll.listed \ {s},
                           ready    |-> IF missed THEN poll.ready
                                        ELSE poll.ready \cup {s},
                           polling  |-> FALSE]
               /\ k' = IF waits /\ ~missed
                       THEN switch_unless_isr(wake_waiter(k, t), inThread) ELSE k
    /\ UNCHANGED <<isr, clk, slice, call, data, pollFrame>>

\* the user resets signal->signaled
reset_signal(s) ==
    /\ Caller(TRUE) /\ s \in poll.signaled
    /\ poll' = [poll EXCEPT !.signaled = @ \ {s}]
    /\ UNCHANGED <<schedVars, call, data, pollFrame>>

PollNext ==
    \/ \E timeout \in Patience[k.current] \cup {"NO_WAIT"} : k_poll(timeout)
    \/ poll_scan \/ poll_block \/ poll_resume \/ poll_clear
    \/ \E s \in Sigs : \/ reset_signal(s)
                       \/ \E inThread \in BOOLEAN : k_poll_signal(inThread, s)
    \/ (Rest \/ Interrupts) /\ UNCHANGED poll

(***************************************************************************)
(* Properties.                                                             *)
(***************************************************************************)
\* A thread does not wait while an event it polls has occurred, and is
\* registered for each: whenever a signal is raised during the unlocked scan,
\* k_poll() notices it.
PollSeesSignals ==
    \A t \in Threads :
        eligible(t, "poll_wait") => poll.signaled = {} /\ poll.listed = Sigs

\* k_poll() leaves no registration behind, whose event and poller are on the
\* stack of a function that has returned, and when it returns 0 an event is
\* ready for its caller.
PollCleansUp ==
    /\ (\A t \in Threads : call[t].op \notin PollOps) => poll.listed = {}
    /\ \A t \in Threads : served(t, "poll_wait") => poll.ready # {}

=============================================================================
