---------------------------- MODULE DataProofs ----------------------------
(***************************************************************************)
(* Proofs about the objects that pass items between threads and            *)
(* interrupts, for any number of threads and items and any interrupt       *)
(* sources: a word of a stack and a block of a memory slab always have     *)
(* exactly one place, a message queue is a bounded FIFO, and a mailbox     *)
(* never loses a sender nor lets one go on too early.                      *)
(*                                                                         *)
(* The item handed to a waiter is on its way from the push until the       *)
(* waiter runs again: then it is nowhere but in the waiter's swap_data,    *)
(* and only the return value says that it is there.  So the invariant has  *)
(* to tell waiters that were served from those that were not through every *)
(* timeout, suspension, abort and preemption.  On ARM no interrupt touches *)
(* the return value of the thread it preempts; on native_posix one does,   *)
(* and these results assume the former.  That of the mailbox, which hands  *)
(* nothing over this way, holds for both.                                  *)
(***************************************************************************)
EXTENDS DataPassing, WaitProofs, FiniteSetTheorems

(***************************************************************************)
(* The threads that use one object, with the wait queue w and the blocking *)
(* calls Ops: only those wait, on w, inside one of these calls, and with   *)
(* the return value _Swap() starts with.                                   *)
(***************************************************************************)
ObjWaits(w, Ops) ==
    /\ IInv /\ ClockInv /\ WaitsExact(k)
    /\ \A v \in WaitQs \ {w} : Waiters(k, v) = {}
    /\ call \in [Threads -> [op : Ops \cup {"none"}]]
    /\ \A t \in Threads :
          "PENDING" \in k.state[t] => call[t].op # "none" /\ k.rv[t] = "EAGAIN"

\* what a step that is not the object's leaves as it was: which waiters were
\* served; none becomes eligible, and at most one is no longer
Bystander(Ops) ==
    /\ \A t \in Threads, o \in Ops : /\ served(t, o)' <=> served(t, o)
                                     /\ eligible(t, o)' => eligible(t, o)
    /\ \E x \in Threads : \A t \in Threads \ {x}, o \in Ops :
                             eligible(t, o) => eligible(t, o)'

\* the running thread does not wait
LEMMA CurrentRuns ==
    ASSUME IInv
    PROVE  k.current \in Threads /\ "PENDING" \notin k.state[k.current]
           /\ k.to[k.current] = "INACTIVE" /\ k \in KernelType
BY DEF IInv, TypeOK, Live, KernelType, is_thread_ready, is_thread_timeout_active

\* a step that concerns no waiter, while no served thread is running or its
\* return value is left alone
LEMMA QuietStays ==
    ASSUME NEW w \in WaitQs, NEW Ops, ObjWaits(w, Ops), IInv', ClockInv',
           Undisturbed(k, k'), call' = call,
           call[k.current].op = "none" \/ k'.rv = k.rv, "none" \notin Ops
    PROVE  ObjWaits(w, Ops)' /\ Bystander(Ops)
<1>0. /\ k.current \in Threads /\ "PENDING" \notin k.state[k.current]
  BY CurrentRuns DEF ObjWaits
<1>1. /\ k'.wq = k.wq
      /\ \A t \in Threads :
          /\ "PENDING" \in k'.state[t] <=> "PENDING" \in k.state[t]
          /\ \/ k'.to[t] = k.to[t]
             \/ "PENDING" \notin k.state[t] /\ k'.to[t] = "INACTIVE"
             \/ t = k.current /\ k'.to[t] = "ACTIVE"
          /\ \/ k'.rv[t] = k.rv[t]
             \/ t = k.current /\ k'.rv[t] = "EAGAIN"
  BY DEF Undisturbed
<1>2. /\ WaitsExact(k) /\ \A v \in WaitQs \ {w} : Waiters(k, v) = {}
      /\ call \in [Threads -> [op : Ops \cup {"none"}]]
      /\ \A t \in Threads :
          "PENDING" \in k.state[t] => call[t].op # "none" /\ k.rv[t] = "EAGAIN"
  BY DEF ObjWaits
<1>3. WaitsExact(k') /\ \A v \in WaitQs : Waiters(k', v) = Waiters(k, v)
  BY <1>1, <1>2, WaitsFrame
<1>4. \A t \in Threads :
          "PENDING" \in k'.state[t] => call'[t].op # "none" /\ k'.rv[t] = "EAGAIN"
  BY <1>0, <1>1, <1>2
<1>5. ObjWaits(w, Ops)'
  BY <1>2, <1>3, <1>4 DEF ObjWaits
<1>6. ASSUME NEW t \in Threads, NEW o \in Ops
      PROVE  (served(t, o)' <=> served(t, o)) /\ (eligible(t, o)' <=> eligible(t, o))
  BY <1>0, <1>1 DEF served, eligible, waits_in
<1> QED BY <1>0, <1>5, <1>6 DEF Bystander

\* another thread aborts x
LEMMA AbortQuiet ==
    ASSUME NEW w \in WaitQs, NEW Ops, ObjWaits(w, Ops), IInv', ClockInv',
           NEW x \in Threads, Aborted(k, k', x), call' = call,
           call[k.current].op = "none", "none" \notin Ops
    PROVE  ObjWaits(w, Ops)' /\ Bystander(Ops)
<1>0. /\ k.current \in Threads /\ "PENDING" \notin k.state[k.current]
  BY CurrentRuns DEF ObjWaits
<1>1. /\ WaitsExact(k') /\ Pending(k') = Pending(k) \ {x}
      /\ \A v \in WaitQs : Waiters(k', v) = Waiters(k, v) \ {x}
      /\ \A t \in Threads \ {x} : k'.state[t] = k.state[t] /\ k'.to[t] = k.to[t]
      /\ \A t \in Threads : \/ k'.rv[t] = k.rv[t]
                            \/ t = k.current /\ k'.rv[t] = "EAGAIN"
  BY DEF Aborted
<1>2. /\ \A v \in WaitQs \ {w} : Waiters(k, v) = {}
      /\ call \in [Threads -> [op : Ops \cup {"none"}]]
      /\ \A t \in Threads :
          "PENDING" \in k.state[t] => call[t].op # "none" /\ k.rv[t] = "EAGAIN"
  BY DEF ObjWaits
<1>3. "PENDING" \notin k'.state[x]
  BY <1>1 DEF Pending
<1>4. \A t \in Threads :
          "PENDING" \in k'.state[t] => call'[t].op # "none" /\ k'.rv[t] = "EAGAIN"
  BY <1>0, <1>1, <1>2, <1>3
<1>5. ObjWaits(w, Ops)'
  BY <1>1, <1>2, <1>4 DEF ObjWaits
<1>6. ASSUME NEW t \in Threads, NEW o \in Ops
      PROVE  (served(t, o)' <=> served(t, o)) /\ (eligible(t, o)' => eligible(t, o))
  <2>1. CASE t = x
    BY <1>0, <1>1, <1>2, <1>3, <2>1 DEF served, eligible, waits_in
  <2>2. CASE t # x
    BY <1>0, <1>1, <1>2, <2>2 DEF served, eligible, waits_in
  <2> QED BY <2>1, <2>2
<1>7. \A t \in Threads \ {x}, o \in Ops : eligible(t, o) => eligible(t, o)'
  BY <1>1 DEF eligible, waits_in
<1> QED BY <1>5, <1>6, <1>7 DEF Bystander

\* the timeout of x expires, or is handled
LEMMA ExpiryQuiet ==
    ASSUME NEW w \in WaitQs, NEW Ops, ObjWaits(w, Ops), IInv', ClockInv',
           NEW x \in Threads, Expired(k, k', x) \/ Handled(k, k', x), call' = call,
           "none" \notin Ops
    PROVE  ObjWaits(w, Ops)' /\ Bystander(Ops)
<1>1. /\ WaitsExact(k) /\ \A v \in WaitQs \ {w} : Waiters(k, v) = {}
      /\ call \in [Threads -> [op : Ops \cup {"none"}]]
      /\ \A t \in Threads :
          "PENDING" \in k.state[t] => call[t].op # "none" /\ k.rv[t] = "EAGAIN"
  BY DEF ObjWaits
<1>2. CASE Expired(k, k', x)
  <2>1. /\ k'.to[x] = "EXPIRED" /\ \A u \in Threads \ {x} : k'.to[u] = k.to[u]
        /\ k'.wq = k.wq /\ k'.state = k.state /\ k'.rv = k.rv
    BY <1>2 DEF Expired
  <2>2. WaitsExact(k') /\ \A v \in WaitQs : Waiters(k', v) = Waiters(k, v)
    BY <1>1, <2>1, WaitsFrame
  <2>3. ObjWaits(w, Ops)'
    BY <1>1, <2>1, <2>2 DEF ObjWaits
  <2>4. ASSUME NEW t \in Threads, NEW o \in Ops
        PROVE  (served(t, o)' <=> served(t, o)) /\ (eligible(t, o)' => eligible(t, o))
    BY <2>1 DEF served, eligible, waits_in
  <2>5. \A t \in Threads \ {x}, o \in Ops : eligible(t, o) => eligible(t, o)'
    BY <2>1 DEF eligible, waits_in
  <2> QED BY <2>3, <2>4, <2>5 DEF Bystander
<1>3. CASE Handled(k, k', x)
  <2>1. /\ WaitsExact(k') /\ Pending(k') = Pending(k) \ {x}
        /\ \A v \in WaitQs : Waiters(k', v) = Waiters(k, v) \ {x}
        /\ k'.rv = k.rv
        /\ \A t \in Threads \ {x} : k'.state[t] = k.state[t] /\ k'.to[t] = k.to[t]
    BY <1>3 DEF Handled
  <2>2. "PENDING" \notin k'.state[x]
    BY <2>1 DEF Pending
  <2>3. \A t \in Threads :
          "PENDING" \in k'.state[t] => call'[t].op # "none" /\ k'.rv[t] = "EAGAIN"
    BY <1>1, <2>1, <2>2
  <2>4. ObjWaits(w, Ops)'
    BY <1>1, <2>1, <2>3 DEF ObjWaits
  <2>5. ASSUME NEW t \in Threads, NEW o \in Ops
        PROVE  (served(t, o)' <=> served(t, o)) /\ (eligible(t, o)' => eligible(t, o))
    <3>1. CASE t = x
      BY <1>1, <2>1, <2>2, <3>1 DEF served, eligible, waits_in
    <3>2. CASE t # x
      BY <2>1, <3>2 DEF served, eligible, waits_in
    <3> QED BY <3>1, <3>2
  <2>6. \A t \in Threads \ {x}, o \in Ops : eligible(t, o) => eligible(t, o)'
    BY <2>1 DEF eligible, waits_in
  <2> QED BY <2>4, <2>5, <2>6 DEF Bystander
<1> QED BY <1>2, <1>3

\* what goes on around an object
LEMMA EnvironmentStays ==
    ASSUME Port = "arm", NEW w \in WaitQs, NEW Ops, "none" \notin Ops,
           ObjWaits(w, Ops), Environment
    PROVE  /\ ObjWaits(w, Ops)' /\ Bystander(Ops)
           /\ use' = use /\ call' = call /\ data' = data /\ held' = held
<1>0. IInv /\ ClockInv /\ WaitsExact(k) /\ call \in [Threads -> [op : Ops \cup {"none"}]]
  BY DEF ObjWaits
<1>1. use' = use /\ call' = call /\ data' = data /\ held' = held
  BY DEF Environment, Interrupts, objVars
<1>2. ASSUME Passed(k, k'), IInv', ClockInv'
      PROVE  ObjWaits(w, Ops)' /\ Bystander(Ops)
  <2>1. Undisturbed(k, k') /\ k'.rv = k.rv
    BY <1>2 DEF Passed
  <2> QED BY <1>1, <1>2, <2>1, QuietStays
<1>3. CASE Interrupts
  <2>1. CASE Clock
    <3>1. IInv'
      BY <1>0, <2>1, ClockStays
    <3>2. /\ ClockInv'
          /\ \/ Passed(k, k')
             \/ \E t \in Threads : Expired(k, k', t) \/ Handled(k, k', t)
      BY <1>0, <2>1, ClockEffect
    <3>3. CASE Passed(k, k')
      BY <1>1, <1>2, <3>1, <3>2, <3>3
    <3>4. ASSUME NEW t \in Threads, Expired(k, k', t) \/ Handled(k, k', t)
          PROVE  ObjWaits(w, Ops)' /\ Bystander(Ops)
      BY <1>1, <3>1, <3>2, <3>4, ExpiryQuiet
    <3> QED BY <1>1, <3>2, <3>3, <3>4
  <2>2. CASE DevEnter \/ DevExit
    <3>1. Device
      BY <2>2 DEF Device
    <3>2. IInv' /\ Passed(k, k') /\ ClockInv'
      BY <1>0, <3>1, DeviceStays, DevicePassed
    <3> QED BY <1>1, <1>2, <3>2
  <2> QED BY <1>3, <2>1, <2>2 DEF Interrupts
<1>4. CASE Disturb
  <2>1. InThread /\ call[k.current] = NoCall
    BY <1>4 DEF Disturb
  <2>2. PICK t \in Victims : k_thread_suspend(t) \/ resume_not_ready(t) \/ k_thread_abort(t)
    BY <1>4 DEF Disturb
  <2>3. t \in Apps /\ t \in Threads /\ call[k.current].op = "none"
    BY <2>1, ObjectsAssumption DEF Apps, NoCall
  <2>4. clk' = clk
    BY <2>2 DEF k_thread_suspend, resume_not_ready, k_thread_resume, k_thread_abort, Call
  <2>5. ASSUME IInv', Calm(k, k') PROVE ObjWaits(w, Ops)' /\ Bystander(Ops)
    <3>1. Undisturbed(k, k') /\ k'.handling = k.handling
      BY <2>5 DEF Calm
    <3>2. ClockInv'
      BY <1>0, <2>4, <3>1 DEF ClockInv, Undisturbed
    <3> QED BY <1>1, <2>3, <2>5, <3>1, <3>2, QuietStays
  <2>6. CASE k_thread_suspend(t)
    BY <1>0, <1>1, <2>3, <2>5, <2>6, SuspendStays, SuspendCalm
  <2>7. CASE resume_not_ready(t)
    BY <1>0, <1>1, <2>3, <2>5, <2>7, ResumeStays, ResumeCalm
  <2>8. CASE k_thread_abort(t)
    <3>1. IInv' /\ Aborted(k, k', t)
      BY <1>0, <2>3, <2>8, AbortStays, AbortAborts
    <3>2. ClockInv'
      BY <1>0, <2>3, <2>4, <3>1 DEF ClockInv, Aborted
    <3> QED BY <1>1, <2>3, <3>1, <3>2, AbortQuiet
  <2> QED BY <2>2, <2>6, <2>7, <2>8
<1> QED BY <1>1, <1>3, <1>4 DEF Environment

\* the running thread starts to wait, in the call o
LEMMA BlockStays ==
    ASSUME NEW w \in WaitQs, NEW Ops, "none" \notin Ops, ObjWaits(w, Ops),
           NEW o \in Ops, NEW timeout \in {"TIMED", "FOREVER"},
           NEW r, r = [op |-> o], InThread, call[k.current] = NoCall,
           Block(w, timeout, r)
    PROVE  /\ ObjWaits(w, Ops)' /\ k.current \in Threads
           /\ \A t \in Threads, p \in Ops :
                /\ served(t, p)' <=> served(t, p)
                /\ eligible(t, p)' <=> eligible(t, p) \/ (t = k.current /\ p = o)
<1> DEFINE c == k.current
<1>0. InThread /\ call[c] = NoCall /\ IInv /\ WaitsExact(k)
  BY DEF ObjWaits
<1>1. /\ k' = swap(pend_current_thread(k, w, timeout = "TIMED"))
      /\ isr' = isr /\ clk' = clk /\ slice' = slice
      /\ call' = [call EXCEPT ![c] = [op |-> o]]
  BY DEF Block, Call
<1>2. k' = PendedForever(k, w) \/ k' = PendedTimed(k, w)
  <2>1. CASE timeout = "TIMED"
    BY <1>1, <2>1 DEF PendedTimed, pend_current_thread, pend_thread, Linked
  <2>2. CASE timeout = "FOREVER"
    BY <1>1, <2>2 DEF PendedForever, pend_current_thread, pend_thread, Linked
  <2> QED BY <2>1, <2>2
<1>3. Good(k) /\ is_thread_ready(k, c) /\ c # Idle /\ c \in Threads /\ slice \in SliceSettings
  BY <1>0, InThreadFacts
<1> HIDE DEF c
<1>4. c = k.current
  BY DEF c
<1>5. /\ Live(k') /\ Settled(k') /\ WaitsExact(k')
  BY ONLY <1>0, <1>2, <1>3, <1>4, w \in WaitQs, PendSettled
<1>6. \A v \in WaitQs \ {w} : k'.wq[v] = k.wq[v]
  BY ONLY <1>0, <1>2, <1>3, <1>4, w \in WaitQs, PendSettled
<1>7. /\ k'.handling = k.handling
      /\ k'.state[c] = {"PENDING"} /\ k'.rv[c] = "EAGAIN"
  BY ONLY <1>0, <1>2, <1>3, <1>4, w \in WaitQs, PendSettled
<1>8. \A u \in Threads \ {c} : /\ k'.state[u] = k.state[u]
                               /\ k'.to[u] = k.to[u]
                               /\ k'.rv[u] = k.rv[u]
  BY ONLY <1>0, <1>2, <1>3, <1>4, w \in WaitQs, PendSettled
<1>9. k'.to[c] # "EXPIRED"
  <2>1. k'.to[c] = "INACTIVE" \/ k'.to[c] = "ACTIVE"
    BY ONLY <1>0, <1>2, <1>3, <1>4, w \in WaitQs, PendSettled
  <2> QED BY <2>1
<1>10. IInv'
  BY <1>0, <1>1, <1>3, <1>5, CallStays
<1>11. ClockInv'
  BY <1>1, <1>7, <1>8, <1>9 DEF ObjWaits, ClockInv
<1>12. \A v \in WaitQs \ {w} : Waiters(k', v) = {}
  BY <1>6 DEF ObjWaits, Waiters
<1>13. /\ call \in [Threads -> [op : Ops \cup {"none"}]]
       /\ \A t \in Threads :
            "PENDING" \in k.state[t] => call[t].op # "none" /\ k.rv[t] = "EAGAIN"
  BY DEF ObjWaits
<1>14. /\ call' \in [Threads -> [op : Ops \cup {"none"}]]
       /\ call'[c].op = o /\ \A t \in Threads \ {c} : call'[t] = call[t]
  BY <1>1, <1>3, <1>13
<1>15. \A t \in Threads :
            "PENDING" \in k'.state[t] => call'[t].op # "none" /\ k'.rv[t] = "EAGAIN"
  BY <1>7, <1>8, <1>13, <1>14
<1>16. ObjWaits(w, Ops)'
  BY <1>5, <1>10, <1>11, <1>12, <1>14, <1>15 DEF ObjWaits
<1>17. ASSUME NEW t \in Threads, NEW p \in Ops
       PROVE  /\ served(t, p)' <=> served(t, p)
              /\ eligible(t, p)' <=> eligible(t, p) \/ (t = c /\ p = o)
  <2>1. CASE t = c
    BY <1>0, <1>7, <1>9, <1>14, <2>1 DEF served, eligible, waits_in, NoCall
  <2>2. CASE t # c
    BY <1>8, <1>14, <2>2 DEF served, eligible, waits_in
  <2> QED BY <2>1, <2>2
<1> QED BY <1>3, <1>4, <1>16, <1>17

\* its call ends
LEMMA ReturnStays ==
    ASSUME NEW w \in WaitQs, NEW Ops, "none" \notin Ops, ObjWaits(w, Ops),
           NEW o \in Ops, Resumes(o), Returns
    PROVE  /\ ObjWaits(w, Ops)' /\ k.current \in Threads
           /\ \A t \in Threads, p \in Ops :
                /\ served(t, p)' <=> served(t, p) /\ t # k.current
                /\ eligible(t, p)' <=> eligible(t, p)
           /\ \A p \in Ops : served(k.current, p) <=> p = o /\ k.rv[k.current] = "0"
<1> DEFINE c == k.current
<1>0. /\ InThread /\ call[c].op = o /\ IInv /\ WaitsExact(k)
      /\ c \in Threads /\ "PENDING" \notin k.state[c] /\ k \in KernelType
      /\ slice \in SliceSettings /\ Live(k) /\ Settled(k)
  BY CurrentRuns, InThreadFacts DEF Resumes, ObjWaits
<1>1. /\ k' = [k EXCEPT !.rv[c] = "EAGAIN"]
      /\ isr' = isr /\ clk' = clk /\ slice' = slice
      /\ call' = [call EXCEPT ![c] = NoCall]
  BY DEF Returns, Call
<1> HIDE DEF c
<1>2. /\ k' \in KernelType
      /\ k'.q = k.q /\ k'.bmap = k.bmap /\ k'.cache = k.cache
      /\ k'.current = k.current /\ k'.prio = k.prio
      /\ k'.locked = k.locked /\ k'.to = k.to /\ k'.wq = k.wq
      /\ k'.handling = k.handling /\ k'.state = k.state
      /\ k'.rv[c] = "EAGAIN" /\ \A u \in Threads \ {c} : k'.rv[u] = k.rv[u]
  BY <1>0, <1>1 DEF KernelType, RetVals
<1>3. Live(k') /\ Settled(k')
  <2>1. Good(k')
    BY <1>0, <1>2, GoodFrame DEF Live
  <2> QED BY <1>0, <1>2, <2>1 DEF Live, Settled, is_thread_ready,
             is_thread_timeout_active, is_preempt
<1>4. IInv'
  BY <1>0, <1>1, <1>3, CallStays
<1>5. ClockInv'
  BY <1>1, <1>2 DEF ObjWaits, ClockInv
<1>6. WaitsExact(k') /\ \A v \in WaitQs : Waiters(k', v) = Waiters(k, v)
  BY <1>0, <1>2, WaitsFrame
<1>7. /\ call \in [Threads -> [op : Ops \cup {"none"}]]
      /\ \A v \in WaitQs \ {w} : Waiters(k, v) = {}
      /\ \A t \in Threads :
            "PENDING" \in k.state[t] => call[t].op # "none" /\ k.rv[t] = "EAGAIN"
  BY DEF ObjWaits
<1>8. /\ call' \in [Threads -> [op : Ops \cup {"none"}]]
      /\ call'[c].op = "none" /\ \A t \in Threads \ {c} : call'[t] = call[t]
  BY <1>0, <1>1, <1>7 DEF NoCall
<1>9. \A t \in Threads :
            "PENDING" \in k'.state[t] => call'[t].op # "none" /\ k'.rv[t] = "EAGAIN"
  BY <1>0, <1>2, <1>7, <1>8
<1>10. ObjWaits(w, Ops)'
  BY <1>4, <1>5, <1>6, <1>7, <1>8, <1>9 DEF ObjWaits
<1>11. ASSUME NEW t \in Threads, NEW p \in Ops
       PROVE  /\ served(t, p)' <=> served(t, p) /\ t # c
              /\ eligible(t, p)' <=> eligible(t, p)
  <2>1. CASE t = c
    BY <1>0, <1>2, <1>8, <2>1 DEF served, eligible, waits_in
  <2>2. CASE t # c
    BY <1>2, <1>8, <2>2 DEF served, eligible, waits_in
  <2> QED BY <2>1, <2>2
<1>12. \A p \in Ops : served(c, p) <=> p = o /\ k.rv[c] = "0"
  BY <1>0 DEF served
<1> QED BY <1>0, <1>10, <1>11, <1>12 DEF c

\* nobody waits who could be served, when _find_first_thread_to_unpend()
\* finds nobody
LEMMA NobodyWaits ==
    ASSUME NEW w \in WaitQs, NEW Ops, ObjWaits(w, Ops),
           find_first_thread_to_unpend(k, w) = NoThread
    PROVE  \A t \in Threads, o \in Ops : ~eligible(t, o)
<1>1. k \in KernelType /\ WaitsExact(k) /\ \A v \in WaitQs \ {w} : Waiters(k, v) = {}
  BY DEF ObjWaits, IInv, TypeOK
<1>2. \A u \in Waiters(k, w) : TimedOut(k, u)
  BY <1>1, FirstWaiter
<1>3. \A t \in Threads : "PENDING" \in k.state[t] => t \in Waiters(k, w)
  BY <1>1 DEF WaitsExact, Pending
<1> QED BY <1>2, <1>3 DEF eligible, waits_in, TimedOut

\* the first waiter t is served, by the running thread or the interrupt
LEMMA WakeStays ==
    ASSUME NEW w \in WaitQs, NEW Ops, "none" \notin Ops, ObjWaits(w, Ops),
           NEW inThread \in BOOLEAN, Caller(inThread),
           NEW t, t = find_first_thread_to_unpend(k, w), t # NoThread,
           k' = switch_unless_isr(wake_waiter(k, t), inThread),
           isr' = isr, clk' = clk, slice' = slice, call' = call
    PROVE  /\ ObjWaits(w, Ops)'
           /\ t \in Threads /\ call[t].op \in Ops /\ eligible(t, call[t].op)
           /\ \A p \in Ops : ~served(t, p) /\ (served(t, p)' <=> p = call[t].op)
           /\ \A u \in Threads, p \in Ops :
                /\ u # t => (served(u, p)' <=> served(u, p))
                /\ eligible(u, p)' <=> eligible(u, p) /\ u # t
<1> DEFINE c  == k.current
           k1 == wake_waiter(k, t)
<1>0. /\ IInv /\ WaitsExact(k) /\ Live(k) /\ c \in Threads /\ k \in KernelType
      /\ slice \in SliceSettings /\ "PENDING" \notin k.state[c]
      /\ \A v \in WaitQs \ {w} : Waiters(k, v) = {}
      /\ call \in [Threads -> [op : Ops \cup {"none"}]]
      /\ \A u \in Threads :
            "PENDING" \in k.state[u] => call[u].op # "none" /\ k.rv[u] = "EAGAIN"
  BY CurrentRuns DEF ObjWaits, IInv, TypeOK
<1>1. t \in Waiters(k, w) /\ t \in Threads /\ ~TimedOut(k, t)
  BY <1>0, FirstWaiter
<1>2. t \in Pending(k) /\ "PENDING" \in k.state[t]
  BY <1>0, <1>1 DEF WaitsExact, Pending
<1>3. k.to[t] # "EXPIRED"
  BY <1>1 DEF TimedOut, ObjWaits, ClockInv
<1>4. call[t].op \in Ops /\ k.rv[t] = "EAGAIN" /\ t # c
  BY <1>0, <1>1, <1>2
<1>5. /\ Live(k1) /\ WaitsExact(k1)
      /\ \A v \in WaitQs : Waiters(k1, v) = Waiters(k, v) \ {t}
      /\ k1.current = k.current /\ k1.handling = k.handling
      /\ k1.rv[t] = "0" /\ k1.to[t] = "INACTIVE"
      /\ k1.state[t] = (k.state[t] \ {"PENDING"}) \ {"PRESTART"}
      /\ \A u \in Threads \ {t} : /\ k1.state[u] = k.state[u]
                                  /\ k1.to[u] = k.to[u]
                                  /\ k1.rv[u] = k.rv[u]
  BY <1>0, <1>2, WakeLive
<1> HIDE DEF k1
<1>6. k1 \in KernelType
  BY <1>5 DEF Live, Good, Holds
<1>7. /\ Switched(k1, k') /\ IInv' /\ (k'.rv = k1.rv \/ call[c].op = "none")
  <2>1. CASE inThread
    <3>1. k' = reschedule_threads(k1) /\ InThread /\ call[c] = NoCall
      BY <2>1 DEF switch_unless_isr, Caller, k1
    <3>2. Live(k') /\ Settled(k')
      BY <1>5, <3>1, RescheduleSettled
    <3>3. IInv'
      BY <1>0, <3>2, CallStays
    <3> QED BY <1>6, <3>1, <3>3, RescheduleSwitched DEF NoCall
  <2>2. CASE ~inThread
    <3>1. k' = k1 /\ isr # <<>>
      BY <2>2 DEF switch_unless_isr, Caller, k1, Active
    <3>2. Switched(k1, k')
      BY <3>1 DEF Switched
    <3>3. IInv'
      BY <1>0, <1>5, <3>1, IsrStays DEF IInv, TypeOK
    <3> QED BY <3>1, <3>2, <3>3
  <2> QED BY <2>1, <2>2
<1>8. /\ k'.state = k1.state /\ k'.to = k1.to /\ k'.wq = k1.wq
      /\ k'.handling = k1.handling /\ k'.rv[t] = "0"
      /\ \A u \in Threads \ {c} : k'.rv[u] = k1.rv[u]
      /\ k'.rv[c] = k1.rv[c] \/ call[c].op = "none"
  BY <1>0, <1>1, <1>4, <1>5, <1>7 DEF Switched
<1>9. WaitsExact(k') /\ \A v \in WaitQs : Waiters(k', v) = Waiters(k1, v)
  BY <1>5, <1>8, WaitsFrame
<1>10. \A v \in WaitQs \ {w} : Waiters(k', v) = {}
  BY <1>0, <1>5, <1>9
<1>11. ClockInv'
  BY <1>5, <1>8 DEF ObjWaits, ClockInv
<1>12. "PENDING" \notin k'.state[t] /\ \A u \in Threads \ {t} : k'.state[u] = k.state[u]
  BY <1>5, <1>8
<1>13. \A u \in Threads :
            "PENDING" \in k'.state[u] => call'[u].op # "none" /\ k'.rv[u] = "EAGAIN"
  BY <1>0, <1>5, <1>8, <1>12
<1>14. ObjWaits(w, Ops)'
  BY <1>0, <1>7, <1>9, <1>10, <1>11, <1>13 DEF ObjWaits
<1>15. eligible(t, call[t].op) /\ \A p \in Ops : ~served(t, p)
  BY <1>2, <1>3 DEF eligible, waits_in, served
<1>16. \A p \in Ops : served(t, p)' <=> p = call[t].op
  BY <1>8, <1>12 DEF served
<1>17. ASSUME NEW u \in Threads, NEW p \in Ops
       PROVE  /\ u # t => (served(u, p)' <=> served(u, p))
              /\ eligible(u, p)' <=> eligible(u, p) /\ u # t
  <2>1. CASE u = t
    BY <1>12, <2>1 DEF eligible, waits_in
  <2>2. CASE u # t
    <3>1. eligible(u, p)' <=> eligible(u, p)
      BY <1>5, <1>8, <1>12, <2>2 DEF eligible, waits_in
    <3>2. k'.rv[u] = k.rv[u] \/ call[u].op = "none"
      BY <1>5, <1>8, <2>2
    <3>3. served(u, p)' <=> served(u, p)
      BY <1>12, <2>2, <3>2 DEF served
    <3> QED BY <2>2, <3>1, <3>3
  <2> QED BY <2>1, <2>2
<1> QED BY <1>1, <1>4, <1>14, <1>15, <1>16, <1>17

\* a step that leaves the scheduler and the calls alone
LEMMA FrameStays ==
    ASSUME NEW w \in WaitQs, NEW Ops, ObjWaits(w, Ops), call' = call,
           k' = k, isr' = isr, clk' = clk, slice' = slice
    PROVE  ObjWaits(w, Ops)' /\ Bystander(Ops)
<1>1. ObjWaits(w, Ops)'
  BY DEF ObjWaits, IInv, TypeOK, ClockInv
<1>2. k.current \in Threads
  BY CurrentRuns DEF ObjWaits
<1> QED BY <1>1, <1>2 DEF Bystander, served, eligible, waits_in

(***************************************************************************)
(* Who has an item.  The object keeps the items of Free; every other item  *)
(* is held by one thread or interrupt or is on its way to one waiter that  *)
(* was served in the call o.  Nobody waits while an item is free.          *)
(***************************************************************************)
Holders == Threads \cup {Isr}
OnItsWay(t, o, x) == served(t, o) /\ data[t] = x

OwnTypes(Free) ==
    /\ data \in [Threads -> Items \cup {Nil}]
    /\ held \in [Holders -> SUBSET Items]
    /\ Free \in SUBSET Items
SomePlace(Free, o) ==
    \A x \in Items : \/ x \in Free
                     \/ \E p \in Holders : x \in held[p]
                     \/ \E t \in Threads : OnItsWay(t, o, x)
FreeOnly(Free, o) ==
    \A x \in Free : /\ \A p \in Holders : x \notin held[p]
                    /\ \A t \in Threads : ~OnItsWay(t, o, x)
HeldOnly(o) ==
    \A p \in Holders, t \in Threads : \A x \in held[p] : ~OnItsWay(t, o, x)
OneHolder == \A p, q \in Holders : \A x \in held[p] : x \in held[q] => p = q
OneWaiter(o) ==
    \A t, u \in Threads : served(t, o) /\ served(u, o) /\ data[t] = data[u] => t = u
ServedSomething(o) == \A t \in Threads : served(t, o) => data[t] \in Items
NoneInVain(Free, o) == Free # {} => \A t \in Threads : ~eligible(t, o)

OwnInv(Free, o) ==
    /\ OwnTypes(Free) /\ SomePlace(Free, o)
    /\ FreeOnly(Free, o) /\ HeldOnly(o) /\ OneHolder /\ OneWaiter(o)
    /\ ServedSomething(o) /\ NoneInVain(Free, o)

\* nothing moves
LEMMA OwnSame ==
    ASSUME NEW o, NEW F, OwnInv(F, o), NEW F2,
           F2 = F, data' = data, held' = held,
           \A t \in Threads : (served(t, o)' <=> served(t, o)),
           F = {} \/ \A t \in Threads : eligible(t, o)' => eligible(t, o)
    PROVE  OwnInv(F2, o)'
<1>1. /\ data \in [Threads -> Items \cup {Nil}] /\ held \in [Holders -> SUBSET Items]
      /\ F \in SUBSET Items
      /\ \A x \in Items : \/ x \in F
                          \/ \E p \in Holders : x \in held[p]
                          \/ \E t \in Threads : served(t, o) /\ data[t] = x
      /\ \A x \in F : /\ \A p \in Holders : x \notin held[p]
                      /\ \A t \in Threads : ~(served(t, o) /\ data[t] = x)
      /\ \A p \in Holders, t \in Threads : \A x \in held[p] : ~(served(t, o) /\ data[t] = x)
      /\ \A p, q \in Holders : \A x \in held[p] : x \in held[q] => p = q
      /\ \A t, u \in Threads : served(t, o) /\ served(u, o) /\ data[t] = data[u] => t = u
      /\ \A t \in Threads : served(t, o) => data[t] \in Items
      /\ F # {} => \A t \in Threads : ~eligible(t, o)
  BY DEF OwnInv, OwnTypes, SomePlace, FreeOnly, HeldOnly, OneHolder, OneWaiter,
         ServedSomething, NoneInVain, OnItsWay
<1>2. OwnTypes(F2)'
  BY <1>1 DEF OwnTypes
<1>3. SomePlace(F2, o)'
  BY <1>1 DEF SomePlace, OnItsWay
<1>4. FreeOnly(F2, o)'
  BY <1>1 DEF FreeOnly, OnItsWay
<1>5. HeldOnly(o)'
  BY <1>1 DEF HeldOnly, OnItsWay
<1>6. OneHolder'
  BY <1>1 DEF OneHolder
<1>7. OneWaiter(o)'
  BY <1>1 DEF OneWaiter
<1>8. ServedSomething(o)'
  BY <1>1 DEF ServedSomething
<1>9. NoneInVain(F2, o)'
  BY <1>1 DEF NoneInVain
<1> QED BY ONLY <1>2, <1>3, <1>4, <1>5, <1>6, <1>7, <1>8, <1>9 DEF OwnInv

\* a free item y is given to q
LEMMA OwnTake ==
    ASSUME NEW o, NEW F, OwnInv(F, o), NEW F2,
           NEW y \in F, F2 = F \ {y}, data' = data,
           NEW q \in Holders, held' = [held EXCEPT ![q] = @ \cup {y}],
           \A t \in Threads : (served(t, o)' <=> served(t, o)),
           \A t \in Threads : eligible(t, o)' => eligible(t, o)
    PROVE  OwnInv(F2, o)'
<1>1. /\ data \in [Threads -> Items \cup {Nil}] /\ held \in [Holders -> SUBSET Items]
      /\ F \in SUBSET Items
      /\ \A x \in Items : \/ x \in F
                          \/ \E p \in Holders : x \in held[p]
                          \/ \E t \in Threads : served(t, o) /\ data[t] = x
      /\ \A x \in F : /\ \A p \in Holders : x \notin held[p]
                      /\ \A t \in Threads : ~(served(t, o) /\ data[t] = x)
      /\ \A p \in Holders, t \in Threads : \A x \in held[p] : ~(served(t, o) /\ data[t] = x)
      /\ \A p, r \in Holders : \A x \in held[p] : x \in held[r] => p = r
      /\ \A t, u \in Threads : served(t, o) /\ served(u, o) /\ data[t] = data[u] => t = u
      /\ \A t \in Threads : served(t, o) => data[t] \in Items
      /\ F # {} => \A t \in Threads : ~eligible(t, o)
  BY DEF OwnInv, OwnTypes, SomePlace, FreeOnly, HeldOnly, OneHolder, OneWaiter,
         ServedSomething, NoneInVain, OnItsWay
<1>2. \A p \in Holders : held'[p] = IF p = q THEN held[p] \cup {y} ELSE held[p]
  BY <1>1
<1>3. held' \in [Holders -> SUBSET Items] /\ y \in Items
  BY <1>1
<1>4. OwnTypes(F2)'
  BY <1>1, <1>2, <1>3 DEF OwnTypes
<1>5. SomePlace(F2, o)'
  BY <1>1, <1>2, <1>3 DEF SomePlace, OnItsWay
<1>6. FreeOnly(F2, o)'
  BY <1>1, <1>2, <1>3 DEF FreeOnly, OnItsWay
<1>7. HeldOnly(o)'
  BY <1>1, <1>2, <1>3 DEF HeldOnly, OnItsWay
<1>8. OneHolder'
  BY <1>1, <1>2, <1>3 DEF OneHolder
<1>9. OneWaiter(o)'
  BY <1>1, <1>2, <1>3 DEF OneWaiter
<1>10. ServedSomething(o)'
  BY <1>1, <1>2, <1>3 DEF ServedSomething
<1>11. NoneInVain(F2, o)'
  BY <1>1, <1>2, <1>3 DEF NoneInVain
<1> QED BY ONLY <1>4, <1>5, <1>6, <1>7, <1>8, <1>9, <1>10, <1>11 DEF OwnInv

\* q puts its item y back, and nobody waits for it
LEMMA OwnPut ==
    ASSUME NEW o, NEW F, OwnInv(F, o), NEW F2,
           NEW q \in Holders, NEW y \in held[q], F2 = F \cup {y}, data' = data,
           held' = [held EXCEPT ![q] = @ \ {y}],
           \A t \in Threads : (served(t, o)' <=> served(t, o)),
           \A t \in Threads : ~eligible(t, o)'
    PROVE  OwnInv(F2, o)'
<1>1. /\ data \in [Threads -> Items \cup {Nil}] /\ held \in [Holders -> SUBSET Items]
      /\ F \in SUBSET Items
      /\ \A x \in Items : \/ x \in F
                          \/ \E p \in Holders : x \in held[p]
                          \/ \E t \in Threads : served(t, o) /\ data[t] = x
      /\ \A x \in F : /\ \A p \in Holders : x \notin held[p]
                      /\ \A t \in Threads : ~(served(t, o) /\ data[t] = x)
      /\ \A p \in Holders, t \in Threads : \A x \in held[p] : ~(served(t, o) /\ data[t] = x)
      /\ \A p, r \in Holders : \A x \in held[p] : x \in held[r] => p = r
      /\ \A t, u \in Threads : served(t, o) /\ served(u, o) /\ data[t] = data[u] => t = u
      /\ \A t \in Threads : served(t, o) => data[t] \in Items
      /\ F # {} => \A t \in Threads : ~eligible(t, o)
  BY DEF OwnInv, OwnTypes, SomePlace, FreeOnly, HeldOnly, OneHolder, OneWaiter,
         ServedSomething, NoneInVain, OnItsWay
<1>2. \A p \in Holders : held'[p] = IF p = q THEN held[p] \ {y} ELSE held[p]
  BY <1>1
<1>3. held' \in [Holders -> SUBSET Items] /\ y \in Items
  BY <1>1
<1>4. OwnTypes(F2)'
  BY <1>1, <1>2, <1>3 DEF OwnTypes
<1>5. SomePlace(F2, o)'
  BY <1>1, <1>2, <1>3 DEF SomePlace, OnItsWay
<1>6. FreeOnly(F2, o)'
  BY <1>1, <1>2, <1>3 DEF FreeOnly, OnItsWay
<1>7. HeldOnly(o)'
  BY <1>1, <1>2, <1>3 DEF HeldOnly, OnItsWay
<1>8. OneHolder'
  BY <1>1, <1>2, <1>3 DEF OneHolder
<1>9. OneWaiter(o)'
  BY <1>1, <1>2, <1>3 DEF OneWaiter
<1>10. ServedSomething(o)'
  BY <1>1, <1>2, <1>3 DEF ServedSomething
<1>11. NoneInVain(F2, o)'
  BY <1>1, <1>2, <1>3 DEF NoneInVain
<1> QED BY ONLY <1>4, <1>5, <1>6, <1>7, <1>8, <1>9, <1>10, <1>11 DEF OwnInv

\* q hands its item y to the waiter v
LEMMA OwnGive ==
    ASSUME NEW o, NEW F, OwnInv(F, o), NEW F2,
           NEW q \in Holders, NEW y \in held[q], F2 = F,
           held' = [held EXCEPT ![q] = @ \ {y}],
           NEW v \in Threads, data' = [data EXCEPT ![v] = y], ~served(v, o),
           \A t \in Threads : served(t, o)' <=> (served(t, o) \/ t = v),
           \A t \in Threads : eligible(t, o)' => eligible(t, o)
    PROVE  OwnInv(F2, o)'
<1>1. /\ data \in [Threads -> Items \cup {Nil}] /\ held \in [Holders -> SUBSET Items]
      /\ F \in SUBSET Items
      /\ \A x \in Items : \/ x \in F
                          \/ \E p \in Holders : x \in held[p]
                          \/ \E t \in Threads : served(t, o) /\ data[t] = x
      /\ \A x \in F : /\ \A p \in Holders : x \notin held[p]
                      /\ \A t \in Threads : ~(served(t, o) /\ data[t] = x)
      /\ \A p \in Holders, t \in Threads : \A x \in held[p] : ~(served(t, o) /\ data[t] = x)
      /\ \A p, r \in Holders : \A x \in held[p] : x \in held[r] => p = r
      /\ \A t, u \in Threads : served(t, o) /\ served(u, o) /\ data[t] = data[u] => t = u
      /\ \A t \in Threads : served(t, o) => data[t] \in Items
      /\ F # {} => \A t \in Threads : ~eligible(t, o)
  BY DEF OwnInv, OwnTypes, SomePlace, FreeOnly, HeldOnly, OneHolder, OneWaiter,
         ServedSomething, NoneInVain, OnItsWay
<1>2. \A p \in Holders : held'[p] = IF p = q THEN held[p] \ {y} ELSE held[p]
  BY <1>1
<1>3. held' \in [Holders -> SUBSET Items] /\ y \in Items
  BY <1>1
<1>4. data' \in [Threads -> Items \cup {Nil}] /\ data'[v] = y
      /\ \A t \in Threads \ {v} : data'[t] = data[t]
  BY <1>1, <1>3
<1>5. OwnTypes(F2)'
  BY <1>1, <1>2, <1>3, <1>4 DEF OwnTypes
<1>6. SomePlace(F2, o)'
  BY <1>1, <1>2, <1>3, <1>4 DEF SomePlace, OnItsWay
<1>7. FreeOnly(F2, o)'
  BY <1>1, <1>2, <1>3, <1>4 DEF FreeOnly, OnItsWay
<1>8. HeldOnly(o)'
  BY <1>1, <1>2, <1>3, <1>4 DEF HeldOnly, OnItsWay
<1>9. OneHolder'
  BY <1>1, <1>2, <1>3, <1>4 DEF OneHolder
<1>10. OneWaiter(o)'
  BY <1>1, <1>2, <1>3, <1>4 DEF OneWaiter
<1>11. ServedSomething(o)'
  BY <1>1, <1>2, <1>3, <1>4 DEF ServedSomething
<1>12. NoneInVain(F2, o)'
  BY <1>1, <1>2, <1>3, <1>4 DEF NoneInVain
<1> QED BY ONLY <1>5, <1>6, <1>7, <1>8, <1>9, <1>10, <1>11, <1>12 DEF OwnInv

\* the call of v ends, with the item it was handed if it was served
LEMMA OwnReturn ==
    ASSUME NEW o, NEW F, OwnInv(F, o), NEW F2,
           NEW v \in Threads, F2 = F, data' = [data EXCEPT ![v] = Nil],
           held' = [held EXCEPT ![v] = IF served(v, o) THEN @ \cup {data[v]} ELSE @],
           \A t \in Threads : served(t, o)' <=> (served(t, o) /\ t # v),
           \A t \in Threads : eligible(t, o)' => eligible(t, o)
    PROVE  OwnInv(F2, o)'
<1>1. /\ data \in [Threads -> Items \cup {Nil}] /\ held \in [Holders -> SUBSET Items]
      /\ F \in SUBSET Items
      /\ \A x \in Items : \/ x \in F
                          \/ \E p \in Holders : x \in held[p]
                          \/ \E t \in Threads : served(t, o) /\ data[t] = x
      /\ \A x \in F : /\ \A p \in Holders : x \notin held[p]
                      /\ \A t \in Threads : ~(served(t, o) /\ data[t] = x)
      /\ \A p \in Holders, t \in Threads : \A x \in held[p] : ~(served(t, o) /\ data[t] = x)
      /\ \A p, q \in Holders : \A x \in held[p] : x \in held[q] => p = q
      /\ \A t, u \in Threads : served(t, o) /\ served(u, o) /\ data[t] = data[u] => t = u
      /\ \A t \in Threads : served(t, o) => data[t] \in Items
      /\ F # {} => \A t \in Threads : ~eligible(t, o)
  BY DEF OwnInv, OwnTypes, SomePlace, FreeOnly, HeldOnly, OneHolder, OneWaiter,
         ServedSomething, NoneInVain, OnItsWay
<1>2. v \in Holders /\ \A p \in Holders : held'[p] = IF p = v /\ served(v, o)
                                                 THEN held[p] \cup {data[v]} ELSE held[p]
  BY <1>1 DEF Holders
<1>3. held' \in [Holders -> SUBSET Items]
  BY <1>1, <1>2
<1>4. data' \in [Threads -> Items \cup {Nil}] /\ data'[v] = Nil
      /\ \A t \in Threads \ {v} : data'[t] = data[t]
  BY <1>1
<1>5. OwnTypes(F2)'
  BY <1>1, <1>2, <1>3, <1>4 DEF OwnTypes
<1>6. SomePlace(F2, o)'
  BY <1>1, <1>2, <1>3, <1>4 DEF SomePlace, OnItsWay
<1>7. FreeOnly(F2, o)'
  BY <1>1, <1>2, <1>3, <1>4 DEF FreeOnly, OnItsWay
<1>8. HeldOnly(o)'
  BY <1>1, <1>2, <1>3, <1>4 DEF HeldOnly, OnItsWay
<1>9. OneHolder'
  BY <1>1, <1>2, <1>3, <1>4 DEF OneHolder
<1>10. OneWaiter(o)'
  BY <1>1, <1>2, <1>3, <1>4 DEF OneWaiter
<1>11. ServedSomething(o)'
  BY <1>1, <1>2, <1>3, <1>4 DEF ServedSomething
<1>12. NoneInVain(F2, o)'
  BY <1>1, <1>2, <1>3, <1>4 DEF NoneInVain
<1> QED BY ONLY <1>5, <1>6, <1>7, <1>8, <1>9, <1>10, <1>11, <1>12 DEF OwnInv

\* q passes its item y to r
LEMMA OwnPass ==
    ASSUME NEW o, NEW F, OwnInv(F, o), NEW F2,
           NEW q \in Holders, NEW y \in held[q], NEW r \in Holders, F2 = F, data' = data,
           held' = [held EXCEPT ![q] = @ \ {y}, ![r] = @ \cup {y}],
           \A t \in Threads : (served(t, o)' <=> served(t, o)),
           \A t \in Threads : eligible(t, o)' => eligible(t, o)
    PROVE  OwnInv(F2, o)'
<1>1. /\ data \in [Threads -> Items \cup {Nil}] /\ held \in [Holders -> SUBSET Items]
      /\ F \in SUBSET Items
      /\ \A x \in Items : \/ x \in F
                          \/ \E p \in Holders : x \in held[p]
                          \/ \E t \in Threads : served(t, o) /\ data[t] = x
      /\ \A x \in F : /\ \A p \in Holders : x \notin held[p]
                      /\ \A t \in Threads : ~(served(t, o) /\ data[t] = x)
      /\ \A p \in Holders, t \in Threads : \A x \in held[p] : ~(served(t, o) /\ data[t] = x)
      /\ \A p, h \in Holders : \A x \in held[p] : x \in held[h] => p = h
      /\ \A t, u \in Threads : served(t, o) /\ served(u, o) /\ data[t] = data[u] => t = u
      /\ \A t \in Threads : served(t, o) => data[t] \in Items
      /\ F # {} => \A t \in Threads : ~eligible(t, o)
  BY DEF OwnInv, OwnTypes, SomePlace, FreeOnly, HeldOnly, OneHolder, OneWaiter,
         ServedSomething, NoneInVain, OnItsWay
<1>2. \A p \in Holders : held'[p] = IF p = r THEN held[p] \cup {y}
                                  ELSE IF p = q THEN held[p] \ {y} ELSE held[p]
  BY <1>1
<1>3. held' \in [Holders -> SUBSET Items] /\ y \in Items
  BY <1>1
<1>4. OwnTypes(F2)'
  BY <1>1, <1>2, <1>3 DEF OwnTypes
<1>5. SomePlace(F2, o)'
  BY <1>1, <1>2, <1>3 DEF SomePlace, OnItsWay
<1>6. FreeOnly(F2, o)'
  BY <1>1, <1>2, <1>3 DEF FreeOnly, OnItsWay
<1>7. HeldOnly(o)'
  BY <1>1, <1>2, <1>3 DEF HeldOnly, OnItsWay
<1>8. OneHolder'
  BY <1>1, <1>2, <1>3 DEF OneHolder
<1>9. OneWaiter(o)'
  BY <1>1, <1>2, <1>3 DEF OneWaiter
<1>10. ServedSomething(o)'
  BY <1>1, <1>2, <1>3 DEF ServedSomething
<1>11. NoneInVain(F2, o)'
  BY <1>1, <1>2, <1>3 DEF NoneInVain
<1> QED BY ONLY <1>4, <1>5, <1>6, <1>7, <1>8, <1>9, <1>10, <1>11 DEF OwnInv

(***************************************************************************)
(* Stacks.                                                                 *)
(***************************************************************************)
Pop == "stack_pop"
StackInv ==
    /\ ObjWaits(StackWaitQ, {Pop})
    /\ \E F \in SUBSET Items : Lists(stack, F) /\ OwnInv(F, Pop)

\* a list without its last element
LEMMA ListsFront ==
    ASSUME NEW S, NEW s, Lists(s, S), s # <<>>
    PROVE  Last(s) \in S /\ Lists(Front(s), S \ {Last(s)})
<1> DEFINE n == Len(s)
           r == Front(s)
<1>1. /\ s \in Seq(S) /\ n \in Nat /\ n > 0 /\ \A i \in 1..n : s[i] \in S
      /\ \A i, j \in 1..n : s[i] = s[j] => i = j
      /\ \A e \in S : \E i \in 1..n : s[i] = e
  BY EmptySeq DEF Lists
<1>2. Last(s) = s[n] /\ n \in 1..n
  BY <1>1 DEF Last
<1>3. /\ r \in Seq(S) /\ Len(r) = n - 1 /\ \A i \in 1..(n - 1) : r[i] = s[i]
  <2> DEFINE m == n - 1
  <2>1. m \in Int /\ 1 \in Int /\ \A i \in 1..m : s[i] \in S
    BY <1>1
  <2>2. r = SubSeq(s, 1, m)
    BY DEF Front
  <2> HIDE DEF r, m
  <2>3. /\ r \in Seq(S) /\ Len(r) = IF 1 <= m THEN m - 1 + 1 ELSE 0
        /\ \A i \in 1..(m - 1 + 1) : r[i] = s[1 + i - 1]
    BY ONLY <2>1, <2>2, SubSeqProperties
  <2>4. m >= 0
    BY <1>1 DEF m
  <2>5. Len(r) = m /\ \A i \in 1..m : r[i] = s[i]
    BY ONLY <2>1, <2>3, <2>4
  <2> QED BY <2>3, <2>5 DEF m
<1> HIDE DEF r, n
<1>4. \A i \in 1..(n - 1) : i \in 1..n /\ i # n
  BY <1>1
<1>5. \A i \in 1..Len(r) : r[i] \in S \ {s[n]}
  BY <1>1, <1>2, <1>3, <1>4
<1>6. r \in Seq(S \ {s[n]})
  BY <1>3, <1>5
<1>7. \A i, j \in 1..Len(r) : r[i] = r[j] => i = j
  BY <1>1, <1>3, <1>4
<1>8. ASSUME NEW e \in S \ {s[n]} PROVE \E i \in 1..Len(r) : r[i] = e
  <2>1. PICK i \in 1..n : s[i] = e
    BY <1>1
  <2>2. i \in 1..(n - 1)
    BY <1>1, <2>1
  <2> QED BY <1>3, <2>1, <2>2
<1> QED BY <1>1, <1>2, <1>6, <1>7, <1>8 DEF Lists, r

\* the holder an item comes from or goes to
LEMMA SelfHolds ==
    ASSUME IInv, NEW inThread \in BOOLEAN
    PROVE  Self(inThread) \in Holders
BY CurrentRuns DEF Self, Holders

\* k_stack_push() stores the word or hands it over
LEMMA PushStays ==
    ASSUME StackInv, NEW inThread \in BOOLEAN, NEW x \in Items,
           k_stack_push(inThread, x)
    PROVE  StackInv'
<1> DEFINE t == find_first_thread_to_unpend(k, StackWaitQ)
<1>0. ObjWaits(StackWaitQ, {Pop}) /\ StackWaitQ \in WaitQs /\ "none" \notin {Pop}
  BY StackAssumption DEF StackInv, Pop
<1>1. PICK F \in SUBSET Items : Lists(stack, F) /\ OwnInv(F, Pop)
  BY DEF StackInv
<1>2. PICK q : q = Self(inThread)
  OBVIOUS
<1>3. /\ Caller(inThread) /\ q \in Holders /\ x \in held[q]
      /\ held' = [held EXCEPT ![q] = @ \ {x}]
      /\ isr' = isr /\ clk' = clk /\ slice' = slice /\ call' = call
  BY <1>0, <1>2, SelfHolds DEF k_stack_push, stackFrame, ObjWaits
<1>4. CASE t # NoThread
  <2>1. PICK v : v = t
    OBVIOUS
  <2>2. /\ k' = switch_unless_isr(wake_waiter(k, v), inThread)
        /\ data' = [data EXCEPT ![v] = x] /\ stack' = stack
        /\ v = find_first_thread_to_unpend(k, StackWaitQ) /\ v # NoThread
    BY <1>4, <2>1 DEF k_stack_push
  <2>3. /\ ObjWaits(StackWaitQ, {Pop})' /\ v \in Threads
        /\ ~served(v, Pop) /\ served(v, Pop)'
        /\ \A u \in Threads : /\ u # v => (served(u, Pop)' <=> served(u, Pop))
                              /\ eligible(u, Pop)' => eligible(u, Pop)
    <3>1. /\ ObjWaits(StackWaitQ, {Pop})'
          /\ v \in Threads /\ call[v].op \in {Pop}
          /\ \A p \in {Pop} : ~served(v, p) /\ (served(v, p)' <=> p = call[v].op)
          /\ \A u \in Threads, p \in {Pop} :
                /\ u # v => (served(u, p)' <=> served(u, p))
                /\ eligible(u, p)' <=> eligible(u, p) /\ u # v
      BY ONLY <1>0, <1>3, <2>2, inThread \in BOOLEAN, WakeStays
    <3> QED BY ONLY <3>1
  <2>4. OwnInv(F, Pop)'
    BY <1>1, <1>3, <2>2, <2>3, OwnGive
  <2> QED BY <1>1, <2>2, <2>3, <2>4 DEF StackInv
<1>5. CASE t = NoThread
  <2>1. k' = k /\ data' = data /\ stack' = Append(stack, x)
    BY <1>5 DEF k_stack_push
  <2>2. ObjWaits(StackWaitQ, {Pop})' /\ Bystander({Pop})
    BY <1>0, <1>3, <2>1, FrameStays
  <2>3. \A u \in Threads : ~eligible(u, Pop)
    BY <1>0, <1>5, NobodyWaits
  <2>4. PICK F2 : F2 = F \cup {x}
    OBVIOUS
  <2>5. OwnInv(F2, Pop)'
    BY <1>1, <1>3, <2>1, <2>2, <2>3, <2>4, OwnPut DEF Bystander
  <2>6. x \notin F
    BY <1>1, <1>3 DEF OwnInv, FreeOnly
  <2>7. Lists(stack', F2)
    BY <1>1, <2>1, <2>4, <2>6, ListsEnds
  <2>8. F2 \in SUBSET Items
    BY <2>4
  <2> QED BY <2>2, <2>5, <2>7, <2>8 DEF StackInv
<1> QED BY <1>4, <1>5

\* k_stack_pop(), with a word there or without, and its return
LEMMA PopStays ==
    ASSUME StackInv,
           \/ \E inThread \in BOOLEAN : k_stack_pop(inThread)
           \/ \E timeout \in Patience[k.current] : k_stack_pop_wait(timeout)
           \/ k_stack_pop_return
    PROVE  StackInv'
<1>0. /\ ObjWaits(StackWaitQ, {Pop}) /\ StackWaitQ \in WaitQs /\ "none" \notin {Pop}
      /\ Pop \in {Pop}
  BY StackAssumption DEF StackInv, Pop
<1>1. PICK F \in SUBSET Items : Lists(stack, F) /\ OwnInv(F, Pop)
  BY DEF StackInv
<1>2. ASSUME NEW inThread \in BOOLEAN, k_stack_pop(inThread) PROVE StackInv'
  <2>1. PICK q, y, F2 : q = Self(inThread) /\ y = Last(stack) /\ F2 = F \ {y}
    OBVIOUS
  <2>2. /\ stack # <<>> /\ stack' = Front(stack) /\ q \in Holders
        /\ held' = [held EXCEPT ![q] = @ \cup {y}]
        /\ k' = k /\ isr' = isr /\ clk' = clk /\ slice' = slice
        /\ call' = call /\ data' = data
    BY <1>0, <1>2, <2>1, SelfHolds DEF k_stack_pop, stackFrame, ObjWaits
  <2>3. ObjWaits(StackWaitQ, {Pop})' /\ Bystander({Pop})
    BY <1>0, <2>2, FrameStays
  <2>4. y \in F /\ Lists(stack', F2)
    BY <1>1, <2>1, <2>2, ListsFront
  <2>5. OwnInv(F2, Pop)'
    BY <1>1, <2>1, <2>2, <2>3, <2>4, OwnTake DEF Bystander
  <2>6. F2 \in SUBSET Items
    BY <2>1
  <2> QED BY <2>3, <2>4, <2>5, <2>6 DEF StackInv
<1>3. ASSUME NEW timeout \in Patience[k.current], k_stack_pop_wait(timeout)
      PROVE  StackInv'
  <2>0. PICK r : r = [op |-> Pop]
    OBVIOUS
  <2>1. /\ InThread /\ call[k.current] = NoCall /\ stack = <<>> /\ stack' = stack
        /\ Block(StackWaitQ, timeout, r) /\ held' = held /\ data' = data
    BY <1>3, <2>0 DEF k_stack_pop_wait, Pop, Caller
  <2>2. timeout \in {"TIMED", "FOREVER"}
    <3>1. k.current \in Threads
      BY <1>0, CurrentRuns DEF ObjWaits
    <3>2. Patience \in [Threads -> SUBSET {"TIMED", "FOREVER"}]
      BY ObjectsAssumption
    <3> QED BY <1>3, <3>1, <3>2
  <2>3. /\ ObjWaits(StackWaitQ, {Pop})'
        /\ \A t \in Threads, p \in {Pop} :
             /\ served(t, p)' <=> served(t, p)
             /\ eligible(t, p)' <=> eligible(t, p) \/ (t = k.current /\ p = Pop)
    BY ONLY <1>0, <2>0, <2>1, <2>2, BlockStays
  <2>4. F = {}
    <3>1. Len(stack) = 0 /\ 1..0 = {}
      BY <2>1
    <3> QED BY <1>1, <3>1 DEF Lists
  <2>5. OwnInv(F, Pop)'
    BY <1>1, <2>1, <2>3, <2>4, OwnSame
  <2> QED BY <1>1, <2>1, <2>3, <2>5 DEF StackInv
<1>4. CASE k_stack_pop_return
  <2>1. PICK c : c = k.current
    OBVIOUS
  <2>2. /\ Resumes(Pop) /\ Returns /\ stack' = stack
        /\ held' = [held EXCEPT ![c] =
                      IF k.rv[c] = "0" THEN @ \cup {data[c]} ELSE @]
        /\ data' = [data EXCEPT ![c] = Nil]
    BY <1>4, <2>1 DEF k_stack_pop_return, Pop, Returns
  <2>3. /\ ObjWaits(StackWaitQ, {Pop})' /\ c \in Threads
        /\ \A t \in Threads, p \in {Pop} :
             /\ served(t, p)' <=> served(t, p) /\ t # c
             /\ eligible(t, p)' <=> eligible(t, p)
        /\ \A p \in {Pop} : served(c, p) <=> p = Pop /\ k.rv[c] = "0"
    BY ONLY <1>0, <2>1, <2>2, ReturnStays
  <2>4. held' = [held EXCEPT ![c] = IF served(c, Pop) THEN @ \cup {data[c]} ELSE @]
    BY <2>2, <2>3
  <2>5. OwnInv(F, Pop)'
    BY <1>1, <2>2, <2>3, <2>4, OwnReturn
  <2> QED BY <1>1, <2>2, <2>3, <2>5 DEF StackInv
<1> QED BY <1>2, <1>3, <1>4

\* every step of a behaviour that exercises a stack
LEMMA StackStays ==
    ASSUME Port = "arm", StackInv, StackNext
    PROVE  StackInv'
<1>1. CASE Environment /\ UNCHANGED stack
  <2>0. /\ ObjWaits(StackWaitQ, {Pop}) /\ StackWaitQ \in WaitQs /\ "none" \notin {Pop}
    BY StackAssumption DEF StackInv, Pop
  <2>1. PICK F \in SUBSET Items : Lists(stack, F) /\ OwnInv(F, Pop)
    BY DEF StackInv
  <2>2. /\ ObjWaits(StackWaitQ, {Pop})' /\ Bystander({Pop})
        /\ data' = data /\ held' = held
    BY <1>1, <2>0, EnvironmentStays
  <2>3. OwnInv(F, Pop)'
    BY <2>1, <2>2, OwnSame DEF Bystander
  <2> QED BY <1>1, <2>1, <2>2, <2>3 DEF StackInv
<1> QED BY <1>1, PushStays, PopStays DEF StackNext

(***************************************************************************)
(* The start: the scheduler's invariant, and the waiters'.                 *)
(***************************************************************************)
LEMMA ObjectsStart == ObjectsInit => IInv
<1> SUFFICES ASSUME ObjectsInit PROVE IInv
  OBVIOUS
<1>1. k = Fresh /\ IsFiniteSet(Threads)
  BY ObjectsAssumption DEF ObjectsInit, Fresh
<1>2. k \in KernelType /\ Live(k) /\ Settled(k)
  BY <1>1, FreshGood
<1> QED BY <1>2 DEF IInv, TypeOK, ObjectsInit

\* nobody waits at the start
LEMMA InitWaits ==
    ASSUME ObjectsInit, call = [t \in Threads |-> NoCall], NEW w \in WaitQs, NEW Ops
    PROVE  /\ ObjWaits(w, Ops)
           /\ \A t \in Threads, o \in Ops : "none" # o => ~served(t, o) /\ ~eligible(t, o)
<1>1. /\ k.wq = [v \in WaitQs |-> <<>>] /\ k.state = [t \in Threads |-> {}]
      /\ k.to = [t \in AllTimeouts |-> "INACTIVE"] /\ clk = "off"
  BY DEF ObjectsInit
<1>2. \A t \in Threads : k.to[t] = "INACTIVE" /\ k.state[t] = {}
  BY <1>1 DEF AllTimeouts
<1>3. \A v \in WaitQs : k.wq[v] = <<>> /\ Waiters(k, v) = {} /\ IsInjective(k.wq[v])
  BY <1>1 DEF Waiters, ToSet, IsInjective
<1>4. Pending(k) = {}
  BY <1>2 DEF Pending
<1>5. WaitsExact(k)
  BY <1>3, <1>4 DEF WaitsExact
<1>6. ClockInv
  BY <1>1, <1>2 DEF ClockInv
<1>7. call \in [Threads -> [op : Ops \cup {"none"}]]
  BY DEF NoCall
<1>8. ObjWaits(w, Ops)
  BY <1>2, <1>3, <1>5, <1>6, <1>7, ObjectsStart DEF ObjWaits
<1> QED BY <1>2, <1>8 DEF served, eligible, waits_in, NoCall

(***************************************************************************)
(* Memory slabs: the same, and num_used counts.                            *)
(***************************************************************************)
Alloc == "slab_alloc"
SlabInv ==
    /\ ObjWaits(SlabWaitQ, {Alloc})
    /\ \E F \in SUBSET Items : Lists(slab.free, F) /\ OwnInv(F, Alloc)
    /\ slab.num_used = Cardinality(Items) - Len(slab.free)

\* taking the first block, or putting one first, changes the length by one
LEMMA FreeListLen ==
    ASSUME NEW S, NEW s, Lists(s, S)
    PROVE  /\ Len(s) \in Nat /\ Cardinality(Items) \in Nat
           /\ s # <<>> => Head(s) = s[1] /\ Head(s) \in S /\ Len(Tail(s)) = Len(s) - 1
           /\ \A x : Len(<<x>> \o s) = Len(s) + 1
<1>1. s \in Seq(S) /\ Len(s) \in Nat
  BY DEF Lists
<1>2. Cardinality(Items) \in Nat
  BY MemSlabAssumption, FS_CardinalityType
<1>3. s # <<>> => Head(s) = s[1] /\ Head(s) \in S /\ Len(Tail(s)) = Len(s) - 1
  BY <1>1, HeadTailProperties
<1>4. ASSUME NEW x PROVE Len(<<x>> \o s) = Len(s) + 1
  <2>1. <<x>> \in Seq(S \cup {x}) /\ s \in Seq(S \cup {x}) /\ Len(<<x>>) = 1
    BY <1>1
  <2> QED BY <1>1, <2>1, ConcatProperties
<1> QED BY <1>1, <1>2, <1>3, <1>4

\* k_mem_slab_free() links the block or hands it over
LEMMA FreeStays ==
    ASSUME SlabInv, NEW x \in Items, k_mem_slab_free(x)
    PROVE  SlabInv'
<1> DEFINE t == find_first_thread_to_unpend(k, SlabWaitQ)
<1>0. ObjWaits(SlabWaitQ, {Alloc}) /\ SlabWaitQ \in WaitQs /\ "none" \notin {Alloc}
  BY MemSlabAssumption DEF SlabInv, Alloc
<1>1. PICK F \in SUBSET Items : Lists(slab.free, F) /\ OwnInv(F, Alloc)
  BY DEF SlabInv
<1>2. PICK q, inThread : q = k.current /\ inThread = TRUE
  OBVIOUS
<1>3. /\ Caller(inThread) /\ inThread \in BOOLEAN /\ q \in Holders /\ x \in held[q]
      /\ held' = [held EXCEPT ![q] = @ \ {x}]
      /\ isr' = isr /\ clk' = clk /\ slice' = slice /\ call' = call
  BY <1>0, <1>2, CurrentRuns DEF k_mem_slab_free, slabFrame, ObjWaits, Holders
<1>4. slab.num_used = Cardinality(Items) - Len(slab.free)
  BY DEF SlabInv
<1>5. CASE t # NoThread
  <2>1. PICK v : v = t
    OBVIOUS
  <2>2. /\ k' = switch_unless_isr(wake_waiter(k, v), inThread)
        /\ data' = [data EXCEPT ![v] = x] /\ slab' = slab
        /\ v = find_first_thread_to_unpend(k, SlabWaitQ) /\ v # NoThread
    BY <1>2, <1>5, <2>1 DEF k_mem_slab_free, switch_unless_isr
  <2>3. /\ ObjWaits(SlabWaitQ, {Alloc})' /\ v \in Threads
        /\ ~served(v, Alloc) /\ served(v, Alloc)'
        /\ \A u \in Threads : /\ u # v => (served(u, Alloc)' <=> served(u, Alloc))
                              /\ eligible(u, Alloc)' => eligible(u, Alloc)
    <3>1. /\ ObjWaits(SlabWaitQ, {Alloc})'
          /\ v \in Threads /\ call[v].op \in {Alloc}
          /\ \A p \in {Alloc} : ~served(v, p) /\ (served(v, p)' <=> p = call[v].op)
          /\ \A u \in Threads, p \in {Alloc} :
                /\ u # v => (served(u, p)' <=> served(u, p))
                /\ eligible(u, p)' <=> eligible(u, p) /\ u # v
      BY ONLY <1>0, <1>3, <2>2, WakeStays
    <3> QED BY ONLY <3>1
  <2>4. OwnInv(F, Alloc)'
    BY <1>1, <1>3, <2>2, <2>3, OwnGive
  <2> QED BY <1>1, <1>4, <2>2, <2>3, <2>4 DEF SlabInv
<1>6. CASE t = NoThread
  <2>1. /\ k' = k /\ data' = data
        /\ slab' = [free |-> <<x>> \o slab.free, num_used |-> slab.num_used - 1]
    BY <1>6 DEF k_mem_slab_free
  <2>2. ObjWaits(SlabWaitQ, {Alloc})' /\ Bystander({Alloc})
    BY <1>0, <1>3, <2>1, FrameStays
  <2>3. \A u \in Threads : ~eligible(u, Alloc)
    BY <1>0, <1>6, NobodyWaits
  <2>4. PICK F2 : F2 = F \cup {x}
    OBVIOUS
  <2>5. OwnInv(F2, Alloc)'
    BY <1>1, <1>3, <2>1, <2>2, <2>3, <2>4, OwnPut DEF Bystander
  <2>6. x \notin F
    BY <1>1, <1>3 DEF OwnInv, FreeOnly
  <2>7. slab'.free = <<x>> \o slab.free /\ slab'.num_used = slab.num_used - 1
    BY <2>1
  <2>8. Lists(slab'.free, F2)
    <3>1. Lists(<<x>> \o slab.free, F \cup {x})
      BY ONLY <1>1, <2>6, ListsEnds
    <3>2. slab'.free = <<x>> \o slab.free
      BY <2>7
    <3> QED BY ONLY <2>4, <3>1, <3>2
  <2>9. slab'.num_used = Cardinality(Items) - Len(slab'.free)
    BY <1>1, <1>4, <2>7, FreeListLen
  <2>10. F2 \in SUBSET Items
    BY <2>4
  <2> QED BY <2>2, <2>5, <2>8, <2>9, <2>10 DEF SlabInv
<1> QED BY <1>5, <1>6

\* k_mem_slab_alloc(), with a block there or without, and its return
LEMMA AllocStays ==
    ASSUME SlabInv,
           \/ \E inThread \in BOOLEAN : k_mem_slab_alloc(inThread)
           \/ \E timeout \in Patience[k.current] : k_mem_slab_alloc_wait(timeout)
           \/ k_mem_slab_alloc_return
    PROVE  SlabInv'
<1>0. /\ ObjWaits(SlabWaitQ, {Alloc}) /\ SlabWaitQ \in WaitQs /\ "none" \notin {Alloc}
      /\ Alloc \in {Alloc}
  BY MemSlabAssumption DEF SlabInv, Alloc
<1>1. PICK F \in SUBSET Items : Lists(slab.free, F) /\ OwnInv(F, Alloc)
  BY DEF SlabInv
<1>2. slab.num_used = Cardinality(Items) - Len(slab.free)
  BY DEF SlabInv
<1>3. ASSUME NEW inThread \in BOOLEAN, k_mem_slab_alloc(inThread) PROVE SlabInv'
  <2>1. PICK q, y, F2 : q = Self(inThread) /\ y = Head(slab.free) /\ F2 = F \ {y}
    OBVIOUS
  <2>2. /\ slab.free # <<>> /\ q \in Holders
        /\ slab' = [free |-> Tail(slab.free), num_used |-> slab.num_used + 1]
        /\ held' = [held EXCEPT ![q] = @ \cup {y}]
        /\ k' = k /\ isr' = isr /\ clk' = clk /\ slice' = slice
        /\ call' = call /\ data' = data
    BY <1>0, <1>3, <2>1, SelfHolds DEF k_mem_slab_alloc, slabFrame, ObjWaits
  <2>3. ObjWaits(SlabWaitQ, {Alloc})' /\ Bystander({Alloc})
    BY <1>0, <2>2, FrameStays
  <2>4. slab'.free = Tail(slab.free) /\ slab'.num_used = slab.num_used + 1
    BY <2>2
  <2>5. y = slab.free[1] /\ y \in F
    BY <1>1, <2>1, <2>2, FreeListLen
  <2>6. Lists(slab'.free, F2)
    BY <1>1, <2>1, <2>2, <2>4, <2>5, ListsEnds
  <2>7. OwnInv(F2, Alloc)'
    BY <1>1, <2>1, <2>2, <2>3, <2>5, OwnTake DEF Bystander
  <2>8. slab'.num_used = Cardinality(Items) - Len(slab'.free)
    BY <1>1, <1>2, <2>2, <2>4, FreeListLen
  <2>9. F2 \in SUBSET Items
    BY <2>1
  <2> QED BY <2>3, <2>6, <2>7, <2>8, <2>9 DEF SlabInv
<1>4. ASSUME NEW timeout \in Patience[k.current], k_mem_slab_alloc_wait(timeout)
      PROVE  SlabInv'
  <2>0. PICK r : r = [op |-> Alloc]
    OBVIOUS
  <2>1. /\ InThread /\ call[k.current] = NoCall /\ slab.free = <<>> /\ slab' = slab
        /\ Block(SlabWaitQ, timeout, r) /\ held' = held /\ data' = data
    BY <1>4, <2>0 DEF k_mem_slab_alloc_wait, Alloc, Caller
  <2>2. timeout \in {"TIMED", "FOREVER"}
    <3>1. k.current \in Threads
      BY <1>0, CurrentRuns DEF ObjWaits
    <3>2. Patience \in [Threads -> SUBSET {"TIMED", "FOREVER"}]
      BY ObjectsAssumption
    <3> QED BY <1>4, <3>1, <3>2
  <2>3. /\ ObjWaits(SlabWaitQ, {Alloc})'
        /\ \A t \in Threads, p \in {Alloc} :
             /\ served(t, p)' <=> served(t, p)
             /\ eligible(t, p)' <=> eligible(t, p) \/ (t = k.current /\ p = Alloc)
    BY ONLY <1>0, <2>0, <2>1, <2>2, BlockStays
  <2>4. F = {}
    <3>1. Len(slab.free) = 0 /\ 1..0 = {}
      BY <2>1
    <3> QED BY <1>1, <3>1 DEF Lists
  <2>5. OwnInv(F, Alloc)'
    BY <1>1, <2>1, <2>3, <2>4, OwnSame
  <2> QED BY <1>1, <1>2, <2>1, <2>3, <2>5 DEF SlabInv
<1>5. CASE k_mem_slab_alloc_return
  <2>1. PICK c : c = k.current
    OBVIOUS
  <2>2. /\ Resumes(Alloc) /\ Returns /\ slab' = slab
        /\ held' = [held EXCEPT ![c] =
                      IF k.rv[c] = "0" THEN @ \cup {data[c]} ELSE @]
        /\ data' = [data EXCEPT ![c] = Nil]
    BY <1>5, <2>1 DEF k_mem_slab_alloc_return, Alloc, Returns
  <2>3. /\ ObjWaits(SlabWaitQ, {Alloc})' /\ c \in Threads
        /\ \A t \in Threads, p \in {Alloc} :
             /\ served(t, p)' <=> served(t, p) /\ t # c
             /\ eligible(t, p)' <=> eligible(t, p)
        /\ \A p \in {Alloc} : served(c, p) <=> p = Alloc /\ k.rv[c] = "0"
    BY ONLY <1>0, <2>1, <2>2, ReturnStays
  <2>4. held' = [held EXCEPT ![c] = IF served(c, Alloc) THEN @ \cup {data[c]} ELSE @]
    BY <2>2, <2>3
  <2>5. OwnInv(F, Alloc)'
    BY <1>1, <2>2, <2>3, <2>4, OwnReturn
  <2> QED BY <1>1, <1>2, <2>2, <2>3, <2>5 DEF SlabInv
<1> QED BY <1>3, <1>4, <1>5

\* every step of a behaviour that exercises a memory slab
LEMMA SlabStays ==
    ASSUME Port = "arm", SlabInv, MemSlabNext
    PROVE  SlabInv'
<1>0. /\ ObjWaits(SlabWaitQ, {Alloc}) /\ SlabWaitQ \in WaitQs /\ "none" \notin {Alloc}
      /\ slab.num_used = Cardinality(Items) - Len(slab.free)
  BY MemSlabAssumption DEF SlabInv, Alloc
<1>1. PICK F \in SUBSET Items : Lists(slab.free, F) /\ OwnInv(F, Alloc)
  BY DEF SlabInv
<1>2. CASE Environment /\ UNCHANGED slab
  <2>1. /\ ObjWaits(SlabWaitQ, {Alloc})' /\ Bystander({Alloc})
        /\ data' = data /\ held' = held
    BY <1>0, <1>2, EnvironmentStays
  <2>2. OwnInv(F, Alloc)'
    BY <1>1, <2>1, OwnSame DEF Bystander
  <2> QED BY <1>0, <1>1, <1>2, <2>1, <2>2 DEF SlabInv
<1>3. ASSUME NEW x \in Items, PassBlock(x) PROVE SlabInv'
  <2>1. PICK t \in Apps : held' = [held EXCEPT ![Isr] = @ \ {x}, ![t] = @ \cup {x}]
    BY <1>3 DEF PassBlock
  <2>2. /\ x \in held[Isr] /\ Isr \in Holders /\ t \in Holders
        /\ k' = k /\ isr' = isr /\ clk' = clk /\ slice' = slice
        /\ call' = call /\ data' = data /\ slab' = slab
    BY <1>3 DEF PassBlock, slabFrame, Holders, Apps
  <2>3. ObjWaits(SlabWaitQ, {Alloc})' /\ Bystander({Alloc})
    BY <1>0, <2>2, FrameStays
  <2>4. OwnInv(F, Alloc)'
    BY <1>1, <2>1, <2>2, <2>3, OwnPass DEF Bystander
  <2> QED BY <1>0, <1>1, <2>2, <2>3, <2>4 DEF SlabInv
<1> QED BY <1>2, <1>3, FreeStays, AllocStays DEF MemSlabNext

(***************************************************************************)
(* Message queues.  The ring buffer: used_msgs messages from read_ptr on,  *)
(* and write_ptr after the last of them.                                   *)
(***************************************************************************)
Words == Items \cup {Nil}
Slot(i) == IF i < MaxMsgs THEN i ELSE i - MaxMsgs
RingOK(q) ==
    /\ q \in [buffer : [0..(MaxMsgs - 1) -> Words], read : 0..(MaxMsgs - 1),
              write : 0..(MaxMsgs - 1), used : 0..MaxMsgs]
    /\ q.write = Slot(q.read + q.used)
Contents(q) == [i \in 1..q.used |-> q.buffer[(q.read + i - 1) % MaxMsgs]]

\* up to twice the size, the remainder is one subtraction
LEMMA SlotIs ==
    ASSUME NEW i \in 0..(2 * MaxMsgs - 1)
    PROVE  i % MaxMsgs = Slot(i) /\ Slot(i) \in 0..(MaxMsgs - 1)
<1>1. MaxMsgs \in Nat /\ MaxMsgs > 0
  BY MsgQAssumption
<1>2. Slot(i) \in 0..(MaxMsgs - 1)
  BY <1>1 DEF Slot
<1>3. i % MaxMsgs = Slot(i)
  BY <1>1 DEF Slot
<1> QED BY <1>2, <1>3

\* the slots the pointers move through
LEMMA SlotSteps ==
    ASSUME NEW i \in 0..(MaxMsgs - 1), NEW n \in 0..MaxMsgs
    PROVE  /\ Slot(i + n) \in 0..(MaxMsgs - 1) /\ next_slot(i) \in 0..(MaxMsgs - 1)
           /\ n < MaxMsgs => next_slot(Slot(i + n)) = Slot(i + (n + 1))
           /\ n > 0 => Slot(next_slot(i) + (n - 1)) = Slot(i + n)
           /\ n > 0 /\ n < MaxMsgs => Slot(i + n) # i
<1>1. MaxMsgs \in Nat /\ MaxMsgs > 0 /\ i \in Nat /\ n \in Nat /\ i < MaxMsgs /\ n <= MaxMsgs
  BY MsgQAssumption
<1>2. Slot(i + n) \in 0..(MaxMsgs - 1) /\ next_slot(i) \in 0..(MaxMsgs - 1)
  BY <1>1 DEF Slot, next_slot
<1>3. ASSUME n < MaxMsgs PROVE next_slot(Slot(i + n)) = Slot(i + (n + 1))
  <2>1. CASE i + n < MaxMsgs
    <3>1. Slot(i + n) = i + n
      BY <2>1 DEF Slot
    <3>2. CASE i + n + 1 = MaxMsgs
      BY <1>1, <3>1, <3>2 DEF Slot, next_slot
    <3>3. CASE i + n + 1 < MaxMsgs
      BY <1>1, <3>1, <3>3 DEF Slot, next_slot
    <3>4. i + n + 1 = MaxMsgs \/ i + n + 1 < MaxMsgs
      BY <1>1, <2>1
    <3> QED BY ONLY <3>2, <3>3, <3>4
  <2>2. CASE i + n >= MaxMsgs
    <3>1. Slot(i + n) = i + n - MaxMsgs /\ i + n - MaxMsgs + 1 # MaxMsgs
      BY <1>1, <1>3, <2>2 DEF Slot
    <3> QED BY <1>1, <2>2, <3>1 DEF Slot, next_slot
  <2> QED BY <1>1, <2>1, <2>2
<1>4. ASSUME n > 0 PROVE Slot(next_slot(i) + (n - 1)) = Slot(i + n)
  <2>1. CASE i + 1 = MaxMsgs
    BY <1>1, <1>4, <2>1 DEF Slot, next_slot
  <2>2. CASE i + 1 # MaxMsgs
    BY <1>1, <1>4, <2>2 DEF Slot, next_slot
  <2> QED BY <2>1, <2>2
<1>5. n > 0 /\ n < MaxMsgs => Slot(i + n) # i
  BY <1>1 DEF Slot
<1> QED BY <1>2, <1>3, <1>4, <1>5

\* two places of the ring are two slots
LEMMA SlotsDiffer ==
    ASSUME NEW i \in 0..(MaxMsgs - 1), NEW n \in 0..(MaxMsgs - 1), NEW m \in 0..(MaxMsgs - 1),
           n # m
    PROVE  Slot(i + n) # Slot(i + m)
<1>1. MaxMsgs \in Nat /\ i \in Nat /\ n \in Nat /\ m \in Nat
  BY MsgQAssumption
<1> QED BY <1>1 DEF Slot

\* what the ring holds, as a sequence
LEMMA ContentsAre ==
    ASSUME NEW q, RingOK(q)
    PROVE  /\ Contents(q) \in Seq(Words) /\ Len(Contents(q)) = q.used
           /\ \A i \in 1..q.used : /\ Contents(q)[i] = q.buffer[Slot(q.read + i - 1)]
                                   /\ Slot(q.read + i - 1) \in 0..(MaxMsgs - 1)
<1>1. /\ MaxMsgs \in Nat /\ MaxMsgs > 0 /\ q.used \in 0..MaxMsgs
      /\ q.read \in 0..(MaxMsgs - 1) /\ q.buffer \in [0..(MaxMsgs - 1) -> Words]
  BY MsgQAssumption DEF RingOK
<1>2. ASSUME NEW i \in 1..q.used
      PROVE  /\ (q.read + i - 1) % MaxMsgs = Slot(q.read + i - 1)
             /\ Slot(q.read + i - 1) \in 0..(MaxMsgs - 1)
  <2>1. q.read + i - 1 \in 0..(2 * MaxMsgs - 1)
    BY <1>1
  <2> QED BY <2>1, SlotIs
<1>3. \A i \in 1..q.used : Contents(q)[i] = q.buffer[Slot(q.read + i - 1)]
  BY <1>2 DEF Contents
<1>4. Contents(q) = [i \in 1..q.used |-> q.buffer[Slot(q.read + i - 1)]]
  BY <1>2 DEF Contents
<1>5. [i \in 1..q.used |-> q.buffer[Slot(q.read + i - 1)]] \in [1..q.used -> Words]
  BY <1>1, <1>2
<1>6. Contents(q) \in Seq(Words) /\ Len(Contents(q)) = q.used
  <2>1. q.used \in Nat /\ Contents(q) \in [1..q.used -> Words]
    BY <1>1, <1>4, <1>5
  <2> QED BY ONLY <2>1
<1> QED BY <1>2, <1>3, <1>6

\* a message written is the last one
LEMMA WriteAppends ==
    ASSUME NEW q, RingOK(q), q.used < MaxMsgs, NEW m \in Words, NEW r, r = write_msg(q, m)
    PROVE  RingOK(r) /\ r.used = q.used + 1 /\ Contents(r) = Append(Contents(q), m)
<1>1. /\ MaxMsgs \in Nat /\ MaxMsgs > 0 /\ q.used \in 0..MaxMsgs
      /\ q.read \in 0..(MaxMsgs - 1) /\ q.buffer \in [0..(MaxMsgs - 1) -> Words]
      /\ q.write \in 0..(MaxMsgs - 1) /\ q.write = Slot(q.read + q.used)
  BY MsgQAssumption DEF RingOK
<1>2. /\ r \in [buffer : [0..(MaxMsgs - 1) -> Words], read : 0..(MaxMsgs - 1),
                write : 0..(MaxMsgs - 1), used : 0..MaxMsgs]
      /\ r.read = q.read /\ r.used = q.used + 1 /\ r.write = next_slot(q.write)
      /\ r.buffer = [q.buffer EXCEPT ![q.write] = m]
  <2>1. next_slot(q.write) \in 0..(MaxMsgs - 1) /\ q.used + 1 \in 0..MaxMsgs
    BY <1>1 DEF next_slot
  <2>2. [q.buffer EXCEPT ![q.write] = m] \in [0..(MaxMsgs - 1) -> Words]
    BY <1>1
  <2> QED BY <1>1, <2>1, <2>2 DEF write_msg, RingOK
<1>3. r.write = Slot(r.read + r.used)
  <2>1. next_slot(Slot(q.read + q.used)) = Slot(q.read + (q.used + 1))
    BY <1>1, SlotSteps
  <2> QED BY <1>1, <1>2, <2>1
<1>4. RingOK(r)
  BY <1>2, <1>3 DEF RingOK
<1>5. /\ Contents(q) \in Seq(Words) /\ Len(Contents(q)) = q.used
      /\ \A i \in 1..q.used : Contents(q)[i] = q.buffer[Slot(q.read + i - 1)]
  BY ContentsAre
<1>6. /\ Contents(r) \in Seq(Words) /\ Len(Contents(r)) = q.used + 1
      /\ \A i \in 1..(q.used + 1) : Contents(r)[i] = r.buffer[Slot(q.read + i - 1)]
  <2>1. /\ Contents(r) \in Seq(Words) /\ Len(Contents(r)) = r.used
        /\ \A i \in 1..r.used : Contents(r)[i] = r.buffer[Slot(r.read + i - 1)]
    BY <1>4, ContentsAre
  <2> QED BY <1>2, <2>1
<1>7. ASSUME NEW i \in 1..q.used PROVE Contents(r)[i] = Contents(q)[i]
  <2>1. Slot(q.read + i - 1) \in 0..(MaxMsgs - 1) /\ Slot(q.read + i - 1) # q.write
    <3>1. PICK j : j = i - 1
      OBVIOUS
    <3>2. /\ j \in 0..(MaxMsgs - 1) /\ j \in 0..MaxMsgs /\ q.used \in 0..(MaxMsgs - 1)
          /\ j # q.used /\ q.read + i - 1 = q.read + j
      BY <1>1, <3>1
    <3>3. Slot(q.read + j) \in 0..(MaxMsgs - 1)
      BY <1>1, <3>2, SlotSteps
    <3>4. Slot(q.read + j) # Slot(q.read + q.used)
      BY <1>1, <3>2, SlotsDiffer
    <3> QED BY <1>1, <3>2, <3>3, <3>4
  <2>2. i \in 1..(q.used + 1)
    BY <1>1
  <2> QED BY <1>1, <1>2, <1>5, <1>6, <2>1, <2>2
<1>8. Contents(r)[q.used + 1] = m
  <2>1. q.used + 1 \in 1..(q.used + 1) /\ q.read + (q.used + 1) - 1 = q.read + q.used
    BY <1>1
  <2> QED BY <1>1, <1>2, <1>6, <2>1
<1>9. PICK s : s = Append(Contents(q), m)
  OBVIOUS
<1>10. /\ s \in Seq(Words) /\ Len(s) = q.used + 1 /\ s[q.used + 1] = m
       /\ \A i \in 1..q.used : s[i] = Contents(q)[i]
  BY <1>5, <1>9, AppendProperties
<1>11. ASSUME NEW i \in 1..(q.used + 1) PROVE Contents(r)[i] = s[i]
  <2>1. CASE i = q.used + 1
    BY ONLY <1>8, <1>10, <2>1
  <2>2. CASE i # q.used + 1
    <3>1. i \in 1..q.used
      BY ONLY <1>1, <2>2, i \in 1..(q.used + 1)
    <3>2. Contents(r)[i] = Contents(q)[i]
      BY <1>7, <3>1
    <3>3. s[i] = Contents(q)[i]
      BY ONLY <1>10, <3>1
    <3> QED BY ONLY <3>2, <3>3
  <2> QED BY <2>1, <2>2
<1>12. Contents(r) = s
  BY <1>6, <1>10, <1>11, SeqEqual
<1> QED BY <1>2, <1>4, <1>9, <1>12

\* the message read is the first one
LEMMA ReadIsTail ==
    ASSUME NEW q, RingOK(q), q.used > 0, NEW r, r = read_msg(q)
    PROVE  /\ RingOK(r) /\ r.used = q.used - 1 /\ Contents(q) # <<>>
           /\ Contents(r) = Tail(Contents(q))
<1>1. /\ MaxMsgs \in Nat /\ MaxMsgs > 0 /\ q.used \in 0..MaxMsgs
      /\ q.read \in 0..(MaxMsgs - 1) /\ q.buffer \in [0..(MaxMsgs - 1) -> Words]
      /\ q.write \in 0..(MaxMsgs - 1) /\ q.write = Slot(q.read + q.used)
  BY MsgQAssumption DEF RingOK
<1>2. /\ r \in [buffer : [0..(MaxMsgs - 1) -> Words], read : 0..(MaxMsgs - 1),
                write : 0..(MaxMsgs - 1), used : 0..MaxMsgs]
      /\ r.read = next_slot(q.read) /\ r.used = q.used - 1 /\ r.write = q.write
      /\ r.buffer = [q.buffer EXCEPT ![q.read] = Nil]
  <2>1. next_slot(q.read) \in 0..(MaxMsgs - 1) /\ q.used - 1 \in 0..MaxMsgs
    BY <1>1 DEF next_slot
  <2>2. [q.buffer EXCEPT ![q.read] = Nil] \in [0..(MaxMsgs - 1) -> Words]
    BY <1>1 DEF Words
  <2> QED BY <1>1, <2>1, <2>2 DEF read_msg, RingOK
<1>3. r.write = Slot(r.read + r.used)
  <2>1. Slot(next_slot(q.read) + (q.used - 1)) = Slot(q.read + q.used)
    BY <1>1, SlotSteps
  <2> QED BY <1>1, <1>2, <2>1
<1>4. RingOK(r)
  BY <1>2, <1>3 DEF RingOK
<1>5. /\ Contents(q) \in Seq(Words) /\ Len(Contents(q)) = q.used
      /\ \A i \in 1..q.used : Contents(q)[i] = q.buffer[Slot(q.read + i - 1)]
  BY ContentsAre
<1>6. /\ Contents(r) \in Seq(Words) /\ Len(Contents(r)) = q.used - 1
      /\ \A i \in 1..(q.used - 1) : Contents(r)[i] = r.buffer[Slot(r.read + i - 1)]
  <2>1. /\ Contents(r) \in Seq(Words) /\ Len(Contents(r)) = r.used
        /\ \A i \in 1..r.used : Contents(r)[i] = r.buffer[Slot(r.read + i - 1)]
    BY <1>4, ContentsAre
  <2> QED BY <1>2, <2>1
<1>7. ASSUME NEW i \in 1..(q.used - 1) PROVE Contents(r)[i] = Contents(q)[i + 1]
  <2>1. /\ Slot(r.read + i - 1) \in 0..(MaxMsgs - 1) /\ Slot(r.read + i - 1) # q.read
        /\ Slot(r.read + i - 1) = Slot(q.read + (i + 1) - 1)
    <3>1. /\ i \in 0..MaxMsgs /\ i > 0 /\ i < MaxMsgs
          /\ r.read + i - 1 = next_slot(q.read) + (i - 1)
          /\ q.read + (i + 1) - 1 = q.read + i
      <4>1. next_slot(q.read) \in 0..(MaxMsgs - 1)
        BY <1>1, SlotSteps
      <4> QED BY <1>1, <1>2, <4>1
    <3>2. /\ Slot(q.read + i) \in 0..(MaxMsgs - 1) /\ Slot(q.read + i) # q.read
          /\ Slot(next_slot(q.read) + (i - 1)) = Slot(q.read + i)
      BY <1>1, <3>1, SlotSteps
    <3> QED BY <3>1, <3>2
  <2>2. i + 1 \in 1..q.used
    BY <1>1
  <2>3. Contents(q)[i + 1] = q.buffer[Slot(q.read + (i + 1) - 1)]
    BY <1>5, <2>2
  <2>4. Contents(r)[i] = r.buffer[Slot(r.read + i - 1)]
    BY <1>6
  <2>5. r.buffer[Slot(r.read + i - 1)] = q.buffer[Slot(r.read + i - 1)]
    BY <1>1, <1>2, <2>1
  <2> QED BY <2>1, <2>3, <2>4, <2>5
<1>8. Contents(q) # <<>>
  BY <1>1, <1>5, EmptySeq
<1>9. PICK s : s = Tail(Contents(q))
  OBVIOUS
<1>10. /\ s \in Seq(Words) /\ Len(s) = q.used - 1
       /\ \A i \in 1..(q.used - 1) : s[i] = Contents(q)[i + 1]
  BY <1>5, <1>8, <1>9, HeadTailProperties
<1>11. \A i \in 1..(q.used - 1) : Contents(r)[i] = s[i]
  BY <1>7, <1>10
<1>12. Contents(r) = s
  BY <1>6, <1>10, <1>11, SeqEqual
<1> QED BY <1>2, <1>4, <1>8, <1>9, <1>12

(***************************************************************************)
(* k_msgq_purge() wakes one waiter after the other; done(i) are the first  *)
(* i of list.                                                              *)
(***************************************************************************)
\* one of them
LEMMA PurgeLive ==
    ASSUME NEW kk, Live(kk), WaitsExact(kk), NEW t \in Pending(kk),
           NEW k2, k2 = purge_waiter(kk, t)
    PROVE  /\ Live(k2) /\ t \in Threads /\ t # kk.current
           /\ WaitsExact(k2) /\ Pending(k2) = Pending(kk) \ {t}
           /\ \A w \in WaitQs : Waiters(k2, w) = Waiters(kk, w) \ {t}
           /\ k2.current = kk.current /\ k2.handling = kk.handling
           /\ k2.rv[t] = "ENOMSG" /\ k2.to[t] = "INACTIVE"
           /\ \A u \in Threads \ {t} : /\ k2.state[u] = kk.state[u]
                                       /\ k2.to[u] = kk.to[u]
                                       /\ k2.rv[u] = kk.rv[u]
<1>1. PICK k1 : k1 = wake_waiter(kk, t)
  OBVIOUS
<1>2. /\ Live(k1) /\ t \in Threads \ {Idle} /\ t # kk.current
      /\ WaitsExact(k1) /\ Pending(k1) = Pending(kk) \ {t}
      /\ \A w \in WaitQs : Waiters(k1, w) = Waiters(kk, w) \ {t}
      /\ k1.current = kk.current /\ k1.handling = kk.handling
      /\ k1.to[t] = "INACTIVE"
      /\ \A u \in Threads \ {t} : /\ k1.state[u] = kk.state[u]
                                  /\ k1.to[u] = kk.to[u]
                                  /\ k1.rv[u] = kk.rv[u]
  BY <1>1, WakeLive
<1>3. k1 \in KernelType
  BY <1>2 DEF Live, Good, Holds
<1>4. k2 = [k1 EXCEPT !.rv[t] = "ENOMSG"]
  BY <1>1 DEF purge_waiter
<1>5. /\ k2 \in KernelType
      /\ k2.q = k1.q /\ k2.bmap = k1.bmap /\ k2.cache = k1.cache
      /\ k2.current = k1.current /\ k2.prio = k1.prio
      /\ k2.locked = k1.locked /\ k2.to = k1.to /\ k2.wq = k1.wq
      /\ k2.handling = k1.handling /\ k2.state = k1.state
      /\ k2.rv[t] = "ENOMSG" /\ \A u \in Threads \ {t} : k2.rv[u] = k1.rv[u]
  <2> DEFINE k3 == [k1 EXCEPT !.rv[t] = "ENOMSG"]
  <2>1. t \in Threads
    BY <1>2
  <2>2. /\ k3 \in KernelType
        /\ k3.q = k1.q /\ k3.bmap = k1.bmap /\ k3.cache = k1.cache
        /\ k3.current = k1.current /\ k3.prio = k1.prio
        /\ k3.locked = k1.locked /\ k3.to = k1.to /\ k3.wq = k1.wq
        /\ k3.handling = k1.handling /\ k3.state = k1.state
        /\ k3.rv[t] = "ENOMSG" /\ \A u \in Threads \ {t} : k3.rv[u] = k1.rv[u]
    BY <1>3, <2>1 DEF KernelType, RetVals
  <2> HIDE DEF k3
  <2>3. k2 = k3
    BY <1>4 DEF k3
  <2> QED BY <2>2, <2>3
<1>6. Live(k2)
  <2>1. Good(k2)
    BY <1>2, <1>5, GoodFrame DEF Live
  <2> QED BY <1>2, <1>5, <2>1 DEF Live, is_thread_ready, is_thread_timeout_active
<1>7. /\ WaitsExact(k2) /\ Pending(k2) = Pending(k1)
      /\ \A w \in WaitQs : Waiters(k2, w) = Waiters(k1, w)
  BY <1>2, <1>5, WaitsFrame
<1> QED BY <1>2, <1>5, <1>6, <1>7

\* the records between them
WokenOne(f, i, kk, list) == IF i = 0 THEN kk ELSE purge_waiter(f[i - 1], list[i])
WokenBy(f, kk, list, n) == f = [i \in 0..n |-> WokenOne(f, i, kk, list)]

\* they exist
LEMMA WokenExist ==
    ASSUME NEW kk, NEW list, NEW n \in Nat
    PROVE  \E f : WokenBy(f, kk, list, n)
<1> DEFINE S == {m \in 0..n : \E f : WokenBy(f, kk, list, m)}
<1>1. 0 \in S
  <2>1. PICK f : f = [i \in 0..0 |-> kk]
    OBVIOUS
  <2>2. WokenBy(f, kk, list, 0)
    BY <2>1 DEF WokenBy, WokenOne
  <2> QED BY <2>2
<1>2. ASSUME NEW m \in 0..(n - 1), m \in S PROVE m + 1 \in S
  <2>1. PICK f : WokenBy(f, kk, list, m)
    BY <1>2
  <2> DEFINE g == [i \in 0..(m + 1) |-> IF i = m + 1 THEN purge_waiter(f[m], list[m + 1])
                                        ELSE f[i]]
  <2>2. \A i \in 0..m : f[i] = WokenOne(f, i, kk, list)
    BY <2>1 DEF WokenBy
  <2>3. /\ g[m + 1] = purge_waiter(f[m], list[m + 1])
        /\ \A i \in 0..m : g[i] = f[i]
        /\ g = [i \in 0..(m + 1) |-> g[i]]
    OBVIOUS
  <2> HIDE DEF g
  <2>4. ASSUME NEW i \in 0..(m + 1) PROVE g[i] = WokenOne(g, i, kk, list)
    <3>1. CASE i = m + 1
      <4>1. i # 0 /\ i - 1 = m /\ m \in 0..m
        BY <3>1
      <4>2. g[i - 1] = f[m]
        BY <2>3, <4>1
      <4> QED BY <2>3, <3>1, <4>1, <4>2 DEF WokenOne
    <3>2. CASE i # m + 1
      <4>1. i \in 0..m /\ (i = 0 \/ i - 1 \in 0..m)
        BY <3>2
      <4>2. g[i] = f[i] /\ (i = 0 \/ g[i - 1] = f[i - 1])
        BY <2>3, <4>1
      <4>3. f[i] = WokenOne(f, i, kk, list)
        BY <2>2, <4>1
      <4> QED BY ONLY <4>2, <4>3 DEF WokenOne
    <3> QED BY <3>1, <3>2
  <2>5. WokenBy(g, kk, list, m + 1)
    BY <2>3, <2>4 DEF WokenBy
  <2>6. m + 1 \in 0..n
    OBVIOUS
  <2> QED BY <2>5, <2>6
<1>3. \A i \in 0..n : i \in S
  <2>1. \A m \in 0..(n - 1) : m \in S => m + 1 \in S
    BY <1>2
  <2> HIDE DEF S
  <2> QED BY <1>1, <2>1, UpTo
<1>4. n \in S
  BY <1>3
<1> QED BY <1>4

\* and wake_purged() is the last of them
LEMMA WokenAre ==
    ASSUME NEW kk, NEW list, list = kk.wq[MsgQWaitQ], Len(list) \in Nat
    PROVE  \E f : /\ f[0] = kk /\ wake_purged(kk) = f[Len(list)]
                  /\ \A i \in 1..Len(list) : f[i] = purge_waiter(f[i - 1], list[i])
<1> DEFINE F == CHOOSE f : f = [i \in 0..Len(list) |->
                                   IF i = 0 THEN kk ELSE purge_waiter(f[i - 1], list[i])]
<1>1. wake_purged(kk) = F[Len(list)]
  BY DEF wake_purged
<1>2. F = [i \in 0..Len(list) |-> IF i = 0 THEN kk ELSE purge_waiter(F[i - 1], list[i])]
  <2>1. PICK f : WokenBy(f, kk, list, Len(list))
    BY WokenExist
  <2>2. f = [i \in 0..Len(list) |-> IF i = 0 THEN kk ELSE purge_waiter(f[i - 1], list[i])]
    BY <2>1 DEF WokenBy, WokenOne
  <2> QED BY <2>2, Zenon
<1> HIDE DEF F
<1>3. \A i \in 0..Len(list) : F[i] = IF i = 0 THEN kk ELSE purge_waiter(F[i - 1], list[i])
  BY <1>2
<1>4. F[0] = kk /\ \A i \in 1..Len(list) : F[i] = purge_waiter(F[i - 1], list[i])
  BY <1>3
<1> QED BY <1>1, <1>4

\* all waiters are sent away, the others are left alone
LEMMA PurgedAll ==
    ASSUME NEW kk, Live(kk), WaitsExact(kk), NEW k2, k2 = wake_purged(kk),
           NEW W, W = Waiters(kk, MsgQWaitQ)
    PROVE  /\ Live(k2) /\ WaitsExact(k2)
           /\ k2.current = kk.current /\ k2.handling = kk.handling
           /\ Pending(k2) = Pending(kk) \ W
           /\ \A v \in WaitQs : Waiters(k2, v) = Waiters(kk, v) \ W
           /\ \A t \in W : k2.rv[t] = "ENOMSG" /\ k2.to[t] = "INACTIVE"
           /\ \A u \in Threads \ W : /\ k2.state[u] = kk.state[u]
                                     /\ k2.to[u] = kk.to[u]
                                     /\ k2.rv[u] = kk.rv[u]
<1>1. PICK list, n : list = kk.wq[MsgQWaitQ] /\ n = Len(list)
  OBVIOUS
<1>2. MsgQWaitQ \in WaitQs /\ kk \in KernelType
  BY MsgQAssumption DEF Live, Good, Holds
<1>3. list \in Seq(Threads) /\ n \in Nat /\ DOMAIN list = 1..n
  BY <1>1, <1>2 DEF KernelType
<1>4. /\ \A i, j \in 1..n : list[i] = list[j] => i = j
      /\ W = {list[j] : j \in 1..n} /\ W \in SUBSET Pending(kk)
  <2>1. IsInjective(list) /\ Waiters(kk, MsgQWaitQ) \in SUBSET Pending(kk)
    BY <1>1, <1>2 DEF WaitsExact
  <2> QED BY <1>1, <1>3, <2>1 DEF IsInjective, Waiters, ToSet
<1>5. PICK f : /\ f[0] = kk /\ k2 = f[n]
               /\ \A i \in 1..n : f[i] = purge_waiter(f[i - 1], list[i])
  <2>1. list = kk.wq[MsgQWaitQ] /\ Len(list) \in Nat
    BY <1>1, <1>3
  <2>2. PICK f : /\ f[0] = kk /\ wake_purged(kk) = f[Len(list)]
                 /\ \A i \in 1..Len(list) : f[i] = purge_waiter(f[i - 1], list[i])
    BY ONLY <2>1, WokenAre, SMTT(30)
  <2>3. k2 = wake_purged(kk) /\ n = Len(list)
    BY <1>1
  <2> QED BY ONLY <2>2, <2>3
<1> DEFINE done(i) == {list[j] : j \in 1..i}
           So(i) == /\ Live(f[i]) /\ WaitsExact(f[i])
                    /\ f[i].current = kk.current /\ f[i].handling = kk.handling
                    /\ Pending(f[i]) = Pending(kk) \ done(i)
                    /\ \A v \in WaitQs : Waiters(f[i], v) = Waiters(kk, v) \ done(i)
                    /\ \A t \in done(i) : f[i].rv[t] = "ENOMSG" /\ f[i].to[t] = "INACTIVE"
                    /\ \A u \in Threads \ done(i) : /\ f[i].state[u] = kk.state[u]
                                                    /\ f[i].to[u] = kk.to[u]
                                                    /\ f[i].rv[u] = kk.rv[u]
           S == {i \in 0..n : So(i)}
<1>6. 0 \in S
  <2>1. done(0) = {}
    OBVIOUS
  <2>2. So(0)
    BY <1>5, <2>1
  <2> HIDE DEF So
  <2> QED BY <1>3, <2>2
<1>7. ASSUME NEW i \in 0..(n - 1), i \in S PROVE i + 1 \in S
  <2>1. So(i)
    BY <1>7
  <2>2. PICK t, m : t = list[i + 1] /\ m = i + 1
    OBVIOUS
  <2>3. m \in 1..n /\ m \in 0..n /\ m - 1 = i /\ i \in Nat
    BY <1>3, <2>2
  <2>4. t \notin done(i) /\ t \in W
    <3>1. \A j \in 1..i : j \in 1..n /\ j # m
      BY <1>3, <2>3
    <3> QED BY <1>4, <2>2, <2>3, <3>1
  <2>5. done(m) = done(i) \cup {t}
    <3>1. \A j : j \in 1..m <=> j \in 1..i \/ j = m
      BY <2>3, <2>2
    <3> QED BY <2>2, <3>1
  <2>6. t \in Pending(f[i])
    BY <1>4, <2>1, <2>4
  <2>7. f[m] = purge_waiter(f[i], t)
    BY <1>5, <2>2, <2>3
  <2>8. /\ Live(f[m]) /\ t \in Threads /\ t # f[i].current
        /\ WaitsExact(f[m]) /\ Pending(f[m]) = Pending(f[i]) \ {t}
        /\ \A w \in WaitQs : Waiters(f[m], w) = Waiters(f[i], w) \ {t}
        /\ f[m].current = f[i].current /\ f[m].handling = f[i].handling
        /\ f[m].rv[t] = "ENOMSG" /\ f[m].to[t] = "INACTIVE"
        /\ \A u \in Threads \ {t} : /\ f[m].state[u] = f[i].state[u]
                                    /\ f[m].to[u] = f[i].to[u]
                                    /\ f[m].rv[u] = f[i].rv[u]
    BY <2>1, <2>6, <2>7, PurgeLive
  <2>9. done(i) \in SUBSET Threads
    <3>1. \A j \in 1..i : j \in 1..n
      BY <1>3, <2>3
    <3> QED BY <1>3, <3>1
  <2> HIDE DEF done
  <2>10. So(m)
    <3>1. Pending(f[m]) = Pending(kk) \ done(m)
      BY <2>1, <2>5, <2>8
    <3>2. \A v \in WaitQs : Waiters(f[m], v) = Waiters(kk, v) \ done(m)
      BY <2>1, <2>5, <2>8
    <3>3. \A x \in done(m) : f[m].rv[x] = "ENOMSG" /\ f[m].to[x] = "INACTIVE"
      BY <2>1, <2>4, <2>5, <2>8, <2>9
    <3>4. \A u \in Threads \ done(m) : /\ f[m].state[u] = kk.state[u]
                                       /\ f[m].to[u] = kk.to[u]
                                       /\ f[m].rv[u] = kk.rv[u]
      BY <2>1, <2>5, <2>8
    <3> QED BY <2>1, <2>8, <3>1, <3>2, <3>3, <3>4
  <2> HIDE DEF So
  <2> QED BY <2>2, <2>3, <2>10
<1>8. n \in S
  <2>1. \A i \in 0..(n - 1) : i \in S => i + 1 \in S
    BY <1>7
  <2> HIDE DEF S
  <2>2. \A i \in 0..n : i \in S
    BY <1>3, <1>6, <2>1, UpTo
  <2> QED BY <1>3, <2>2
<1>9. So(n) /\ done(n) = W
  BY <1>4, <1>8
<1> HIDE DEF done
<1> QED BY <1>5, <1>9

\* k_msgq_purge(), as far as threads go
LEMMA PurgeStays ==
    ASSUME NEW Ops, "none" \notin Ops, ObjWaits(MsgQWaitQ, Ops), Caller(TRUE),
           k' = reschedule_threads(wake_purged(k)),
           isr' = isr, clk' = clk, slice' = slice, call' = call
    PROVE  /\ ObjWaits(MsgQWaitQ, Ops)'
           /\ \A t \in Threads, o \in Ops : (served(t, o)' <=> served(t, o))
                                            /\ ~eligible(t, o)'
<1>1. PICK c, k1, W : /\ c = k.current /\ k1 = wake_purged(k)
                      /\ W = Waiters(k, MsgQWaitQ)
  OBVIOUS
<1>2. /\ IInv /\ WaitsExact(k) /\ Live(k) /\ c \in Threads /\ k \in KernelType
      /\ slice \in SliceSettings /\ "PENDING" \notin k.state[c]
      /\ \A v \in WaitQs \ {MsgQWaitQ} : Waiters(k, v) = {}
      /\ call \in [Threads -> [op : Ops \cup {"none"}]]
      /\ \A u \in Threads :
            "PENDING" \in k.state[u] => call[u].op # "none" /\ k.rv[u] = "EAGAIN"
  BY <1>1, CurrentRuns DEF ObjWaits, IInv, TypeOK
<1>3. InThread /\ call[c] = NoCall
  BY <1>1 DEF Caller
<1>4. W = Pending(k) /\ MsgQWaitQ \in WaitQs
  <2>1. MsgQWaitQ \in WaitQs
    BY MsgQAssumption
  <2> QED BY <1>1, <1>2, <2>1 DEF WaitsExact
<1>5. /\ Live(k1) /\ WaitsExact(k1)
      /\ k1.current = k.current /\ k1.handling = k.handling
      /\ Pending(k1) = Pending(k) \ W
      /\ \A v \in WaitQs : Waiters(k1, v) = Waiters(k, v) \ W
      /\ \A t \in W : k1.rv[t] = "ENOMSG" /\ k1.to[t] = "INACTIVE"
      /\ \A u \in Threads \ W : /\ k1.state[u] = k.state[u]
                                /\ k1.to[u] = k.to[u]
                                /\ k1.rv[u] = k.rv[u]
  BY <1>1, <1>2, PurgedAll
<1>6. k1 \in KernelType
  BY <1>5 DEF Live, Good, Holds
<1>7. Live(k') /\ Settled(k') /\ Switched(k1, k')
  BY <1>1, <1>5, <1>6, RescheduleSettled, RescheduleSwitched
<1>8. /\ k'.state = k1.state /\ k'.to = k1.to /\ k'.wq = k1.wq
      /\ k'.handling = k1.handling
      /\ \A u \in Threads \ {c} : k'.rv[u] = k1.rv[u]
  BY <1>1, <1>5, <1>7 DEF Switched
<1>9. IInv'
  BY <1>2, <1>7, CallStays
<1>10. WaitsExact(k') /\ \A v \in WaitQs : Waiters(k', v) = Waiters(k1, v)
  BY <1>5, <1>8, WaitsFrame
<1>11. \A v \in WaitQs \ {MsgQWaitQ} : Waiters(k', v) = {}
  BY <1>2, <1>5, <1>10
<1>12. \A t \in Threads : "PENDING" \notin k'.state[t]
  BY <1>4, <1>5, <1>8 DEF Pending
<1>13. ClockInv'
  <2>1. \A t \in Threads : k'.to[t] = "EXPIRED" => k.to[t] = "EXPIRED"
    BY <1>5, <1>8
  <2> QED BY <1>5, <1>8, <2>1 DEF ObjWaits, ClockInv
<1>14. ObjWaits(MsgQWaitQ, Ops)'
  BY <1>2, <1>9, <1>10, <1>11, <1>12, <1>13 DEF ObjWaits
<1>15. ASSUME NEW t \in Threads, NEW o \in Ops PROVE served(t, o)' <=> served(t, o)
  <2>1. CASE t = c
    BY <1>3, <2>1 DEF served, NoCall
  <2>2. CASE t # c /\ t \in W
    <3>1. k'.rv[t] # "0" /\ "PENDING" \in k.state[t]
      BY <1>4, <1>5, <1>8, <2>2 DEF Pending
    <3> QED BY <3>1 DEF served
  <2>3. CASE t # c /\ t \notin W
    <3>1. k'.rv[t] = k.rv[t] /\ k'.state[t] = k.state[t]
      BY <1>5, <1>8, <2>3
    <3> QED BY <3>1 DEF served
  <2> QED BY <2>1, <2>2, <2>3
<1> QED BY <1>12, <1>14, <1>15 DEF eligible, waits_in

(***************************************************************************)
(* The invariant of a message queue, and the step of AbsMsgQ that a step   *)
(* of the queue is to be.                                                  *)
(***************************************************************************)
Reads == "msgq_get"
Writes == "msgq_put"
MsgQOps == {Reads, Writes}
MsgQInv ==
    /\ ObjWaits(MsgQWaitQ, MsgQOps)
    /\ RingOK(msgq)
    /\ data \in [Threads -> Words]
    /\ \A t \in Threads : eligible(t, Reads) => msgq.used = 0
    /\ \A t \in Threads : eligible(t, Writes) => msgq.used = MaxMsgs
AbsStep == [AbsMsgQ!Next]_<<bufMap, readersMap, writersMap, deliveredMap>>

\* what the invariant says at once
LEMMA MsgQFacts ==
    ASSUME MsgQInv
    PROVE  /\ ObjWaits(MsgQWaitQ, MsgQOps) /\ MsgQWaitQ \in WaitQs
           /\ "none" \notin MsgQOps /\ Reads \in MsgQOps /\ Writes \in MsgQOps
           /\ Reads # Writes /\ RingOK(msgq) /\ data \in [Threads -> Words]
           /\ MaxMsgs \in Nat /\ MaxMsgs > 0 /\ msgq.used \in 0..MaxMsgs
           /\ bufMap = Contents(msgq) /\ Len(bufMap) = msgq.used
           /\ bufMap = <<>> <=> msgq.used = 0
           /\ k.current \in Threads
           /\ \A t \in Threads : ~(eligible(t, Reads) /\ eligible(t, Writes))
           /\ \A t \in Threads : eligible(t, Reads) => msgq.used = 0
           /\ \A t \in Threads : eligible(t, Writes) => msgq.used = MaxMsgs
<1>1. /\ ObjWaits(MsgQWaitQ, MsgQOps) /\ RingOK(msgq) /\ data \in [Threads -> Words]
      /\ \A t \in Threads : eligible(t, Reads) => msgq.used = 0
      /\ \A t \in Threads : eligible(t, Writes) => msgq.used = MaxMsgs
  BY DEF MsgQInv
<1>2. MaxMsgs \in Nat /\ MaxMsgs > 0 /\ msgq.used \in 0..MaxMsgs /\ MsgQWaitQ \in WaitQs
  BY <1>1, MsgQAssumption DEF RingOK
<1>3. bufMap = Contents(msgq)
  BY DEF bufMap, Contents
<1>4. bufMap \in Seq(Words) /\ Len(bufMap) = msgq.used
  BY <1>1, <1>3, ContentsAre
<1>5. bufMap = <<>> <=> msgq.used = 0
  BY <1>4, EmptySeq
<1>6. /\ "none" \notin MsgQOps /\ Reads \in MsgQOps /\ Writes \in MsgQOps /\ Reads # Writes
  BY DEF MsgQOps, Reads, Writes
<1>7. k.current \in Threads
  BY <1>1, CurrentRuns DEF ObjWaits
<1>8. \A t \in Threads : ~(eligible(t, Reads) /\ eligible(t, Writes))
  BY <1>6 DEF eligible, waits_in
<1> QED BY ONLY <1>1, <1>2, <1>3, <1>4, <1>5, <1>6, <1>7, <1>8

\* the maps, element by element
LEMMA MapsAre ==
    /\ readersMap = {t \in Threads : eligible(t, Reads)}
    /\ writersMap = {<<t, data[t]>> : t \in {u \in Threads : eligible(u, Writes)}}
    /\ deliveredMap = {<<t, data[t]>> : t \in {u \in Threads : served(u, Reads)}}
BY DEF readersMap, writersMap, deliveredMap, Reads, Writes

\* so the maps depend on who waits, who was served and their data
LEMMA MapsSame ==
    ASSUME \A t \in Threads : data'[t] = data[t] \/ ~(eligible(t, Writes) \/ served(t, Reads))
    PROVE  /\ (\A t \in Threads : eligible(t, Reads)' <=> eligible(t, Reads))
              => readersMap' = readersMap
           /\ (\A t \in Threads : eligible(t, Writes)' <=> eligible(t, Writes))
              => writersMap' = writersMap
           /\ (\A t \in Threads : served(t, Reads)' <=> served(t, Reads))
              => deliveredMap' = deliveredMap
<1>1. ASSUME \A t \in Threads : eligible(t, Reads)' <=> eligible(t, Reads)
      PROVE  readersMap' = readersMap
  BY <1>1, MapsAre DEF readersMap, Reads
<1>2. ASSUME \A t \in Threads : eligible(t, Writes)' <=> eligible(t, Writes)
      PROVE  writersMap' = writersMap
  <2>1. writersMap' = {<<t, data'[t]>> : t \in {u \in Threads : eligible(u, Writes)'}}
    BY DEF writersMap, Writes
  <2>2. writersMap = {<<t, data[t]>> : t \in {u \in Threads : eligible(u, Writes)}}
    BY MapsAre
  <2>3. \A t \in Threads : eligible(t, Writes) => data'[t] = data[t]
    OBVIOUS
  <2>4. \A e : e \in writersMap' <=> e \in writersMap
    BY ONLY <1>2, <2>1, <2>2, <2>3
  <2> QED BY <2>4
<1>3. ASSUME \A t \in Threads : served(t, Reads)' <=> served(t, Reads)
      PROVE  deliveredMap' = deliveredMap
  <2>1. deliveredMap' = {<<t, data'[t]>> : t \in {u \in Threads : served(u, Reads)'}}
    BY DEF deliveredMap, Reads
  <2>2. deliveredMap = {<<t, data[t]>> : t \in {u \in Threads : served(u, Reads)}}
    BY MapsAre
  <2>3. \A t \in Threads : served(t, Reads) => data'[t] = data[t]
    OBVIOUS
  <2>4. \A e : e \in deliveredMap' <=> e \in deliveredMap
    BY ONLY <1>3, <2>1, <2>2, <2>3
  <2> QED BY <2>4
<1> QED BY <1>1, <1>2, <1>3

\* one waiter less, of either kind
LEMMA MapsLess ==
    ASSUME NEW x \in Threads, data' = data
    PROVE  /\ eligible(x, Reads) /\ ~eligible(x, Reads)'
              /\ (\A t \in Threads \ {x} : eligible(t, Reads)' <=> eligible(t, Reads))
              => x \in readersMap /\ readersMap' = readersMap \ {x}
           /\ eligible(x, Writes) /\ ~eligible(x, Writes)'
              /\ (\A t \in Threads \ {x} : eligible(t, Writes)' <=> eligible(t, Writes))
              => <<x, data[x]>> \in writersMap /\ writersMap' = writersMap \ {<<x, data[x]>>}
<1>1. ASSUME eligible(x, Reads), ~eligible(x, Reads)',
             \A t \in Threads \ {x} : eligible(t, Reads)' <=> eligible(t, Reads)
      PROVE  x \in readersMap /\ readersMap' = readersMap \ {x}
  <2>1. readersMap' = {t \in Threads : eligible(t, Reads)'}
    BY DEF readersMap, Reads
  <2>2. readersMap = {t \in Threads : eligible(t, Reads)}
    BY MapsAre
  <2> QED BY ONLY <1>1, <2>1, <2>2, x \in Threads
<1>2. ASSUME eligible(x, Writes), ~eligible(x, Writes)',
             \A t \in Threads \ {x} : eligible(t, Writes)' <=> eligible(t, Writes)
      PROVE  /\ <<x, data[x]>> \in writersMap
             /\ writersMap' = writersMap \ {<<x, data[x]>>}
  <2>1. writersMap' = {<<t, data[t]>> : t \in {u \in Threads : eligible(u, Writes)'}}
    BY DEF writersMap, Writes
  <2>2. writersMap = {<<t, data[t]>> : t \in {u \in Threads : eligible(u, Writes)}}
    BY MapsAre
  <2>3. \A e : e \in writersMap' <=> e \in writersMap /\ e # <<x, data[x]>>
    BY ONLY <1>2, <2>1, <2>2, x \in Threads
  <2>4. <<x, data[x]>> \in writersMap
    BY ONLY <1>2, <2>2, x \in Threads
  <2> QED BY <2>3, <2>4
<1> QED BY <1>1, <1>2

\* a step around the queue: nothing, or one waiter gives up
LEMMA MsgQQuiet ==
    ASSUME MsgQInv, ObjWaits(MsgQWaitQ, MsgQOps)', Bystander(MsgQOps),
           msgq' = msgq, data' = data
    PROVE  MsgQInv' /\ AbsStep
<1>1. /\ Reads \in MsgQOps /\ Writes \in MsgQOps
      /\ \A t \in Threads : ~(eligible(t, Reads) /\ eligible(t, Writes))
  BY MsgQFacts
<1>2. /\ \A t \in Threads : /\ served(t, Reads)' <=> served(t, Reads)
                            /\ eligible(t, Reads)' => eligible(t, Reads)
                            /\ eligible(t, Writes)' => eligible(t, Writes)
  BY <1>1 DEF Bystander
<1>3. PICK x \in Threads : \A t \in Threads \ {x} :
                              /\ eligible(t, Reads) => eligible(t, Reads)'
                              /\ eligible(t, Writes) => eligible(t, Writes)'
  BY <1>1 DEF Bystander
<1>4. MsgQInv'
  BY <1>2 DEF MsgQInv, RingOK
<1>5. bufMap' = bufMap
  BY DEF bufMap
<1>6. \A t \in Threads : data'[t] = data[t]
  OBVIOUS
<1>7. deliveredMap' = deliveredMap
  BY <1>2, <1>6, MapsSame
<1>8. CASE eligible(x, Reads) /\ ~eligible(x, Reads)'
  <2>1. x \in readersMap /\ readersMap' = readersMap \ {x}
    BY <1>2, <1>3, <1>8, MapsLess
  <2>2. writersMap' = writersMap
    <3>1. \A t \in Threads : eligible(t, Writes)' <=> eligible(t, Writes)
      BY <1>1, <1>2, <1>3, <1>8
    <3> QED BY <1>6, <3>1, MapsSame
  <2>3. AbsMsgQ!GiveUp
    BY <1>5, <1>7, <2>1, <2>2 DEF AbsMsgQ!GiveUp
  <2> QED BY <1>4, <2>3 DEF AbsStep, AbsMsgQ!Next
<1>9. CASE eligible(x, Writes) /\ ~eligible(x, Writes)'
  <2>1. /\ <<x, data[x]>> \in writersMap
        /\ writersMap' = writersMap \ {<<x, data[x]>>}
    BY <1>2, <1>3, <1>9, MapsLess
  <2>2. readersMap' = readersMap
    <3>1. \A t \in Threads : eligible(t, Reads)' <=> eligible(t, Reads)
      BY <1>1, <1>2, <1>3, <1>9
    <3> QED BY <1>6, <3>1, MapsSame
  <2>3. AbsMsgQ!GiveUp
    BY <1>5, <1>7, <2>1, <2>2 DEF AbsMsgQ!GiveUp
  <2> QED BY <1>4, <2>3 DEF AbsStep, AbsMsgQ!Next
<1>10. CASE ~(eligible(x, Reads) /\ ~eligible(x, Reads)')
            /\ ~(eligible(x, Writes) /\ ~eligible(x, Writes)')
  <2>1. \A t \in Threads : eligible(t, Reads)' <=> eligible(t, Reads)
    BY <1>2, <1>3, <1>10
  <2>2. \A t \in Threads : eligible(t, Writes)' <=> eligible(t, Writes)
    BY <1>2, <1>3, <1>10
  <2>3. readersMap' = readersMap /\ writersMap' = writersMap
    BY <1>6, <2>1, <2>2, MapsSame
  <2> QED BY <1>4, <1>5, <1>7, <2>3 DEF AbsStep
<1> QED BY <1>8, <1>9, <1>10

\* k_msgq_put() with room: to the first reader, or after the last message
LEMMA PutStays ==
    ASSUME MsgQInv, NEW inThread \in BOOLEAN, NEW m \in Items, k_msgq_put(inThread, m)
    PROVE  MsgQInv' /\ AbsStep
<1>0. /\ ObjWaits(MsgQWaitQ, MsgQOps) /\ MsgQWaitQ \in WaitQs
      /\ "none" \notin MsgQOps /\ Reads \in MsgQOps /\ Writes \in MsgQOps
      /\ Reads # Writes /\ RingOK(msgq) /\ data \in [Threads -> Words]
      /\ MaxMsgs \in Nat /\ msgq.used \in 0..MaxMsgs
      /\ bufMap = Contents(msgq) /\ Len(bufMap) = msgq.used
      /\ \A t \in Threads : eligible(t, Reads) => msgq.used = 0
      /\ \A t \in Threads : eligible(t, Writes) => msgq.used = MaxMsgs
  BY MsgQFacts
<1>1. PICK t : t = find_first_thread_to_unpend(k, MsgQWaitQ)
  OBVIOUS
<1>2. /\ Caller(inThread) /\ msgq.used < MaxMsgs
      /\ isr' = isr /\ clk' = clk /\ slice' = slice /\ call' = call
  BY DEF k_msgq_put, msgqFrame
<1>3. m \in Words
  BY DEF Words
<1>4. \A u \in Threads : ~eligible(u, Writes)
  BY <1>0, <1>2
<1>5. CASE t # NoThread
  <2>1. /\ k' = switch_unless_isr(wake_waiter(k, t), inThread)
        /\ data' = [data EXCEPT ![t] = m] /\ msgq' = msgq
    BY <1>1, <1>5 DEF k_msgq_put
  <2>2. /\ ObjWaits(MsgQWaitQ, MsgQOps)'
        /\ t \in Threads /\ call[t].op \in MsgQOps /\ eligible(t, call[t].op)
        /\ \A p \in MsgQOps : ~served(t, p) /\ (served(t, p)' <=> p = call[t].op)
        /\ \A u \in Threads, p \in MsgQOps :
             /\ u # t => (served(u, p)' <=> served(u, p))
             /\ eligible(u, p)' <=> eligible(u, p) /\ u # t
    BY ONLY <1>0, <1>1, <1>2, <1>5, <2>1, inThread \in BOOLEAN, WakeStays
  <2>3. call[t].op = Reads
    BY <1>4, <2>2 DEF MsgQOps
  <2>4. /\ data' \in [Threads -> Words] /\ data'[t] = m
        /\ \A u \in Threads \ {t} : data'[u] = data[u]
    BY <1>0, <1>3, <2>1, <2>2
  <2>5. /\ eligible(t, Reads) /\ ~eligible(t, Reads)' /\ ~served(t, Reads) /\ served(t, Reads)'
        /\ \A u \in Threads \ {t} : /\ eligible(u, Reads)' <=> eligible(u, Reads)
                                    /\ served(u, Reads)' <=> served(u, Reads)
        /\ \A u \in Threads : ~eligible(u, Writes)'
    BY <1>0, <1>4, <2>2, <2>3
  <2>6. MsgQInv'
    BY <1>0, <2>1, <2>2, <2>4, <2>5 DEF MsgQInv, RingOK
  <2>7. bufMap' = bufMap
    BY <2>1 DEF bufMap
  <2>8. t \in readersMap /\ readersMap' = readersMap \ {t}
    <3>1. readersMap' = {u \in Threads : eligible(u, Reads)'}
      BY DEF readersMap, Reads
    <3>2. readersMap = {u \in Threads : eligible(u, Reads)}
      BY MapsAre
    <3> QED BY ONLY <2>2, <2>5, <3>1, <3>2
  <2>9. writersMap' = writersMap
    <3>1. \A u \in Threads : eligible(u, Writes)' <=> eligible(u, Writes)
      BY <1>4, <2>5
    <3>2. \A u \in Threads : data'[u] = data[u] \/ ~(eligible(u, Writes) \/ served(u, Reads))
      BY <1>4, <2>4, <2>5
    <3> QED BY <3>1, <3>2, MapsSame
  <2>10. deliveredMap' = deliveredMap \cup {<<t, m>>}
    <3>1. deliveredMap' = {<<u, data'[u]>> : u \in {v \in Threads : served(v, Reads)'}}
      BY DEF deliveredMap, Reads
    <3>2. deliveredMap = {<<u, data[u]>> : u \in {v \in Threads : served(v, Reads)}}
      BY MapsAre
    <3>3. \A e : e \in deliveredMap' <=> e \in deliveredMap \/ e = <<t, m>>
      BY ONLY <2>2, <2>4, <2>5, <3>1, <3>2
    <3> QED BY <3>3
  <2>11. AbsMsgQ!Put(m)
    BY <1>0, <1>2, <2>7, <2>8, <2>9, <2>10 DEF AbsMsgQ!Put
  <2> QED BY <2>6, <2>11 DEF AbsStep, AbsMsgQ!Next
<1>6. CASE t = NoThread
  <2>1. k' = k /\ data' = data /\ msgq' = write_msg(msgq, m)
    BY <1>1, <1>6 DEF k_msgq_put
  <2>2. ObjWaits(MsgQWaitQ, MsgQOps)' /\ Bystander(MsgQOps)
    BY <1>0, <1>2, <2>1, FrameStays
  <2>3. \A u \in Threads, o \in MsgQOps : ~eligible(u, o)
    BY <1>0, <1>1, <1>6, NobodyWaits
  <2>4. \A u \in Threads : /\ ~eligible(u, Reads) /\ ~eligible(u, Writes)
                           /\ ~eligible(u, Reads)' /\ ~eligible(u, Writes)'
                           /\ served(u, Reads)' <=> served(u, Reads)
    BY <1>0, <2>2, <2>3 DEF Bystander
  <2>5. RingOK(msgq') /\ Contents(msgq') = Append(Contents(msgq), m)
    BY <1>0, <1>2, <1>3, <2>1, WriteAppends
  <2>6. MsgQInv'
    BY <1>0, <2>1, <2>2, <2>4, <2>5 DEF MsgQInv, RingOK
  <2>7. bufMap' = Append(bufMap, m)
    BY <1>0, <2>5 DEF bufMap, Contents
  <2>8. readersMap = {}
    BY <2>4, MapsAre
  <2>9. readersMap' = readersMap /\ writersMap' = writersMap /\ deliveredMap' = deliveredMap
    BY <2>1, <2>4, MapsSame
  <2>10. AbsMsgQ!Put(m)
    BY <1>0, <1>2, <2>7, <2>8, <2>9 DEF AbsMsgQ!Put
  <2> QED BY <2>6, <2>10 DEF AbsStep, AbsMsgQ!Next
<1> QED BY <1>5, <1>6

\* k_msgq_get() of the first message; the space goes to the first writer
LEMMA GetStays ==
    ASSUME MsgQInv, NEW inThread \in BOOLEAN, k_msgq_get(inThread)
    PROVE  MsgQInv' /\ AbsStep
<1>0. /\ ObjWaits(MsgQWaitQ, MsgQOps) /\ MsgQWaitQ \in WaitQs
      /\ "none" \notin MsgQOps /\ Reads \in MsgQOps /\ Writes \in MsgQOps
      /\ Reads # Writes /\ RingOK(msgq) /\ data \in [Threads -> Words]
      /\ MaxMsgs \in Nat /\ MaxMsgs > 0 /\ msgq.used \in 0..MaxMsgs
      /\ bufMap = Contents(msgq) /\ Len(bufMap) = msgq.used
      /\ \A t \in Threads : eligible(t, Reads) => msgq.used = 0
      /\ \A t \in Threads : eligible(t, Writes) => msgq.used = MaxMsgs
  BY MsgQFacts
<1>1. PICK t, q : t = find_first_thread_to_unpend(k, MsgQWaitQ) /\ q = read_msg(msgq)
  OBVIOUS
<1>2. /\ Caller(inThread) /\ msgq.used > 0 /\ data' = data
      /\ isr' = isr /\ clk' = clk /\ slice' = slice /\ call' = call
  BY DEF k_msgq_get, msgqFrame
<1>3. /\ RingOK(q) /\ q.used = msgq.used - 1 /\ Contents(msgq) # <<>>
      /\ Contents(q) = Tail(Contents(msgq))
  BY <1>0, <1>1, <1>2, ReadIsTail
<1>4. \A u \in Threads : ~eligible(u, Reads)
  BY <1>0, <1>2
<1>5. CASE t # NoThread
  <2>1. /\ k' = switch_unless_isr(wake_waiter(k, t), inThread)
        /\ msgq' = write_msg(q, data[t])
    BY <1>1, <1>5 DEF k_msgq_get
  <2>2. /\ ObjWaits(MsgQWaitQ, MsgQOps)'
        /\ t \in Threads /\ call[t].op \in MsgQOps /\ eligible(t, call[t].op)
        /\ \A p \in MsgQOps : ~served(t, p) /\ (served(t, p)' <=> p = call[t].op)
        /\ \A u \in Threads, p \in MsgQOps :
             /\ u # t => (served(u, p)' <=> served(u, p))
             /\ eligible(u, p)' <=> eligible(u, p) /\ u # t
    BY ONLY <1>0, <1>1, <1>2, <1>5, <2>1, inThread \in BOOLEAN, WakeStays
  <2>3. call[t].op = Writes
    BY <1>4, <2>2 DEF MsgQOps
  <2>4. /\ eligible(t, Writes) /\ ~eligible(t, Writes)' /\ msgq.used = MaxMsgs
        /\ \A u \in Threads \ {t} : eligible(u, Writes)' <=> eligible(u, Writes)
        /\ \A u \in Threads : /\ ~eligible(u, Reads)'
                              /\ served(u, Reads)' <=> served(u, Reads)
    BY <1>0, <1>4, <2>2, <2>3
  <2>5. /\ RingOK(msgq') /\ msgq'.used = q.used + 1
        /\ Contents(msgq') = Append(Contents(q), data[t])
    <3>1. q.used < MaxMsgs /\ data[t] \in Words
      BY <1>0, <1>3, <2>2
    <3> QED BY <1>3, <2>1, <3>1, WriteAppends
  <2>6. msgq'.used = MaxMsgs
    BY <1>0, <1>3, <2>4, <2>5
  <2>7. MsgQInv'
    BY <1>0, <1>2, <2>2, <2>4, <2>5, <2>6 DEF MsgQInv, RingOK
  <2>8. bufMap' = Append(Tail(bufMap), data[t])
    BY <1>0, <1>3, <2>5 DEF bufMap, Contents
  <2>9. /\ <<t, data[t]>> \in writersMap
        /\ writersMap' = writersMap \ {<<t, data[t]>>}
    BY <1>2, <2>2, <2>4, MapsLess
  <2>10. readersMap' = readersMap /\ deliveredMap' = deliveredMap
    BY <1>2, <1>4, <2>4, MapsSame
  <2>11. <<t, data[t]>>[2] = data[t] /\ bufMap # <<>>
    BY <1>0, <1>3
  <2>12. AbsMsgQ!Get
    BY <2>8, <2>9, <2>10, <2>11 DEF AbsMsgQ!Get
  <2> QED BY <2>7, <2>12 DEF AbsStep, AbsMsgQ!Next
<1>6. CASE t = NoThread
  <2>1. k' = k /\ msgq' = q
    BY <1>1, <1>6 DEF k_msgq_get
  <2>2. ObjWaits(MsgQWaitQ, MsgQOps)' /\ Bystander(MsgQOps)
    BY <1>0, <1>2, <2>1, FrameStays
  <2>3. \A u \in Threads, o \in MsgQOps : ~eligible(u, o)
    BY <1>0, <1>1, <1>6, NobodyWaits
  <2>4. \A u \in Threads : /\ ~eligible(u, Reads) /\ ~eligible(u, Writes)
                           /\ ~eligible(u, Reads)' /\ ~eligible(u, Writes)'
                           /\ served(u, Reads)' <=> served(u, Reads)
    BY <1>0, <2>2, <2>3 DEF Bystander
  <2>5. RingOK(msgq') /\ Contents(msgq') = Tail(Contents(msgq))
    BY <1>3, <2>1
  <2>6. MsgQInv'
    BY <1>0, <1>2, <2>2, <2>4, <2>5 DEF MsgQInv, RingOK
  <2>7. bufMap' = Tail(bufMap) /\ bufMap # <<>>
    BY <1>0, <1>3, <2>5 DEF bufMap, Contents
  <2>8. writersMap = {}
    BY <2>4, MapsAre
  <2>9. readersMap' = readersMap /\ writersMap' = writersMap /\ deliveredMap' = deliveredMap
    BY <1>2, <2>4, MapsSame
  <2>10. AbsMsgQ!Get
    BY <2>7, <2>8, <2>9 DEF AbsMsgQ!Get
  <2> QED BY <2>6, <2>10 DEF AbsStep, AbsMsgQ!Next
<1> QED BY <1>5, <1>6

\* the timeouts a thread waits with
LEMMA PatienceIs ==
    ASSUME IInv, NEW timeout \in Patience[k.current]
    PROVE  timeout \in {"TIMED", "FOREVER"}
<1>1. k.current \in Threads
  BY CurrentRuns
<1>2. Patience \in [Threads -> SUBSET {"TIMED", "FOREVER"}]
  BY ObjectsAssumption
<1> QED BY <1>1, <1>2

\* an empty queue makes a reader wait, a full one a writer
LEMMA WaitStays ==
    ASSUME MsgQInv, NEW timeout \in Patience[k.current],
           \/ k_msgq_get_wait(timeout)
           \/ \E m \in Items : k_msgq_put_wait(m, timeout)
    PROVE  MsgQInv' /\ AbsStep
<1>0. /\ ObjWaits(MsgQWaitQ, MsgQOps) /\ MsgQWaitQ \in WaitQs
      /\ "none" \notin MsgQOps /\ Reads \in MsgQOps /\ Writes \in MsgQOps
      /\ Reads # Writes /\ RingOK(msgq) /\ data \in [Threads -> Words]
      /\ bufMap = Contents(msgq) /\ Len(bufMap) = msgq.used
      /\ (bufMap = <<>> <=> msgq.used = 0)
      /\ \A t \in Threads : eligible(t, Reads) => msgq.used = 0
      /\ \A t \in Threads : eligible(t, Writes) => msgq.used = MaxMsgs
  BY MsgQFacts
<1>1. PICK c : c = k.current
  OBVIOUS
<1>2. /\ c \in Threads /\ "PENDING" \notin k.state[c] /\ timeout \in {"TIMED", "FOREVER"}
  BY <1>0, <1>1, CurrentRuns, PatienceIs DEF ObjWaits
<1>3. InThread /\ call[c] = NoCall /\ msgq' = msgq
  BY <1>1 DEF k_msgq_get_wait, k_msgq_put_wait, Caller
<1>4. \A p \in MsgQOps : ~eligible(c, p) /\ ~served(c, p)
  BY <1>0, <1>2, <1>3 DEF eligible, served, waits_in, NoCall
<1>5. bufMap' = bufMap
  BY <1>3 DEF bufMap
<1>6. CASE k_msgq_get_wait(timeout)
  <2>1. PICK r : r = [op |-> Reads]
    OBVIOUS
  <2>2. msgq.used = 0 /\ data' = data /\ Block(MsgQWaitQ, timeout, r)
    BY <1>6, <2>1 DEF k_msgq_get_wait, Reads
  <2>3. /\ ObjWaits(MsgQWaitQ, MsgQOps)'
        /\ \A t \in Threads, p \in MsgQOps :
             /\ served(t, p)' <=> served(t, p)
             /\ eligible(t, p)' <=> eligible(t, p) \/ (t = c /\ p = Reads)
    BY ONLY <1>0, <1>1, <1>2, <1>3, <2>1, <2>2, BlockStays
  <2>4. \A t \in Threads : /\ served(t, Reads)' <=> served(t, Reads)
                           /\ eligible(t, Reads)' <=> eligible(t, Reads) \/ t = c
                           /\ eligible(t, Writes)' <=> eligible(t, Writes)
    BY <1>0, <2>3
  <2>5. MsgQInv'
    BY <1>0, <1>3, <2>2, <2>3, <2>4 DEF MsgQInv, RingOK
  <2>6. readersMap' = readersMap \cup {c}
    <3>1. readersMap' = {u \in Threads : eligible(u, Reads)'}
      BY DEF readersMap, Reads
    <3>2. readersMap = {u \in Threads : eligible(u, Reads)}
      BY MapsAre
    <3> QED BY ONLY <1>2, <2>4, <3>1, <3>2
  <2>7. writersMap' = writersMap /\ deliveredMap' = deliveredMap
    BY <2>2, <2>4, MapsSame
  <2>8. AbsMsgQ!WaitGet(c)
    BY <1>0, <1>5, <2>2, <2>6, <2>7 DEF AbsMsgQ!WaitGet
  <2> QED BY <1>2, <2>5, <2>8 DEF AbsStep, AbsMsgQ!Next
<1>7. ASSUME NEW m \in Items, k_msgq_put_wait(m, timeout) PROVE MsgQInv' /\ AbsStep
  <2>1. PICK r : r = [op |-> Writes]
    OBVIOUS
  <2>2. /\ msgq.used = MaxMsgs /\ data' = [data EXCEPT ![c] = m]
        /\ Block(MsgQWaitQ, timeout, r)
    BY <1>1, <1>7, <2>1 DEF k_msgq_put_wait, Writes
  <2>3. /\ ObjWaits(MsgQWaitQ, MsgQOps)'
        /\ \A t \in Threads, p \in MsgQOps :
             /\ served(t, p)' <=> served(t, p)
             /\ eligible(t, p)' <=> eligible(t, p) \/ (t = c /\ p = Writes)
    BY ONLY <1>0, <1>1, <1>2, <1>3, <2>1, <2>2, BlockStays
  <2>4. \A t \in Threads : /\ served(t, Reads)' <=> served(t, Reads)
                           /\ eligible(t, Reads)' <=> eligible(t, Reads)
                           /\ eligible(t, Writes)' <=> eligible(t, Writes) \/ t = c
    BY <1>0, <2>3
  <2>5. /\ data' \in [Threads -> Words] /\ data'[c] = m
        /\ \A t \in Threads \ {c} : data'[t] = data[t]
    BY <1>0, <1>2, <2>2 DEF Words
  <2>6. MsgQInv'
    BY <1>0, <1>3, <2>2, <2>3, <2>4, <2>5 DEF MsgQInv, RingOK
  <2>7. ~eligible(c, Writes) /\ ~served(c, Reads)
    BY <1>0, <1>4
  <2>8. writersMap' = writersMap \cup {<<c, m>>}
    <3>1. writersMap' = {<<u, data'[u]>> : u \in {v \in Threads : eligible(v, Writes)'}}
      BY DEF writersMap, Writes
    <3>2. writersMap = {<<u, data[u]>> : u \in {v \in Threads : eligible(v, Writes)}}
      BY MapsAre
    <3>3. \A e : e \in writersMap' <=> e \in writersMap \/ e = <<c, m>>
      BY ONLY <1>2, <2>4, <2>5, <2>7, <3>1, <3>2
    <3> QED BY <3>3
  <2>9. readersMap' = readersMap /\ deliveredMap' = deliveredMap
    BY <2>4, <2>5, <2>7, MapsSame
  <2>10. AbsMsgQ!WaitPut(c, m)
    BY <1>0, <1>5, <2>2, <2>8, <2>9 DEF AbsMsgQ!WaitPut
  <2> QED BY <1>2, <2>6, <2>10 DEF AbsStep, AbsMsgQ!Next
<1> QED BY <1>6, <1>7

\* a call that waited ends; a reader that was served collects its message
LEMMA ReturnsStays ==
    ASSUME MsgQInv, k_msgq_return
    PROVE  MsgQInv' /\ AbsStep
<1>0. /\ ObjWaits(MsgQWaitQ, MsgQOps) /\ MsgQWaitQ \in WaitQs
      /\ "none" \notin MsgQOps /\ Reads \in MsgQOps /\ Writes \in MsgQOps
      /\ Reads # Writes /\ RingOK(msgq) /\ data \in [Threads -> Words]
      /\ \A t \in Threads : eligible(t, Reads) => msgq.used = 0
      /\ \A t \in Threads : eligible(t, Writes) => msgq.used = MaxMsgs
  BY MsgQFacts
<1>1. PICK c, o : c = k.current /\ o \in MsgQOps /\ Resumes(o)
  BY <1>0 DEF k_msgq_return, Reads, Writes
<1>2. Returns /\ msgq' = msgq /\ data' = [data EXCEPT ![c] = Nil]
  BY <1>1 DEF k_msgq_return, Returns
<1>3. /\ ObjWaits(MsgQWaitQ, MsgQOps)' /\ c \in Threads
      /\ \A t \in Threads, p \in MsgQOps :
           /\ served(t, p)' <=> served(t, p) /\ t # c
           /\ eligible(t, p)' <=> eligible(t, p)
  BY ONLY <1>0, <1>1, <1>2, ReturnStays
<1>4. \A t \in Threads : /\ served(t, Reads)' <=> served(t, Reads) /\ t # c
                         /\ eligible(t, Reads)' <=> eligible(t, Reads)
                         /\ eligible(t, Writes)' <=> eligible(t, Writes)
  BY <1>0, <1>3
<1>5. /\ data' \in [Threads -> Words] /\ data'[c] = Nil
      /\ \A t \in Threads \ {c} : data'[t] = data[t]
  BY <1>0, <1>2, <1>3 DEF Words
<1>6. MsgQInv'
  BY <1>0, <1>2, <1>3, <1>4, <1>5 DEF MsgQInv, RingOK
<1>7. bufMap' = bufMap
  BY <1>2 DEF bufMap
<1>8. "PENDING" \notin k.state[c]
  BY <1>0, <1>1, CurrentRuns DEF ObjWaits
<1>9. ~eligible(c, Writes)
  BY <1>8 DEF eligible, waits_in
<1>10. readersMap' = readersMap
  BY <1>4, MapsAre DEF readersMap, Reads
<1>11. writersMap' = writersMap
  <2>1. writersMap' = {<<u, data'[u]>> : u \in {v \in Threads : eligible(v, Writes)'}}
    BY DEF writersMap, Writes
  <2>2. writersMap = {<<u, data[u]>> : u \in {v \in Threads : eligible(v, Writes)}}
    BY MapsAre
  <2>3. \A e : e \in writersMap' <=> e \in writersMap
    BY ONLY <1>4, <1>5, <1>9, <2>1, <2>2
  <2> QED BY <2>3
<1>12. deliveredMap' = {<<u, data'[u]>> : u \in {v \in Threads : served(v, Reads)'}}
  BY DEF deliveredMap, Reads
<1>13. deliveredMap = {<<u, data[u]>> : u \in {v \in Threads : served(v, Reads)}}
  BY MapsAre
<1>14. CASE served(c, Reads)
  <2>1. \A e : e \in deliveredMap' <=> e \in deliveredMap /\ e # <<c, data[c]>>
    BY ONLY <1>3, <1>4, <1>5, <1>12, <1>13, <1>14
  <2>2. <<c, data[c]>> \in deliveredMap
    BY ONLY <1>3, <1>13, <1>14
  <2>3. deliveredMap' = deliveredMap \ {<<c, data[c]>>}
    BY <2>1
  <2>4. \E d \in deliveredMap : AbsMsgQ!Collect(d)
    BY <1>7, <1>10, <1>11, <2>2, <2>3 DEF AbsMsgQ!Collect
  <2> QED BY <1>6, <2>4 DEF AbsStep, AbsMsgQ!Next
<1>15. CASE ~served(c, Reads)
  <2>1. \A e : e \in deliveredMap' <=> e \in deliveredMap
    BY ONLY <1>3, <1>4, <1>5, <1>12, <1>13, <1>15
  <2> QED BY <1>6, <1>7, <1>10, <1>11, <2>1 DEF AbsStep
<1> QED BY <1>14, <1>15

\* k_msgq_purge(): an empty ring and nobody waiting
LEMMA PurgesStays ==
    ASSUME MsgQInv, k_msgq_purge
    PROVE  MsgQInv' /\ AbsStep
<1>0. /\ ObjWaits(MsgQWaitQ, MsgQOps) /\ "none" \notin MsgQOps
      /\ Reads \in MsgQOps /\ Writes \in MsgQOps /\ RingOK(msgq)
      /\ data \in [Threads -> Words] /\ MaxMsgs \in Nat /\ MaxMsgs > 0
  BY MsgQFacts
<1>1. /\ Caller(TRUE) /\ k' = reschedule_threads(wake_purged(k))
      /\ isr' = isr /\ clk' = clk /\ slice' = slice /\ call' = call /\ data' = data
      /\ msgq' = [msgq EXCEPT !.used = 0, !.read = msgq.write,
                              !.buffer = [i \in DOMAIN @ |-> Nil]]
  BY DEF k_msgq_purge, Call
<1>2. /\ ObjWaits(MsgQWaitQ, MsgQOps)'
      /\ \A t \in Threads, o \in MsgQOps : (served(t, o)' <=> served(t, o))
                                           /\ ~eligible(t, o)'
  BY ONLY <1>0, <1>1, PurgeStays
<1>3. \A t \in Threads : /\ served(t, Reads)' <=> served(t, Reads)
                         /\ ~eligible(t, Reads)' /\ ~eligible(t, Writes)'
  BY <1>0, <1>2
<1>4. /\ msgq \in [buffer : [0..(MaxMsgs - 1) -> Words], read : 0..(MaxMsgs - 1),
                   write : 0..(MaxMsgs - 1), used : 0..MaxMsgs]
      /\ msgq.buffer \in [0..(MaxMsgs - 1) -> Words]
  BY <1>0 DEF RingOK
<1>5. /\ msgq'.used = 0 /\ msgq'.read = msgq.write /\ msgq'.write = msgq.write
      /\ msgq' \in [buffer : [0..(MaxMsgs - 1) -> Words], read : 0..(MaxMsgs - 1),
                    write : 0..(MaxMsgs - 1), used : 0..MaxMsgs]
  <2>1. [i \in DOMAIN msgq.buffer |-> Nil] \in [0..(MaxMsgs - 1) -> Words]
    BY <1>4 DEF Words
  <2>2. 0 \in 0..MaxMsgs /\ msgq.write \in 0..(MaxMsgs - 1)
    BY <1>0, <1>4
  <2> QED BY <1>1, <1>4, <2>1, <2>2
<1>6. msgq'.write = Slot(msgq'.read + msgq'.used)
  <2>1. msgq.write \in Nat /\ msgq.write < MaxMsgs
    BY <1>0, <1>4
  <2>2. Slot(msgq.write + 0) = msgq.write
    BY <2>1 DEF Slot
  <2> QED BY <1>5, <2>1, <2>2
<1>7. RingOK(msgq')
  BY <1>5, <1>6 DEF RingOK
<1>8. MsgQInv'
  BY <1>0, <1>1, <1>2, <1>3, <1>7 DEF MsgQInv, RingOK
<1>9. bufMap' = <<>>
  <2>1. bufMap' = Contents(msgq')
    BY DEF bufMap, Contents
  <2>2. Contents(msgq') \in Seq(Words) /\ Len(Contents(msgq')) = 0
    BY <1>5, <1>7, ContentsAre
  <2> QED BY <2>1, <2>2, EmptySeq
<1>10. readersMap' = {} /\ writersMap' = {}
  BY <1>3 DEF readersMap, writersMap, Reads, Writes
<1>11. deliveredMap' = deliveredMap
  BY <1>1, <1>3, MapsSame
<1>12. AbsMsgQ!Purge
  BY <1>9, <1>10, <1>11 DEF AbsMsgQ!Purge
<1> QED BY <1>8, <1>12 DEF AbsStep, AbsMsgQ!Next

\* every step of a behaviour that exercises a message queue
LEMMA MsgQStays ==
    ASSUME Port = "arm", MsgQInv, MsgQNext
    PROVE  MsgQInv' /\ AbsStep
<1>1. CASE Environment /\ UNCHANGED msgq
  <2>1. ObjWaits(MsgQWaitQ, MsgQOps) /\ MsgQWaitQ \in WaitQs /\ "none" \notin MsgQOps
    BY MsgQFacts
  <2>2. /\ ObjWaits(MsgQWaitQ, MsgQOps)' /\ Bystander(MsgQOps) /\ data' = data
    BY <1>1, <2>1, EnvironmentStays
  <2> QED BY <1>1, <2>2, MsgQQuiet
<1> QED BY <1>1, PutStays, GetStays, WaitStays, ReturnsStays, PurgesStays DEF MsgQNext

(***************************************************************************)
(* A behaviour exercises one object: use never changes.                    *)
(***************************************************************************)
LEMMA UseFixed == [Next]_vars => use' = use
<1> SUFFICES ASSUME [Next]_vars PROVE use' = use
  OBVIOUS
<1>1. CASE UNCHANGED vars
  BY <1>1 DEF vars, objVars
<1>2. Interrupts \/ Environment \/ Rest => use' = use
  BY DEF Interrupts, Environment, Rest, objVars
<1>3. CASE MsgQNext
  BY <1>2, <1>3 DEF MsgQNext, k_msgq_get, k_msgq_put, k_msgq_get_wait, k_msgq_put_wait,
     k_msgq_return, k_msgq_purge, msgqFrame
<1>4. CASE StackNext
  BY <1>2, <1>4 DEF StackNext, k_stack_pop, k_stack_push, k_stack_pop_wait,
     k_stack_pop_return, stackFrame
<1>5. CASE MemSlabNext
  BY <1>2, <1>5 DEF MemSlabNext, k_mem_slab_alloc, k_mem_slab_alloc_wait,
     k_mem_slab_alloc_return, k_mem_slab_free, PassBlock, slabFrame
<1>6. CASE MemPoolNext
  BY <1>2, <1>6 DEF MemPoolNext, k_mem_pool_alloc, pool_search, alloc_block, pool_break,
     pool_wait, pool_retry, isr_k_mem_pool_alloc, k_mem_pool_free, isr_k_mem_pool_free,
     pool_free, pool_wake, poolFrame
<1>7. CASE MailboxNext
  BY <1>2, <1>7 DEF MailboxNext, k_mbox_put_match, k_mbox_get_match, k_mbox_put_wait,
     k_mbox_get_wait, k_mbox_put_return, k_mbox_get_return, mbox_message_dispose, mboxFrame
<1>8. CASE PipeNext
  BY <1>2, <1>8 DEF PipeNext, k_pipe_put, k_pipe_get, prepare, pipe_put, pipe_get,
     pipe_return, pipeFrame
<1> QED BY <1>1, <1>3, <1>4, <1>5, <1>6, <1>7, <1>8 DEF Next

(***************************************************************************)
(* In a behaviour that exercises another object no thread is in a call of  *)
(* the message queue, which stays empty.                                   *)
(***************************************************************************)
Foreign(c) == "op" \in DOMAIN c /\ c.op \notin MsgQOps
Elsewhere ==
    /\ DOMAIN call = Threads /\ \A t \in Threads : Foreign(call[t])
    /\ msgq.used = 0

\* what a step of another object may do to the calls threads are in
ForeignStep ==
    \/ call' = call
    \/ \E c : /\ k.current \in Threads => Foreign(c)
             /\ call' = [call EXCEPT ![k.current] = c]

\* such a step keeps every thread out of the message queue
LEMMA ElsewhereStays ==
    ASSUME Elsewhere, ForeignStep, msgq' = msgq
    PROVE  Elsewhere'
<1>1. DOMAIN call = Threads /\ (\A t \in Threads : Foreign(call[t])) /\ msgq.used = 0
  BY DEF Elsewhere
<1>2. CASE call' = call
  BY <1>1, <1>2 DEF Elsewhere, Foreign
<1>3. ASSUME NEW c, k.current \in Threads => Foreign(c),
             call' = [call EXCEPT ![k.current] = c]
      PROVE  Elsewhere'
  <2>1. DOMAIN call' = Threads
    BY <1>1, <1>3
  <2>2. \A t \in Threads : call'[t] = call[t] \/ (t = k.current /\ call'[t] = c)
    BY <1>1, <1>3
  <2>3. \A t \in Threads : Foreign(call'[t])
    BY <1>1, <1>3, <2>2
  <2> QED BY <1>1, <2>1, <2>3 DEF Elsewhere, Foreign
<1> QED BY <1>2, <1>3 DEF ForeignStep

\* the call of a thread that is in none
LEMMA ForeignNone == Foreign(NoCall)
BY DEF Foreign, NoCall, MsgQOps, Reads, Writes

\* the environment changes no call
LEMMA AroundForeign == Interrupts \/ Environment \/ Rest => ForeignStep
BY DEF Interrupts, Environment, Rest, objVars, ForeignStep

\* the stack's steps are of that kind
LEMMA StackForeign == StackNext => ForeignStep
<1> SUFFICES ASSUME StackNext PROVE ForeignStep
  OBVIOUS
<1>1. Foreign([op |-> "stack_pop"])
  BY DEF Foreign, MsgQOps, Reads, Writes
<1>2. ASSUME NEW x \in BOOLEAN, k_stack_pop(x) \/ \E y \in Items : k_stack_push(x, y)
      PROVE  ForeignStep
  BY <1>2 DEF k_stack_pop, k_stack_push, ForeignStep
<1>3. ASSUME NEW timeout, k_stack_pop_wait(timeout) PROVE ForeignStep
  BY <1>1, <1>3 DEF k_stack_pop_wait, Block, ForeignStep
<1>4. CASE k_stack_pop_return
  BY <1>4, ForeignNone DEF k_stack_pop_return, Returns, ForeignStep
<1> QED BY <1>2, <1>3, <1>4, AroundForeign DEF StackNext

\* and the slab's
LEMMA SlabForeign == MemSlabNext => ForeignStep
<1> SUFFICES ASSUME MemSlabNext PROVE ForeignStep
  OBVIOUS
<1>1. Foreign([op |-> "slab_alloc"])
  BY DEF Foreign, MsgQOps, Reads, Writes
<1>2. ASSUME NEW x \in BOOLEAN, k_mem_slab_alloc(x) PROVE ForeignStep
  BY <1>2 DEF k_mem_slab_alloc, ForeignStep
<1>3. ASSUME NEW timeout, k_mem_slab_alloc_wait(timeout) PROVE ForeignStep
  BY <1>1, <1>3 DEF k_mem_slab_alloc_wait, Block, ForeignStep
<1>4. CASE k_mem_slab_alloc_return
  BY <1>4, ForeignNone DEF k_mem_slab_alloc_return, Returns, ForeignStep
<1>5. ASSUME NEW x \in Items, k_mem_slab_free(x) \/ PassBlock(x) PROVE ForeignStep
  BY <1>5 DEF k_mem_slab_free, PassBlock, ForeignStep
<1> QED BY <1>2, <1>3, <1>4, <1>5, AroundForeign DEF MemSlabNext

\* and the pool's
LEMMA PoolForeign ==
    ASSUME Elsewhere, MemPoolNext
    PROVE  ForeignStep
<1> DEFINE c == call[k.current]
           Fits(d) == k.current \in Threads => Foreign(d)
<1> k.current \in Threads => Foreign(c)
  BY DEF Elsewhere
<1>0. ASSUME NEW d, Fits(d), Continue(d) PROVE ForeignStep
  BY <1>0 DEF Continue, ForeignStep
<1>1. \A l, timeout : Foreign(Searching(l, timeout))
  BY DEF Searching, Foreign, MsgQOps, Reads, Writes
<1>2. ASSUME NEW l, NEW timeout, k_mem_pool_alloc(l, timeout) PROVE ForeignStep
  BY <1>0, <1>1, <1>2 DEF k_mem_pool_alloc
<1>3. CASE pool_search
  <2>1. \A i, free : Fits([c EXCEPT !.i = i, !.free = free])
    BY DEF Foreign
  <2> QED BY <1>0, <1>3, <2>1 DEF pool_search
<1>4. CASE alloc_block
  <2>1. \A l, at, bn : Foreign([op |-> "pool_break", l |-> l, at |-> at, bn |-> bn])
    BY DEF Foreign, MsgQOps, Reads, Writes
  <2> QED BY <1>0, <1>4, <2>1, ForeignNone DEF alloc_block
<1>5. CASE pool_break
  <2>1. \A at, bn : Fits([c EXCEPT !.at = at, !.bn = bn])
    BY DEF Foreign
  <2> QED BY <1>0, <1>5, <2>1, ForeignNone DEF pool_break
<1>6. CASE pool_wait
  <2>1. \A l, timeout : Foreign([op |-> "pool_wait", l |-> l, timeout |-> timeout])
    BY DEF Foreign, MsgQOps, Reads, Writes
  <2>2. ASSUME NEW d, Foreign(d), NEW w, NEW timeout, Block(w, timeout, d)
        PROVE  ForeignStep
    BY <2>2 DEF Block, ForeignStep
  <2> QED BY <1>0, <1>6, <2>1, <2>2, ForeignNone DEF pool_wait
<1>7. CASE pool_retry
  BY <1>0, <1>1, <1>7, ForeignNone DEF pool_retry
<1>8. ASSUME NEW b, k_mem_pool_free(b) \/ isr_k_mem_pool_free(b) PROVE ForeignStep
  <2>1. \A l, bn : Foreign([op |-> "pool_free", l |-> l, bn |-> bn])
    BY DEF Foreign, MsgQOps, Reads, Writes
  <2>2. k_mem_pool_free(b) => ForeignStep
    BY <1>0, <2>1 DEF k_mem_pool_free
  <2>3. isr_k_mem_pool_free(b) => ForeignStep
    BY DEF isr_k_mem_pool_free, ForeignStep
  <2> QED BY <1>8, <2>2, <2>3
<1>9. CASE pool_free
  <2>1. \A l, bn : Fits([c EXCEPT !.l = l, !.bn = bn])
    BY DEF Foreign
  <2>2. Foreign([op |-> "pool_wake"])
    BY DEF Foreign, MsgQOps, Reads, Writes
  <2> QED BY <1>0, <1>9, <2>1, <2>2 DEF pool_free
<1>10. CASE pool_wake
  BY <1>0, <1>10, ForeignNone DEF pool_wake
<1>11. ASSUME NEW l, isr_k_mem_pool_alloc(l) PROVE ForeignStep
  BY <1>11 DEF isr_k_mem_pool_alloc, ForeignStep
<1> QED BY <1>2, <1>3, <1>4, <1>5, <1>6, <1>7, <1>8, <1>9, <1>10, <1>11, AroundForeign
        DEF MemPoolNext

\* and the mailbox's
LEMMA MailboxForeign == MailboxNext => ForeignStep
<1> SUFFICES ASSUME MailboxNext PROVE ForeignStep
  OBVIOUS
<1>1. \A x : Foreign(Putting(x)) /\ Foreign([op |-> "mbox_get", source |-> x])
  BY DEF Foreign, Putting, MsgQOps, Reads, Writes
<1>2. ASSUME NEW d, Foreign(d), NEW w, NEW timeout, Block(w, timeout, d)
      PROVE  ForeignStep
  BY <1>2 DEF Block, ForeignStep
<1>3. ASSUME NEW peer, k_mbox_put_match(peer) PROVE ForeignStep
  BY <1>1, <1>3 DEF k_mbox_put_match, ForeignStep
<1>4. ASSUME NEW peer, k_mbox_get_match(peer) PROVE ForeignStep
  BY <1>4 DEF k_mbox_get_match, ForeignStep
<1>5. ASSUME NEW peer, NEW timeout,
             k_mbox_put_wait(peer, timeout) \/ k_mbox_get_wait(peer, timeout)
      PROVE  ForeignStep
  BY <1>1, <1>2, <1>5 DEF k_mbox_put_wait, k_mbox_get_wait
<1>6. CASE k_mbox_put_return \/ k_mbox_get_return
  BY <1>6, ForeignNone DEF k_mbox_put_return, k_mbox_get_return, Returns, ForeignStep
<1>7. CASE mbox_message_dispose
  BY <1>7 DEF mbox_message_dispose, ForeignStep
<1> QED BY <1>3, <1>4, <1>5, <1>6, <1>7, AroundForeign DEF MailboxNext

\* and the pipe's
LEMMA PipeForeign == PipeNext => ForeignStep
<1> SUFFICES ASSUME PipeNext PROVE ForeignStep
  OBVIOUS
<1>1. ASSUME NEW op, op \notin MsgQOps
      PROVE  /\ Foreign([op |-> op])
             /\ \A l, p, t : Foreign([op |-> op, list |-> l, partial |-> p, timeout |-> t])
  BY <1>1 DEF Foreign
<1>2. /\ "pipe_putting" \notin MsgQOps /\ "pipe_getting" \notin MsgQOps
      /\ "pipe_put" \notin MsgQOps /\ "pipe_get" \notin MsgQOps
  BY DEF MsgQOps, Reads, Writes
<1>3. ASSUME NEW op, op \notin MsgQOps, NEW w, NEW space, NEW n, NEW min, NEW timeout,
             prepare(op, w, space, n, min, timeout)
      PROVE  ForeignStep
  BY <1>1, <1>3 DEF prepare, ForeignStep
<1>4. ASSUME NEW op, op \notin MsgQOps, NEW p, NEW kk, NEW w, wait_or_return(p, kk, w, op)
      PROVE  ForeignStep
  BY <1>1, <1>4, ForeignNone DEF wait_or_return, ForeignStep
<1>5. ASSUME NEW n, NEW min, NEW timeout,
             k_pipe_put(n, min, timeout) \/ k_pipe_get(n, min, timeout)
      PROVE  ForeignStep
  BY <1>2, <1>3, <1>5 DEF k_pipe_put, k_pipe_get
<1>6. CASE pipe_put
  BY <1>2, <1>4, <1>6 DEF pipe_put
<1>7. CASE pipe_get
  BY <1>2, <1>4, <1>7 DEF pipe_get
<1>8. CASE pipe_return
  BY <1>8, ForeignNone DEF pipe_return, Returns, ForeignStep
<1> QED BY <1>5, <1>6, <1>7, <1>8, AroundForeign DEF PipeNext

(***************************************************************************)
(* The initial states.                                                     *)
(***************************************************************************)
\* one of the orders of a finite set lists it
LEMMA OrderLists ==
    ASSUME NEW S, IsFiniteSet(S), NEW s \in SetToSeqs(S)
    PROVE  Lists(s, S) /\ Len(s) = Cardinality(S)
<1>1. PICK n : n = Cardinality(S)
  OBVIOUS
<1>2. n \in Nat
  BY <1>1, FS_CardinalityType
<1>3. s \in [1..n -> S] /\ \A i, j \in 1..n : i # j => s[i] # s[j]
  BY <1>1 DEF SetToSeqs
<1>4. s \in Injection(1..n, S)
  BY <1>3 DEF Injection, IsInjective
<1>5. Cardinality(1..n) = n
  BY <1>2, FS_Interval
<1>6. s \in Surjection(1..n, S)
  BY <1>1, <1>4, <1>5, FS_Injection
<1>7. \A e \in S : \E i \in 1..n : s[i] = e
  BY <1>6 DEF Surjection
<1>8. s \in Seq(S) /\ Len(s) = n
  BY <1>2, <1>3
<1> QED BY <1>1, <1>3, <1>7, <1>8 DEF Lists

\* all the words with the interrupt
LEMMA StackStart ==
    ASSUME Init, use = "stack"
    PROVE  StackInv
<1>1. /\ ObjectsInit /\ call = [t \in Threads |-> NoCall] /\ stack = <<>>
      /\ held = [p \in Threads \cup {Isr} |-> IF p = Isr THEN Items ELSE {}]
      /\ data = [t \in Threads |-> Nil]
  BY DEF Init, StackInit, ObjectsInit
<1>2. ObjWaits(StackWaitQ, {Pop})
  BY <1>1, InitWaits, StackAssumption
<1>3. \A t \in Threads, o \in {Pop} : "none" # o => ~served(t, o) /\ ~eligible(t, o)
  BY <1>1, InitWaits, StackAssumption
<1>4. \A t \in Threads : ~served(t, Pop)
  BY <1>3 DEF Pop
<1>5. Lists(stack, {})
  BY <1>1 DEF Lists
<1>6. /\ data \in [Threads -> Items \cup {Nil}] /\ held \in [Holders -> SUBSET Items]
      /\ Isr \in Holders /\ held[Isr] = Items
      /\ \A p \in Holders : p # Isr => held[p] = {}
  BY <1>1 DEF Holders
<1>7. OwnInv({}, Pop)
  <2>1. OwnTypes({})
    BY <1>6 DEF OwnTypes
  <2>2. SomePlace({}, Pop) /\ FreeOnly({}, Pop) /\ NoneInVain({}, Pop)
    BY <1>6 DEF SomePlace, FreeOnly, NoneInVain
  <2>3. HeldOnly(Pop) /\ OneWaiter(Pop) /\ ServedSomething(Pop)
    BY <1>4 DEF HeldOnly, OneWaiter, ServedSomething, OnItsWay
  <2>4. OneHolder
    BY <1>6 DEF OneHolder
  <2> QED BY <2>1, <2>2, <2>3, <2>4 DEF OwnInv
<1> QED BY <1>2, <1>5, <1>7 DEF StackInv

\* all the blocks in the free list
LEMMA SlabStart ==
    ASSUME Init, use = "slab"
    PROVE  SlabInv
<1>1. /\ ObjectsInit /\ call = [t \in Threads |-> NoCall]
      /\ held = [p \in Threads \cup {Isr} |-> {}]
      /\ data = [t \in Threads |-> Nil]
  BY DEF Init, ObjectsInit
<1>2. PICK list \in SetToSeqs(Items) : slab = [free |-> list, num_used |-> 0]
  BY DEF Init, MemSlabInit
<1>3. Lists(list, Items) /\ Len(list) = Cardinality(Items)
  BY <1>2, OrderLists, MemSlabAssumption
<1>4. Lists(slab.free, Items) /\ slab.num_used = Cardinality(Items) - Len(slab.free)
  <2>1. slab.free = list /\ slab.num_used = 0 /\ Cardinality(Items) \in Nat
    BY <1>2, MemSlabAssumption, FS_CardinalityType
  <2> QED BY <1>3, <2>1
<1>5. ObjWaits(SlabWaitQ, {Alloc})
  BY <1>1, InitWaits, MemSlabAssumption
<1>6. \A t \in Threads, o \in {Alloc} : "none" # o => ~served(t, o) /\ ~eligible(t, o)
  BY <1>1, InitWaits, MemSlabAssumption
<1>7. \A t \in Threads : ~served(t, Alloc) /\ ~eligible(t, Alloc)
  BY <1>6 DEF Alloc
<1>8. /\ data \in [Threads -> Items \cup {Nil}] /\ held \in [Holders -> SUBSET Items]
      /\ \A p \in Holders : held[p] = {}
  BY <1>1 DEF Holders
<1>9. OwnInv(Items, Alloc)
  <2>1. OwnTypes(Items) /\ SomePlace(Items, Alloc) /\ NoneInVain(Items, Alloc)
    BY <1>7, <1>8 DEF OwnTypes, SomePlace, NoneInVain
  <2>2. FreeOnly(Items, Alloc) /\ HeldOnly(Alloc)
    BY <1>7, <1>8 DEF FreeOnly, HeldOnly, OnItsWay
  <2>3. OneHolder
    BY <1>8 DEF OneHolder
  <2>4. OneWaiter(Alloc) /\ ServedSomething(Alloc)
    BY <1>7 DEF OneWaiter, ServedSomething
  <2> QED BY <2>1, <2>2, <2>3, <2>4 DEF OwnInv
<1> QED BY <1>4, <1>5, <1>9 DEF SlabInv

\* an empty ring and nobody waiting
LEMMA MsgQStart ==
    ASSUME Init
    PROVE  /\ use = "msgq" => MsgQInv
           /\ use # "msgq" => Elsewhere
           /\ AbsMsgQ!Init
<1>1. /\ ObjectsInit /\ call = [t \in Threads |-> NoCall]
      /\ msgq = [buffer |-> [i \in 0..(MaxMsgs - 1) |-> Nil],
                 read |-> 0, write |-> 0, used |-> 0]
      /\ data = [t \in Threads |-> Nil]
  BY DEF Init, MsgQInit, ObjectsInit
<1>2. MaxMsgs \in Nat /\ MaxMsgs > 0 /\ MsgQWaitQ \in WaitQs
  BY MsgQAssumption
<1>3. ObjWaits(MsgQWaitQ, MsgQOps)
  BY <1>1, <1>2, InitWaits
<1>4. \A t \in Threads, o \in MsgQOps : "none" # o => ~served(t, o) /\ ~eligible(t, o)
  BY <1>1, <1>2, InitWaits
<1>5. \A t \in Threads : ~served(t, Reads) /\ ~eligible(t, Reads) /\ ~eligible(t, Writes)
  BY <1>4 DEF MsgQOps, Reads, Writes
<1>6. /\ msgq.used = 0 /\ msgq.read = 0 /\ msgq.write = 0
      /\ msgq.buffer \in [0..(MaxMsgs - 1) -> Words]
  BY <1>1 DEF Words
<1>7. RingOK(msgq)
  BY <1>1, <1>2, <1>6 DEF RingOK, Slot
<1>8. data \in [Threads -> Words]
  BY <1>1 DEF Words
<1>9. MsgQInv
  BY <1>3, <1>5, <1>7, <1>8 DEF MsgQInv
<1>10. Elsewhere
  BY <1>1, <1>6, ForeignNone DEF Elsewhere
<1>11. bufMap = <<>>
  BY <1>9, <1>6, MsgQFacts
<1>12. readersMap = {} /\ writersMap = {} /\ deliveredMap = {}
  BY <1>5, MapsAre
<1> QED BY <1>9, <1>10, <1>11, <1>12 DEF AbsMsgQ!Init

(***************************************************************************)
(* The invariant, of the behaviours that exercise a message queue, a stack *)
(* or a slab, and of all those that do not exercise a message queue.       *)
(***************************************************************************)
DInv ==
    /\ use = "stack" => StackInv
    /\ use = "slab" => SlabInv
    /\ use = "msgq" => MsgQInv
    /\ use # "msgq" => Elsewhere

\* A behaviour that does not exercise the message queue leaves it alone.
LEMMA ElsewhereStep ==
    ASSUME Elsewhere, use # "msgq", [Next]_vars
    PROVE  Elsewhere' /\ AbsStep
<1>1. ForeignStep /\ msgq' = msgq
  <2>1. CASE UNCHANGED vars
    BY <2>1 DEF vars, objVars, ForeignStep
  <2>2. CASE Next
    BY <2>2, StackForeign, SlabForeign, PoolForeign, MailboxForeign, PipeForeign DEF Next
  <2> QED BY <2>1, <2>2
<1>2. Elsewhere'
  BY <1>1, ElsewhereStays
<1>3. \A t \in Threads : ~served(t, Reads) /\ ~eligible(t, Reads) /\ ~eligible(t, Writes)
  BY DEF Elsewhere, Foreign, MsgQOps, served, eligible, waits_in
<1>4. \A t \in Threads : ~served(t, Reads)' /\ ~eligible(t, Reads)' /\ ~eligible(t, Writes)'
  BY <1>2 DEF Elsewhere, Foreign, MsgQOps, served, eligible, waits_in
<1>5. /\ readersMap' = readersMap /\ writersMap' = writersMap
      /\ deliveredMap' = deliveredMap
  BY <1>3, <1>4, MapsSame
<1>6. bufMap' = bufMap
  BY <1>1 DEF bufMap
<1> QED BY <1>2, <1>5, <1>6 DEF AbsStep

\* Every step of a behaviour that exercises the message queue is one of the
\* bounded FIFO, or none.
LEMMA MsgQStep ==
    ASSUME Port = "arm", MsgQInv, use = "msgq", [Next]_vars
    PROVE  MsgQInv' /\ AbsStep
<1>1. CASE Next
  <2>1. MsgQNext
    BY <1>1 DEF Next
  <2> QED BY <2>1, MsgQStays
<1>2. CASE UNCHANGED vars
  <2>1. /\ k' = k /\ isr' = isr /\ clk' = clk /\ slice' = slice
        /\ call' = call /\ data' = data /\ msgq' = msgq
    BY <1>2 DEF vars, schedVars, objVars
  <2>2. ObjWaits(MsgQWaitQ, MsgQOps) /\ MsgQWaitQ \in WaitQs /\ "none" \notin MsgQOps
    BY MsgQFacts
  <2>3. ObjWaits(MsgQWaitQ, MsgQOps)' /\ Bystander(MsgQOps)
    BY <2>1, <2>2, FrameStays
  <2> QED BY <2>1, <2>3, MsgQQuiet
<1> QED BY <1>1, <1>2


\* Every step keeps the invariant of the object it is about.
LEMMA DataStep ==
    ASSUME Port = "arm", DInv, [Next]_vars
    PROVE  DInv'
<1>1. use' = use
  BY UseFixed
<1>2. ASSUME use = "stack" PROVE StackInv'
  <2>1. StackInv
    BY <1>2 DEF DInv
  <2>2. CASE Next
    <3>1. StackNext
      BY <1>2, <2>2 DEF Next
    <3> QED BY <2>1, <3>1, StackStays
  <2>3. CASE UNCHANGED vars
    <3>1. /\ k' = k /\ isr' = isr /\ clk' = clk /\ slice' = slice
          /\ call' = call /\ data' = data /\ held' = held /\ stack' = stack
      BY <2>3 DEF vars, schedVars, objVars
    <3>2. ObjWaits(StackWaitQ, {Pop})' /\ Bystander({Pop})
      BY <2>1, <3>1, FrameStays, StackAssumption DEF StackInv
    <3>3. PICK F \in SUBSET Items : Lists(stack, F) /\ OwnInv(F, Pop)
      BY <2>1 DEF StackInv
    <3>4. OwnInv(F, Pop)'
      BY <3>1, <3>2, <3>3, OwnSame DEF Bystander
    <3> QED BY <3>1, <3>2, <3>3, <3>4 DEF StackInv
  <2> QED BY <2>2, <2>3
<1>3. ASSUME use = "slab" PROVE SlabInv'
  <2>1. SlabInv
    BY <1>3 DEF DInv
  <2>2. CASE Next
    <3>1. MemSlabNext
      BY <1>3, <2>2 DEF Next
    <3> QED BY <2>1, <3>1, SlabStays
  <2>3. CASE UNCHANGED vars
    <3>1. /\ k' = k /\ isr' = isr /\ clk' = clk /\ slice' = slice
          /\ call' = call /\ data' = data /\ held' = held /\ slab' = slab
      BY <2>3 DEF vars, schedVars, objVars
    <3>2. ObjWaits(SlabWaitQ, {Alloc})' /\ Bystander({Alloc})
      BY <2>1, <3>1, FrameStays, MemSlabAssumption DEF SlabInv
    <3>3. PICK F \in SUBSET Items : Lists(slab.free, F) /\ OwnInv(F, Alloc)
      BY <2>1 DEF SlabInv
    <3>4. OwnInv(F, Alloc)'
      BY <3>1, <3>2, <3>3, OwnSame DEF Bystander
    <3>5. slab.num_used = Cardinality(Items) - Len(slab.free)
      BY <2>1 DEF SlabInv
    <3> QED BY <3>1, <3>2, <3>3, <3>4, <3>5 DEF SlabInv
  <2> QED BY <2>2, <2>3
<1>4. ASSUME use = "msgq" PROVE MsgQInv'
  BY <1>4, MsgQStep DEF DInv
<1>5. ASSUME use # "msgq" PROVE Elsewhere'
  BY <1>5, ElsewhereStep DEF DInv
<1> QED BY <1>1, <1>2, <1>3, <1>4, <1>5 DEF DInv

\* The three kinds of places are empty or hold x once, and one of them does.
LEMMA CountOnce ==
    ASSUME NEW S, \A e, f \in S : e = f
    PROVE  Cardinality(S) = (IF S = {} THEN 0 ELSE 1)
<1>1. CASE S = {}
  BY <1>1, FS_EmptySet
<1>2. CASE S # {}
  <2>1. PICK e : e \in S
    BY <1>2
  <2>2. S = {e}
    BY <2>1
  <2> QED BY <1>2, <2>2, FS_Singleton
<1> QED BY <1>1, <1>2

\* who has x besides the object: one holder or one served waiter, if anyone
LEMMA UsersCount ==
    ASSUME NEW o, NEW F, OwnInv(F, o), NEW x \in Items, NEW B, NEW C,
           B = {p \in DOMAIN held : x \in held[p]},
           C = {t \in Threads : served(t, o) /\ data[t] = x}
    PROVE  /\ Cardinality(B) \in Nat /\ Cardinality(C) \in Nat
           /\ Cardinality(B) + Cardinality(C) = (IF x \in F THEN 0 ELSE 1)
<1>1. /\ DOMAIN held = Holders
      /\ \/ x \in F
         \/ \E p \in Holders : x \in held[p]
         \/ \E t \in Threads : served(t, o) /\ data[t] = x
  BY DEF OwnInv, OwnTypes, SomePlace, OnItsWay
<1>2. x \in F => /\ \A p \in Holders : x \notin held[p]
                 /\ \A t \in Threads : ~(served(t, o) /\ data[t] = x)
  BY DEF OwnInv, FreeOnly, OnItsWay
<1>3. \A p \in Holders, t \in Threads : x \in held[p] => ~(served(t, o) /\ data[t] = x)
  BY DEF OwnInv, HeldOnly, OnItsWay
<1>4. \A p, q \in B : p = q
  BY <1>1 DEF OwnInv, OneHolder
<1>5. \A t, u \in C : t = u
  BY DEF OwnInv, OneWaiter
<1>6. /\ Cardinality(B) = (IF B = {} THEN 0 ELSE 1)
      /\ Cardinality(C) = (IF C = {} THEN 0 ELSE 1)
  BY <1>4, <1>5, CountOnce
<1>7. x \in F => B = {} /\ C = {}
  BY <1>1, <1>2
<1>8. x \notin F => (B = {}) # (C = {})
  BY <1>1, <1>3
<1> QED BY <1>6, <1>7, <1>8

\* The invariant of the stack says of each word what StackKeepsWords says.
LEMMA StackInvWords == StackInv /\ use = "stack" => StackKeepsWords
<1> SUFFICES ASSUME StackInv PROVE StackKeepsWords
  OBVIOUS
<1>1. PICK F \in SUBSET Items : Lists(stack, F) /\ OwnInv(F, Pop)
  BY DEF StackInv
<1>2. ASSUME NEW x \in Items PROVE StackPlaces(x) = 1
  <2>1. PICK A, B, C : /\ A = {i \in 1..Len(stack) : stack[i] = x}
                       /\ B = {p \in DOMAIN held : x \in held[p]}
                       /\ C = {t \in Threads : served(t, Pop) /\ data[t] = x}
    OBVIOUS
  <2>2. StackPlaces(x) = Cardinality(A) + Cardinality(B) + Cardinality(C)
    BY <2>1 DEF StackPlaces, Pop
  <2>3. /\ Cardinality(B) \in Nat /\ Cardinality(C) \in Nat
        /\ Cardinality(B) + Cardinality(C) = (IF x \in F THEN 0 ELSE 1)
    <3>1. /\ B = {p \in DOMAIN held : x \in held[p]}
          /\ C = {t \in Threads : served(t, Pop) /\ data[t] = x}
      BY <2>1
    <3>2. x \in Items /\ OwnInv(F, Pop)
      BY <1>1
    <3> QED BY ONLY <3>1, <3>2, UsersCount
  <2>4. Cardinality(A) = (IF x \in F THEN 1 ELSE 0)
    <3>1. \A i, j \in A : i = j
      BY <1>1, <2>1 DEF Lists
    <3>2. A = {} <=> x \notin F
      <4>1. stack \in Seq(F) /\ \A e \in F : \E i \in 1..Len(stack) : stack[i] = e
        BY <1>1 DEF Lists
      <4>2. \A i \in 1..Len(stack) : stack[i] \in F
        BY <4>1
      <4> QED BY <2>1, <4>1, <4>2
    <3> QED BY <3>1, <3>2, CountOnce
  <2> QED BY <2>2, <2>3, <2>4
<1>3. ASSUME stack # <<>> PROVE \A t \in Threads : ~eligible(t, Pop)
  <2>1. F # {}
    <3>1. stack \in Seq(F)
      BY <1>1 DEF Lists
    <3> QED BY <1>3, <3>1
  <2> QED BY <1>1, <2>1 DEF OwnInv, NoneInVain
<1> QED BY <1>2, <1>3 DEF StackKeepsWords, Pop

\* The invariant of the slab says of each block what SlabBlocksOwned says.
LEMMA SlabInvBlocks == SlabInv /\ use = "slab" => SlabBlocksOwned
<1> SUFFICES ASSUME SlabInv PROVE SlabBlocksOwned
  OBVIOUS
<1>1. PICK F \in SUBSET Items : Lists(slab.free, F) /\ OwnInv(F, Alloc)
  BY DEF SlabInv
<1>2. PICK s : s = slab.free
  OBVIOUS
<1>3. /\ s \in Seq(F) /\ DOMAIN s = 1..Len(s)
      /\ \A i, j \in 1..Len(s) : s[i] = s[j] => i = j
      /\ \A e \in F : \E i \in 1..Len(s) : s[i] = e
  BY <1>1, <1>2 DEF Lists
<1>4. IsInjective(s)
  BY <1>3 DEF IsInjective
<1>5. ASSUME NEW x \in Items
      PROVE  SlabUsers(x) = (IF Contains(s, x) THEN 0 ELSE 1)
  <2>1. Contains(s, x) <=> x \in F
    <3>1. \A i \in 1..Len(s) : s[i] \in F
      BY <1>3
    <3> QED BY <1>3, <3>1 DEF Contains
  <2>2. PICK B, C : /\ B = {p \in DOMAIN held : x \in held[p]}
                    /\ C = {t \in Threads : served(t, Alloc) /\ data[t] = x}
    OBVIOUS
  <2>3. SlabUsers(x) = Cardinality(B) + Cardinality(C)
    BY <2>2 DEF SlabUsers, Alloc
  <2>4. Cardinality(B) + Cardinality(C) = (IF x \in F THEN 0 ELSE 1)
    BY <1>1, <2>2, UsersCount
  <2> QED BY <2>1, <2>3, <2>4
<1>6. ASSUME s # <<>> PROVE \A t \in Threads : ~eligible(t, Alloc)
  <2>1. F # {}
    BY <1>3, <1>6
  <2> QED BY <1>1, <2>1 DEF OwnInv, NoneInVain
<1>7. slab.num_used = Cardinality(Items) - Len(slab.free)
  BY DEF SlabInv
<1> QED BY <1>2, <1>4, <1>5, <1>6, <1>7 DEF SlabBlocksOwned, Alloc

(***************************************************************************)
(* The theorems, on the ARM port: there a waiter's call returns with the   *)
(* value it was given along with its item.                                 *)
(***************************************************************************)
\* Whatever the other threads, the clock and the interrupts do, the message
\* queue, the stack and the slab and those who wait for them stay as MsgQInv,
\* StackInv and SlabInv say.
THEOREM DataInvariant == ASSUME Port = "arm" PROVE Spec => []DInv
<1>1. Init => DInv
  BY StackStart, SlabStart, MsgQStart DEF DInv
<1>2. DInv /\ [Next]_vars => DInv'
  BY DataStep
<1> QED BY <1>1, <1>2, PTL DEF Spec

\* Every word of a stack is in k_stack's array, with one user, or handed by
\* k_stack_push() to one waiter of k_stack_pop(): however many threads wait
\* with or without timeouts and are suspended or aborted, none is lost or
\* given twice, and none waits while there is a word.
THEOREM StackWordsKept == ASSUME Port = "arm" PROVE Spec => []StackKeepsWords
<1>1. DInv => StackKeepsWords
  BY StackInvWords DEF DInv, StackKeepsWords
<1> QED BY <1>1, DataInvariant, PTL

\* Every block of a slab is in the free list once or has one user, num_used
\* counts the others, and no k_mem_slab_alloc() waits while a block is free.
THEOREM SlabBlocksKept == ASSUME Port = "arm" PROVE Spec => []SlabBlocksOwned
<1>1. DInv => SlabBlocksOwned
  BY SlabInvBlocks DEF DInv, SlabBlocksOwned
<1> QED BY <1>1, DataInvariant, PTL

\* The one wait queue of a message queue never mixes readers and writers that
\* can be served: k_msgq_put() finds only readers there when there is room,
\* k_msgq_get() only writers when there is a message, so each may treat the
\* first waiter as what it expects.
THEOREM QueueUnambiguous == ASSUME Port = "arm" PROVE Spec => []WaitersMatchBuffer
<1>1. ASSUME MsgQInv PROVE WaitersMatchBuffer
  BY <1>1 DEF MsgQInv, WaitersMatchBuffer, Reads, Writes
<1>2. ASSUME Elsewhere PROVE WaitersMatchBuffer
  <2>1. \A t \in Threads : ~eligible(t, Reads) /\ ~eligible(t, Writes)
    BY <1>2 DEF Elsewhere, Foreign, MsgQOps, eligible, waits_in
  <2> QED BY <2>1 DEF WaitersMatchBuffer, Reads, Writes
<1>3. DInv => WaitersMatchBuffer
  BY <1>1, <1>2 DEF DInv
<1> QED BY <1>3, DataInvariant, PTL

\* The ring buffer with its wrapping pointers, the shared wait queue and the
\* messages in the waiters' swap_data implement a bounded FIFO: initial states
\* map to initial states, every step of msg_q.c, of the clock, of an interrupt
\* or of a thread that suspends, resumes or aborts a waiter to a step of
\* AbsMsgQ or to none.
THEOREM MsgQImplementsFifo == ASSUME Port = "arm" PROVE Spec => MsgQRefines
<1>1. Init => AbsMsgQ!Init
  BY MsgQStart
<1>2. DInv /\ [Next]_vars => [AbsMsgQ!Next]_<<bufMap, readersMap, writersMap, deliveredMap>>
  BY MsgQStep, ElsewhereStep DEF DInv, AbsStep
<1> QED BY <1>1, <1>2, DataInvariant, PTL DEF Spec, MsgQRefines, AbsMsgQ!Spec, AbsMsgQ!vars

(***************************************************************************)
(* The mailbox.  A sender whose message was taken is on no list until the  *)
(* receiver disposes of the message, over any number of calls and          *)
(* interrupts; whether it is marked pending depends on who came first, and *)
(* by its flags and its timeout alone it may look ready.  So the scheduler *)
(* is consistent not as it stands but when these senders are set aside:    *)
(* kk is the kernel and p the same kernel, except that the threads of L    *)
(* are suspended in it.  Each primitive does to p what it does to kk, and  *)
(* p has the scheduler's invariant.                                        *)
(***************************************************************************)
Parks(kk, p, L) ==
    /\ kk \in KernelType /\ p \in KernelType
    /\ p.current = kk.current /\ p.cache = kk.cache /\ p.q = kk.q
    /\ p.bmap = kk.bmap /\ p.prio = kk.prio /\ p.locked = kk.locked
    /\ p.to = kk.to /\ p.wq = kk.wq /\ p.rv = kk.rv
    /\ p.handling = kk.handling /\ p.elapsed = kk.elapsed
    /\ \A t \in Threads \ L : p.state[t] = kk.state[t]
    /\ \A t \in Threads \cap L :
          p.state[t] = {"SUSPENDED"} /\ kk.state[t] \in SUBSET {"PENDING"}

\* a thread is added to the ready queue
LEMMA ParksAdd ==
    ASSUME NEW kk, NEW p, NEW L, Parks(kk, p, L), NEW t \in Threads
    PROVE  Parks(add_thread_to_ready_q(kk, t), add_thread_to_ready_q(p, t), L)
<1> DEFINE k2 == add_thread_to_ready_q(kk, t)
           p2 == add_thread_to_ready_q(p, t)
<1>1. k2 \in KernelType /\ p2 \in KernelType
  BY AddType DEF Parks
<1>2. SameThreads(kk, k2) /\ SameThreads(p, p2)
  BY QueueOpsSame DEF Parks
<1>3. p2.q = k2.q /\ p2.bmap = k2.bmap /\ p2.cache = k2.cache
  BY DEF Parks, add_thread_to_ready_q, KernelType
<1> HIDE DEF k2, p2
<1>4. Parks(k2, p2, L)
  BY <1>1, <1>2, <1>3 DEF Parks, SameThreads
<1> QED BY <1>4 DEF k2, p2

\* what is left of the ready queue, its bitmap and its cache
LeftQ(kk, t) == [kk.q EXCEPT ![kk.prio[t]] = dlist_remove(kk.q[kk.prio[t]], t)]
LeftMap(kk, t) ==
    IF dlist_remove(kk.q[kk.prio[t]], t) = <<>> THEN kk.bmap \ {kk.prio[t]} ELSE kk.bmap
LeftCache(kk, t) ==
    IF kk.cache = t THEN Head(LeftQ(kk, t)[Min(LeftMap(kk, t))]) ELSE kk.cache

\* they are what the removal computes
LEMMA RemoveFields ==
    ASSUME NEW kk \in KernelType, NEW t \in Threads,
           NEW k2, k2 = remove_thread_from_ready_q(kk, t)
    PROVE  /\ k2.q = LeftQ(kk, t) /\ k2.bmap = LeftMap(kk, t)
           /\ k2.cache = LeftCache(kk, t)
           /\ LeftCache(kk, t) \in Threads => k2 \in KernelType
<1> DEFINE x    == kk.prio[t]
           rest == dlist_remove(kk.q[x], t)
           k1   == [kk EXCEPT !.q[x] = rest,
                              !.bmap = IF rest = <<>> THEN @ \ {x} ELSE @]
<1>1. x \in Prios /\ rest \in Seq(Threads) /\ kk.q \in [Prios -> Seq(Threads)]
  BY RemoveType DEF KernelType
<1>2. k2 = [k1 EXCEPT !.cache = IF @ = t THEN get_ready_q_head(k1) ELSE @]
  BY DEF remove_thread_from_ready_q
<1>3. LeftQ(kk, t) = [kk.q EXCEPT ![x] = rest]
      /\ LeftMap(kk, t) = IF rest = <<>> THEN kk.bmap \ {x} ELSE kk.bmap
  BY DEF LeftQ, LeftMap
<1> HIDE DEF rest, x
<1>4. /\ k1 \in KernelType /\ k1.q = LeftQ(kk, t) /\ k1.bmap = LeftMap(kk, t)
      /\ k1.cache = kk.cache
  BY <1>1, <1>3 DEF KernelType
<1> HIDE DEF k1
<1>5. /\ k2.q = LeftQ(kk, t) /\ k2.bmap = LeftMap(kk, t)
      /\ k2.cache = LeftCache(kk, t)
  BY <1>2, <1>4 DEF KernelType, LeftCache, get_ready_q_head, get_highest_ready_prio
<1>6. ASSUME k2.cache \in Threads PROVE k2 \in KernelType
  BY <1>2, <1>4, <1>6 DEF KernelType
<1> QED BY <1>5, <1>6

\* a thread is removed from the ready queue
LEMMA ParksRemove ==
    ASSUME NEW kk, NEW p, NEW L, Parks(kk, p, L), NEW t \in Threads,
           remove_thread_from_ready_q(p, t) \in KernelType
    PROVE  Parks(remove_thread_from_ready_q(kk, t), remove_thread_from_ready_q(p, t), L)
<1> DEFINE k2 == remove_thread_from_ready_q(kk, t)
           p2 == remove_thread_from_ready_q(p, t)
<1>1. SameThreads(kk, k2) /\ SameThreads(p, p2)
  BY QueueOpsSame DEF Parks
<1>2. LeftQ(p, t) = LeftQ(kk, t) /\ LeftMap(p, t) = LeftMap(kk, t)
      /\ LeftCache(p, t) = LeftCache(kk, t)
  BY DEF Parks, LeftQ, LeftMap, LeftCache
<1>3. /\ p2.q = LeftQ(p, t) /\ p2.bmap = LeftMap(p, t) /\ p2.cache = LeftCache(p, t)
      /\ k2.q = LeftQ(kk, t) /\ k2.bmap = LeftMap(kk, t) /\ k2.cache = LeftCache(kk, t)
      /\ LeftCache(kk, t) \in Threads => k2 \in KernelType
  BY RemoveFields DEF Parks
<1> HIDE DEF k2, p2
<1>4. p2 \in KernelType /\ p2.cache \in Threads
  BY DEF p2, KernelType
<1>5. Parks(k2, p2, L)
  BY <1>1, <1>2, <1>3, <1>4 DEF Parks, SameThreads
<1> QED BY <1>5 DEF k2, p2

\* the ready queue with t at the end of its level, and its cache
MovedQ(kk, t) ==
    [kk.q EXCEPT ![kk.prio[t]] = Append(dlist_remove(kk.q[kk.prio[t]], t), t)]
MovedCache(kk, t) ==
    IF kk.cache = t THEN Head(MovedQ(kk, t)[Min(kk.bmap)]) ELSE kk.cache

\* they are what the move computes
LEMMA MoveFields ==
    ASSUME NEW kk \in KernelType, NEW t \in Threads, Last(kk.q[kk.prio[t]]) # t,
           NEW k2, k2 = move_thread_to_end_of_prio_q(kk, t)
    PROVE  /\ k2.q = MovedQ(kk, t) /\ k2.bmap = kk.bmap
           /\ k2.cache = MovedCache(kk, t)
           /\ MovedCache(kk, t) \in Threads => k2 \in KernelType
<1> DEFINE x    == kk.prio[t]
           rest == Append(dlist_remove(kk.q[x], t), t)
           k1   == [kk EXCEPT !.q[x] = rest]
<1>1. x \in Prios /\ rest \in Seq(Threads) /\ kk.q \in [Prios -> Seq(Threads)]
  BY RemoveType DEF KernelType
<1>2. k2 = [k1 EXCEPT !.cache = IF @ = t THEN get_ready_q_head(k1) ELSE @]
  BY DEF move_thread_to_end_of_prio_q
<1>3. MovedQ(kk, t) = [kk.q EXCEPT ![x] = rest]
  BY DEF MovedQ
<1> HIDE DEF rest, x
<1>4. /\ k1 \in KernelType /\ k1.q = MovedQ(kk, t) /\ k1.bmap = kk.bmap
      /\ k1.cache = kk.cache
  BY <1>1, <1>3 DEF KernelType
<1> HIDE DEF k1
<1>5. /\ k2.q = MovedQ(kk, t) /\ k2.bmap = kk.bmap
      /\ k2.cache = MovedCache(kk, t)
  BY <1>2, <1>4 DEF KernelType, MovedCache, get_ready_q_head, get_highest_ready_prio
<1>6. ASSUME k2.cache \in Threads PROVE k2 \in KernelType
  BY <1>2, <1>4, <1>6 DEF KernelType
<1> QED BY <1>5, <1>6

\* a thread is moved to the end of its level
LEMMA ParksMove ==
    ASSUME NEW kk, NEW p, NEW L, Parks(kk, p, L), NEW t \in Threads,
           move_thread_to_end_of_prio_q(p, t) \in KernelType
    PROVE  Parks(move_thread_to_end_of_prio_q(kk, t), move_thread_to_end_of_prio_q(p, t), L)
<1> DEFINE k2 == move_thread_to_end_of_prio_q(kk, t)
           p2 == move_thread_to_end_of_prio_q(p, t)
<1>0. p.q[p.prio[t]] = kk.q[kk.prio[t]]
  BY DEF Parks
<1>1. CASE Last(kk.q[kk.prio[t]]) = t
  BY <1>0, <1>1 DEF move_thread_to_end_of_prio_q
<1>2. CASE Last(kk.q[kk.prio[t]]) # t
  <2>1. SameThreads(kk, k2) /\ SameThreads(p, p2)
    BY QueueOpsSame DEF Parks
  <2>2. MovedQ(p, t) = MovedQ(kk, t) /\ MovedCache(p, t) = MovedCache(kk, t)
    BY DEF Parks, MovedQ, MovedCache
  <2>3. /\ p2.q = MovedQ(p, t) /\ p2.bmap = p.bmap /\ p2.cache = MovedCache(p, t)
        /\ k2.q = MovedQ(kk, t) /\ k2.bmap = kk.bmap /\ k2.cache = MovedCache(kk, t)
        /\ MovedCache(kk, t) \in Threads => k2 \in KernelType
    BY <1>0, <1>2, MoveFields DEF Parks
  <2> HIDE DEF k2, p2
  <2>4. p2 \in KernelType /\ p2.cache \in Threads
    BY DEF p2, KernelType
  <2>5. Parks(k2, p2, L)
    BY <2>1, <2>2, <2>3, <2>4 DEF Parks, SameThreads
  <2> QED BY <2>5 DEF k2, p2
<1> QED BY <1>1, <1>2

\* context switches
LEMMA ParksSwap ==
    ASSUME NEW kk, NEW p, NEW L, Parks(kk, p, L)
    PROVE  /\ Parks(swap(kk), swap(p), L)
           /\ Parks(reschedule_threads(kk), reschedule_threads(p), L)
           /\ Parks(isr_exit_swap(kk), isr_exit_swap(p), L)
<1>1. Parks(swap(kk), swap(p), L)
  BY DEF Parks, swap, KernelType, RetVals
<1>2. Parks(isr_exit_swap(kk), isr_exit_swap(p), L)
  BY DEF Parks, isr_exit_swap, is_preempt, KernelType, RetVals
<1>3. must_switch_threads(kk) <=> must_switch_threads(p)
  BY DEF Parks, must_switch_threads, is_preempt, get_highest_ready_prio
<1> QED BY <1>1, <1>2, <1>3 DEF reschedule_threads

\* time slicing
LEMMA ParksSlice ==
    ASSUME NEW kk, NEW p, NEW L, Parks(kk, p, L), Live(p), NEW d \in Nat, NEW c
    PROVE  Parks(handle_time_slicing(kk, d, c), handle_time_slicing(p, d, c), L)
<1>1. /\ kk.current = p.current /\ p.current \in Threads /\ p.elapsed \in Nat
      /\ kk.elapsed = p.elapsed
      /\ is_thread_time_slicing(kk, kk.current, d, c)
         <=> is_thread_time_slicing(p, p.current, d, c)
  BY DEF Parks, KernelType, is_thread_time_slicing
<1>2. CASE ~is_thread_time_slicing(p, p.current, d, c)
  BY <1>1, <1>2 DEF handle_time_slicing
<1>3. ASSUME NEW n \in Nat
      PROVE  Parks([kk EXCEPT !.elapsed = n], [p EXCEPT !.elapsed = n], L)
  BY DEF Parks, KernelType
<1>4. CASE is_thread_time_slicing(p, p.current, d, c) /\ p.elapsed + 1 >= d
  <2> DEFINE k1 == [kk EXCEPT !.elapsed = 0]
             p1 == [p EXCEPT !.elapsed = 0]
  <2>1. /\ handle_time_slicing(kk, d, c) = move_thread_to_end_of_prio_q(k1, p.current)
        /\ handle_time_slicing(p, d, c) = move_thread_to_end_of_prio_q(p1, p.current)
    BY <1>1, <1>4 DEF handle_time_slicing
  <2>2. Parks(k1, p1, L)
    BY <1>3
  <2>3. handle_time_slicing(p, d, c) \in KernelType
    BY SlicingLive DEF Live, Good, Holds
  <2> HIDE DEF k1, p1
  <2> QED BY <1>1, <2>1, <2>2, <2>3, ParksMove
<1>5. CASE is_thread_time_slicing(p, p.current, d, c) /\ ~(p.elapsed + 1 >= d)
  <2> DEFINE n == p.elapsed + 1
  <2>1. /\ handle_time_slicing(kk, d, c) = [kk EXCEPT !.elapsed = n]
        /\ handle_time_slicing(p, d, c) = [p EXCEPT !.elapsed = n]
    BY <1>1, <1>5 DEF handle_time_slicing
  <2>2. n \in Nat
    BY <1>1
  <2> HIDE DEF n
  <2> QED BY <1>3, <2>1, <2>2
<1> QED BY <1>2, <1>4, <1>5

\* timeouts, return values, and the clock interrupt's flag
LEMMA ParksSet ==
    ASSUME NEW kk, NEW p, NEW L, Parks(kk, p, L)
    PROVE  /\ \A t \in AllTimeouts, s \in TimeoutStates :
                Parks([kk EXCEPT !.to[t] = s], [p EXCEPT !.to[t] = s], L)
           /\ \A t \in Threads, v \in RetVals :
                Parks([kk EXCEPT !.rv[t] = v], [p EXCEPT !.rv[t] = v], L)
           /\ \A b \in BOOLEAN :
                Parks([kk EXCEPT !.handling = b], [p EXCEPT !.handling = b], L)
<1>1. ASSUME NEW t \in AllTimeouts, NEW s \in TimeoutStates
      PROVE  Parks([kk EXCEPT !.to[t] = s], [p EXCEPT !.to[t] = s], L)
  BY DEF Parks, KernelType
<1>2. ASSUME NEW t \in Threads, NEW v \in RetVals
      PROVE  Parks([kk EXCEPT !.rv[t] = v], [p EXCEPT !.rv[t] = v], L)
  BY DEF Parks, KernelType
<1>3. ASSUME NEW b \in BOOLEAN
      PROVE  Parks([kk EXCEPT !.handling = b], [p EXCEPT !.handling = b], L)
  BY DEF Parks, KernelType
<1> QED BY <1>1, <1>2, <1>3

\* a thread outside L is taken off its wait queue
LEMMA ParksUnpend ==
    ASSUME NEW kk, NEW p, NEW L, Parks(kk, p, L), NEW t \in Threads \ L
    PROVE  Parks(unpend_thread(kk, t), unpend_thread(p, t), L)
<1> DEFINE k2 == unpend_thread(kk, t)
           p2 == unpend_thread(p, t)
<1>1. k2 \in KernelType /\ p2 \in KernelType
  BY UnpendEffect DEF Parks
<1>2. k2.wq = p2.wq /\ k2.elapsed = kk.elapsed /\ p2.elapsed = p.elapsed
  BY DEF Parks, unpend_thread, KernelType
<1>3. /\ k2.q = kk.q /\ k2.bmap = kk.bmap /\ k2.cache = kk.cache
      /\ k2.current = kk.current /\ k2.prio = kk.prio
      /\ k2.locked = kk.locked /\ k2.rv = kk.rv /\ k2.to = kk.to
      /\ k2.handling = kk.handling
      /\ k2.state[t] = kk.state[t] \ {"PENDING"}
      /\ \A u \in Threads \ {t} : k2.state[u] = kk.state[u]
  BY UnpendEffect DEF Parks
<1>4. /\ p2.q = p.q /\ p2.bmap = p.bmap /\ p2.cache = p.cache
      /\ p2.current = p.current /\ p2.prio = p.prio
      /\ p2.locked = p.locked /\ p2.rv = p.rv /\ p2.to = p.to
      /\ p2.handling = p.handling
      /\ p2.state[t] = p.state[t] \ {"PENDING"}
      /\ \A u \in Threads \ {t} : p2.state[u] = p.state[u]
  BY UnpendEffect DEF Parks
<1> HIDE DEF k2, p2
<1>5. Parks(k2, p2, L)
  BY <1>1, <1>2, <1>3, <1>4 DEF Parks
<1> QED BY <1>5 DEF k2, p2

\* a thread outside L is readied, if it is ready
LEMMA ParksReady ==
    ASSUME NEW kk, NEW p, NEW L, Parks(kk, p, L), NEW t \in Threads \ L
    PROVE  Parks(ready_thread(kk, t), ready_thread(p, t), L)
<1> DEFINE k1 == [kk EXCEPT !.state[t] = @ \ {"PRESTART"}]
           p1 == [p EXCEPT !.state[t] = @ \ {"PRESTART"}]
<1>1. Parks(k1, p1, L)
  BY DEF Parks, KernelType
<1>2. is_thread_ready(k1, t) <=> is_thread_ready(p1, t)
  BY <1>1 DEF Parks, is_thread_ready, is_thread_timeout_active
<1>3. /\ ready_thread(kk, t) = IF is_thread_ready(k1, t) THEN add_thread_to_ready_q(k1, t) ELSE k1
      /\ ready_thread(p, t) = IF is_thread_ready(p1, t) THEN add_thread_to_ready_q(p1, t) ELSE p1
  BY DEF ready_thread
<1> HIDE DEF k1, p1
<1> QED BY <1>1, <1>2, <1>3, ParksAdd

\* a thread outside L is woken, or times out
LEMMA ParksWake ==
    ASSUME NEW kk, NEW p, NEW L, Parks(kk, p, L), NEW t \in Threads \ L
    PROVE  /\ Parks(wake_waiter(kk, t), wake_waiter(p, t), L)
           /\ Parks(handle_one_expired_timeout(kk, t), handle_one_expired_timeout(p, t), L)
<1>0. t \in AllTimeouts /\ t \in Threads /\ "INACTIVE" \in TimeoutStates /\ "0" \in RetVals
  BY DEF AllTimeouts, TimeoutStates, RetVals
<1>1. Parks(wake_waiter(kk, t), wake_waiter(p, t), L)
  <2> DEFINE k1 == unpend_thread(kk, t)
             p1 == unpend_thread(p, t)
             k2 == [k1 EXCEPT !.to[t] = "INACTIVE"]
             p2 == [p1 EXCEPT !.to[t] = "INACTIVE"]
             k3 == ready_thread(k2, t)
             p3 == ready_thread(p2, t)
  <2>1. Parks(k1, p1, L)
    BY ParksUnpend
  <2> HIDE DEF k1, p1
  <2>2. Parks(k2, p2, L)
    BY <1>0, <2>1, ParksSet
  <2> HIDE DEF k2, p2
  <2>3. Parks(k3, p3, L)
    BY <2>2, ParksReady
  <2> HIDE DEF k3, p3
  <2>4. Parks([k3 EXCEPT !.rv[t] = "0"], [p3 EXCEPT !.rv[t] = "0"], L)
    BY <1>0, <2>3, ParksSet
  <2> QED BY <2>4 DEF wake_waiter, abort_thread_timeout, k1, p1, k2, p2, k3, p3
<1>2. Parks(handle_one_expired_timeout(kk, t), handle_one_expired_timeout(p, t), L)
  <2> DEFINE k1 == [kk EXCEPT !.to[t] = "INACTIVE"]
             p1 == [p EXCEPT !.to[t] = "INACTIVE"]
             k2 == IF "PENDING" \in k1.state[t] THEN unpend_thread(k1, t) ELSE k1
             p2 == IF "PENDING" \in p1.state[t] THEN unpend_thread(p1, t) ELSE p1
  <2>1. Parks(k1, p1, L)
    BY <1>0, ParksSet
  <2> HIDE DEF k1, p1
  <2>2. k1.state[t] = p1.state[t]
    BY <2>1 DEF Parks
  <2>3. Parks(k2, p2, L)
    BY <2>1, <2>2, ParksUnpend
  <2> HIDE DEF k2, p2
  <2>4. Parks(ready_thread(k2, t), ready_thread(p2, t), L)
    BY <2>3, ParksReady
  <2> QED BY <2>4 DEF handle_one_expired_timeout, k1, p1, k2, p2
<1> QED BY <1>1, <1>2

\* a thread outside L is linked to a wait queue
LEMMA ParksLink ==
    ASSUME NEW kk, NEW p, NEW L, Parks(kk, p, L), NEW t \in Threads \ L, NEW w \in WaitQs
    PROVE  Parks(Linked(kk, t, w), Linked(p, t, w), L)
<1> DEFINE k2 == Linked(kk, t, w)
           p2 == Linked(p, t, w)
<1>0. pend_position(kk, t, w) = pend_position(p, t, w)
  BY DEF Parks, pend_position
<1>1. k2 \in KernelType /\ p2 \in KernelType
  BY LinkedEffect DEF Parks
<1>2. k2.wq = p2.wq
  BY <1>0 DEF Parks, Linked, KernelType
<1>3. /\ k2.q = kk.q /\ k2.bmap = kk.bmap /\ k2.cache = kk.cache
      /\ k2.current = kk.current /\ k2.prio = kk.prio
      /\ k2.locked = kk.locked /\ k2.rv = kk.rv /\ k2.to = kk.to
      /\ k2.handling = kk.handling /\ k2.elapsed = kk.elapsed
      /\ k2.state[t] = kk.state[t] \cup {"PENDING"}
      /\ \A u \in Threads \ {t} : k2.state[u] = kk.state[u]
  BY LinkedEffect DEF Parks
<1>4. /\ p2.q = p.q /\ p2.bmap = p.bmap /\ p2.cache = p.cache
      /\ p2.current = p.current /\ p2.prio = p.prio
      /\ p2.locked = p.locked /\ p2.rv = p.rv /\ p2.to = p.to
      /\ p2.handling = p.handling /\ p2.elapsed = p.elapsed
      /\ p2.state[t] = p.state[t] \cup {"PENDING"}
      /\ \A u \in Threads \ {t} : p2.state[u] = p.state[u]
  BY LinkedEffect DEF Parks
<1> HIDE DEF k2, p2
<1>5. Parks(k2, p2, L)
  BY <1>1, <1>2, <1>3, <1>4 DEF Parks
<1> QED BY <1>5 DEF k2, p2

\* the running thread is ready, so it is not set aside
LEMMA RunnerFree ==
    ASSUME NEW kk, NEW p, NEW L, Parks(kk, p, L), Live(p)
    PROVE  /\ p.current \in Threads \ L /\ kk.current = p.current
           /\ p.state[p.current] = {} /\ kk.state[p.current] = {}
           /\ p.to[p.current] = "INACTIVE"
<1>1. /\ p.current \in Threads /\ p.state[p.current] = {}
      /\ p.to[p.current] = "INACTIVE" /\ kk.current = p.current
  BY DEF Parks, Live, is_thread_ready, is_thread_timeout_active, KernelType
<1>2. p.current \notin L
  BY <1>1 DEF Parks
<1> QED BY <1>1, <1>2 DEF Parks

\* the running thread waits
LEMMA ParksPend ==
    ASSUME NEW kk, NEW p, NEW L, Parks(kk, p, L), Live(p), p.current # Idle,
           NEW w \in WaitQs
    PROVE  /\ Parks(PendedForever(kk, w), PendedForever(p, w), L)
           /\ Parks(PendedTimed(kk, w), PendedTimed(p, w), L)
<1> DEFINE c  == p.current
           k1 == remove_thread_from_ready_q(kk, c)
           p1 == remove_thread_from_ready_q(p, c)
           k2 == Linked(k1, c, w)
           p2 == Linked(p1, c, w)
           k3 == [k2 EXCEPT !.to[c] = "ACTIVE"]
           p3 == [p2 EXCEPT !.to[c] = "ACTIVE"]
<1>0. c \in Threads \ L /\ kk.current = c /\ c # Idle
  BY RunnerFree
<1>1. p1 \in KernelType
  BY <1>0, OffRemoved DEF Live, Off, Holds
<1>2. Parks(k1, p1, L)
  BY <1>0, <1>1, ParksRemove
<1>3. /\ PendedForever(kk, w) = swap(k2) /\ PendedForever(p, w) = swap(p2)
      /\ PendedTimed(kk, w) = swap(k3) /\ PendedTimed(p, w) = swap(p3)
  BY <1>0 DEF PendedForever, PendedTimed, add_thread_timeout
<1> HIDE DEF k1, p1, c
<1>4. Parks(k2, p2, L)
  BY <1>0, <1>2, ParksLink
<1> HIDE DEF k2, p2
<1>5. Parks(k3, p3, L)
  BY <1>0, <1>4, ParksSet DEF AllTimeouts, TimeoutStates
<1> HIDE DEF k3, p3
<1> QED BY <1>3, <1>4, <1>5, ParksSwap

(***************************************************************************)
(* The running thread c leaves the ready queue and the processor: k1 is    *)
(* the kernel without c in the ready queue, and k2 is k1 with c unready.   *)
(***************************************************************************)
LEMMA RunnerLeaves ==
    ASSUME NEW kk, Good(kk), NEW c, c = kk.current, c # Idle, is_thread_ready(kk, c),
           NEW k1, k1 = remove_thread_from_ready_q(kk, c),
           NEW k2 \in KernelType, ~is_thread_ready(k2, c),
           k2.q = k1.q, k2.bmap = k1.bmap, k2.cache = k1.cache,
           \A u \in Threads \ {c} : /\ k2.prio[u] = k1.prio[u]
                                    /\ k2.state[u] = k1.state[u]
                                    /\ k2.to[u] = k1.to[u]
    PROVE  Live(swap(k2)) /\ Settled(swap(k2)) /\ Switched(k2, swap(k2))
<1>1. c \in Threads \ {Idle}
  BY DEF Good, Holds, KernelType
<1>2. Off(k1, c)
  BY <1>1, OffRemoved
<1>3. Off(k2, c)
  BY <1>2, OffFrame
<1>4. Good(k2)
  BY <1>1, <1>3, OffUnready
<1> QED BY <1>4, SwapSettled, SwapSwitched

\* k_sleep() of the running thread
LEMMA SleepLive ==
    ASSUME NEW kk, Live(kk), WaitsExact(kk), NEW c, c = kk.current, c # Idle,
           NEW k2, k2 = swap(add_thread_timeout(remove_thread_from_ready_q(kk, c), c))
    PROVE  /\ Live(k2) /\ Settled(k2) /\ WaitsExact(k2)
           /\ \A w \in WaitQs : Waiters(k2, w) = Waiters(kk, w)
           /\ k2.state = kk.state
           /\ \A u \in Threads \ {c} : k2.to[u] = kk.to[u]
<1> DEFINE k1 == remove_thread_from_ready_q(kk, c)
           k3 == [k1 EXCEPT !.to[c] = "ACTIVE"]
<1>1. kk \in KernelType /\ c \in Threads \ {Idle} /\ is_thread_ready(kk, c) /\ Good(kk)
  BY DEF Live, Good, Holds, KernelType
<1>2. Off(k1, c) /\ SameThreads(kk, k1)
  BY <1>1, OffRemoved
<1>3. k1 \in KernelType
  BY <1>2 DEF Off, Holds
<1>4. k2 = swap(k3)
  BY DEF add_thread_timeout
<1> HIDE DEF k1
<1>5. /\ k3 \in KernelType
      /\ k3.q = k1.q /\ k3.bmap = k1.bmap /\ k3.cache = k1.cache
      /\ k3.state = k1.state /\ k3.wq = k1.wq /\ k3.prio = k1.prio
      /\ k3.to[c] = "ACTIVE" /\ \A u \in Threads \ {c} : k3.to[u] = k1.to[u]
  BY <1>1, <1>3 DEF KernelType, AllTimeouts, TimeoutStates
<1> HIDE DEF k3
<1>6. ~is_thread_ready(k3, c)
  BY <1>5 DEF is_thread_ready, is_thread_timeout_active
<1>7. Live(k2) /\ Settled(k2) /\ Switched(k3, k2)
  BY <1>1, <1>4, <1>5, <1>6, RunnerLeaves DEF k1
<1>8. k2.wq = kk.wq /\ k2.state = kk.state
      /\ \A u \in Threads \ {c} : k2.to[u] = kk.to[u]
  BY <1>2, <1>5, <1>7 DEF Switched, SameThreads
<1> QED BY <1>7, <1>8, WaitsFrame

\* what a timeout does to the flags of its thread
LEMMA HandleState ==
    ASSUME NEW kk \in KernelType, NEW t \in Threads,
           NEW k2, k2 = handle_one_expired_timeout(kk, t)
    PROVE  k2.state[t] \in SUBSET kk.state[t]
<1> DEFINE k1 == [kk EXCEPT !.to[t] = "INACTIVE"]
           k3 == IF "PENDING" \in k1.state[t] THEN unpend_thread(k1, t) ELSE k1
<1>1. k1 \in KernelType /\ k1.state = kk.state
  BY DEF KernelType, AllTimeouts, TimeoutStates
<1>2. k2 = ready_thread(k3, t)
  BY DEF handle_one_expired_timeout
<1> HIDE DEF k1
<1>3. k3 \in KernelType /\ k3.state[t] \in SUBSET k1.state[t]
  BY <1>1, UnpendEffect
<1> HIDE DEF k3
<1>4. k2.state[t] = k3.state[t] \ {"PRESTART"}
  BY <1>2, <1>3, ReadyThreadEffect
<1> QED BY <1>1, <1>3, <1>4

(***************************************************************************)
(* The invariant of the mailbox.                                           *)
(***************************************************************************)
Put == "mbox_put"
Get == "mbox_get"

\* the senders whose messages were taken and not disposed of
Synced == {s \in Threads : \E r \in Threads : syncing[r] = s}

\* each sender has at most one receiver, and is inside its call
MboxSyncs ==
    /\ slice \in SliceSettings /\ isr \in Seq({"clk", "dev"})
    /\ DOMAIN call = Threads
    /\ syncing \in [Threads -> Threads \cup {NoThread}]
    /\ \A r, s \in Threads : syncing[r] = syncing[s] /\ syncing[r] # NoThread => r = s
    /\ \A s \in Synced : call[s].op = Put

\* stated of the record in which the senders of Synced are set aside
MboxWaits(p) ==
    /\ \A t \in Threads \ Synced : p.state[t] \in SUBSET {"PENDING"}
    /\ \A t \in Threads :
          call[t].op # "none" /\ "PENDING" \notin p.state[t] => p.to[t] = "INACTIVE"
    /\ \A t \in Waiters(p, TxWaitQ) : call[t].op = Put
    /\ \A t \in Waiters(p, RxWaitQ) : call[t].op = Get /\ syncing[t] = NoThread
    /\ \A w \in WaitQs \ {TxWaitQ, RxWaitQ} : Waiters(p, w) = {}
    /\ \A s \in Waiters(p, TxWaitQ), r \in Waiters(p, RxWaitQ) :
          ~matches(s, call[s].target, r, call[r].source)

\* the scheduler, with these senders set aside
MboxKernel(p) ==
    /\ Parks(k, p, Synced)
    /\ Live(p) /\ WaitsExact(p) /\ (isr = <<>> => Settled(p))

MboxInv == MboxSyncs /\ \E p : MboxKernel(p) /\ MboxWaits(p)

\* nobody starts to wait, and only waiters have their timeouts touched
Calmer(p, p2) ==
    /\ \A w \in WaitQs : Waiters(p2, w) \in SUBSET Waiters(p, w)
    /\ \A t \in Threads :
          \/ p2.to[t] = "INACTIVE" /\ p2.state[t] \in SUBSET p.state[t]
          \/ /\ p2.state[t] = p.state[t]
             /\ p2.to[t] = p.to[t] \/ p.to[t] # "INACTIVE" \/ call[t].op = "none"

\* such a step keeps the invariant
LEMMA CalmerStays ==
    ASSUME MboxSyncs, NEW p, MboxKernel(p), MboxWaits(p), NEW p2,
           Parks(k', p2, Synced), Live(p2), WaitsExact(p2), isr' = <<>> => Settled(p2),
           Calmer(p, p2), call' = call, syncing' = syncing, slice' = slice,
           isr' \in Seq({"clk", "dev"})
    PROVE  MboxInv'
<1>1. Synced' = Synced
  BY DEF Synced
<1>2. MboxSyncs'
  BY <1>1 DEF MboxSyncs
<1>3. MboxKernel(p2)'
  BY <1>1 DEF MboxKernel
<1>4. TxWaitQ \in WaitQs /\ RxWaitQ \in WaitQs
  BY MailboxAssumption
<1>5. MboxWaits(p2)'
  <2>1. \A t \in Threads \ Synced : p2.state[t] \in SUBSET {"PENDING"}
    BY DEF MboxWaits, Calmer
  <2>2. ASSUME NEW t \in Threads, call[t].op # "none", "PENDING" \notin p2.state[t]
        PROVE  p2.to[t] = "INACTIVE"
    BY <2>2 DEF MboxWaits, Calmer
  <2>3. \A w \in WaitQs : \A t \in Waiters(p2, w) : t \in Waiters(p, w)
    BY DEF Calmer
  <2>4. /\ \A t \in Waiters(p2, TxWaitQ) : call[t].op = Put
        /\ \A t \in Waiters(p2, RxWaitQ) : call[t].op = Get /\ syncing[t] = NoThread
        /\ \A w \in WaitQs \ {TxWaitQ, RxWaitQ} : Waiters(p2, w) = {}
        /\ \A s \in Waiters(p2, TxWaitQ), r \in Waiters(p2, RxWaitQ) :
              ~matches(s, call[s].target, r, call[r].source)
    BY <1>4, <2>3 DEF MboxWaits
  <2> QED BY <1>1, <2>1, <2>2, <2>4 DEF MboxWaits, matches
<1> QED BY <1>2, <1>3, <1>5 DEF MboxInv

\* the same waiters with the same timeouts
LEMMA SwitchedCalmer ==
    ASSUME NEW p, WaitsExact(p), NEW p2, p2.wq = p.wq, p2.state = p.state,
           \A t \in Threads : p2.to[t] = p.to[t]
    PROVE  Calmer(p, p2) /\ WaitsExact(p2)
BY WaitsFrame DEF Calmer

\* the return from an interrupt, which may switch threads
LEMMA ExitCalmer ==
    ASSUME MboxSyncs, NEW p, MboxKernel(p), MboxWaits(p), isr # <<>>,
           NEW k1, NEW p1, Parks(k1, p1, Synced), Live(p1),
           p1.wq = p.wq, p1.state = p.state, \A t \in Threads : p1.to[t] = p.to[t],
           IsrExit(k1), call' = call, syncing' = syncing, slice' = slice
    PROVE  MboxInv'
<1>1. isr' = Tail(isr) /\ k' = IF Tail(isr) = <<>> THEN isr_exit_swap(k1) ELSE k1
  BY DEF IsrExit
<1>2. isr' \in Seq({"clk", "dev"})
  BY <1>1 DEF MboxSyncs
<1>3. CASE Tail(isr) = <<>>
  <2> DEFINE p2 == isr_exit_swap(p1)
  <2>1. Parks(k', p2, Synced)
    BY <1>1, <1>3, ParksSwap
  <2>2. Live(p2) /\ Settled(p2)
    BY IsrExitSettled
  <2>3. Switched(p1, p2)
    BY IsrExitSwitched DEF Parks
  <2> HIDE DEF p2
  <2>4. Calmer(p, p2) /\ WaitsExact(p2)
    BY <2>3, SwitchedCalmer DEF Switched, MboxKernel
  <2> QED BY <1>2, <2>1, <2>2, <2>4, CalmerStays
<1>4. CASE Tail(isr) # <<>>
  <2>1. Calmer(p, p1) /\ WaitsExact(p1)
    BY SwitchedCalmer DEF MboxKernel
  <2> QED BY <1>1, <1>2, <1>4, <2>1, CalmerStays
<1> QED BY <1>3, <1>4

\* an interrupt is active once it was entered
LEMMA EnterNonempty ==
    ASSUME isr \in Seq({"clk", "dev"}), NEW x \in {"clk", "dev"}, IsrEnter(x)
    PROVE  isr' \in Seq({"clk", "dev"}) /\ isr' # <<>>
<1>1. isr' = <<x>> \o isr
  BY DEF IsrEnter
<1>2. Len(isr') = 1 + Len(isr) /\ Len(isr) \in Nat /\ isr' \in Seq({"clk", "dev"})
  BY <1>1
<1> QED BY <1>2

\* the clock and device interrupts.  No timeout of a sender in Synced runs.
LEMMA MboxInterrupts ==
    ASSUME MboxInv, Interrupts, syncing' = syncing
    PROVE  MboxInv'
<1>0. PICK p : MboxKernel(p) /\ MboxWaits(p)
  BY DEF MboxInv
<1>1. /\ MboxSyncs /\ isr \in Seq({"clk", "dev"}) /\ call' = call
      /\ Parks(k, p, Synced) /\ Live(p) /\ WaitsExact(p) /\ p \in KernelType
      /\ p.to = k.to
  BY <1>0 DEF MboxInv, MboxSyncs, MboxKernel, Interrupts, objVars, Parks
<1>2. CASE DevEnter
  <2>1. /\ isr' \in Seq({"clk", "dev"}) /\ isr' # <<>> /\ k' = k /\ slice' = slice
    BY <1>1, <1>2, EnterNonempty DEF DevEnter
  <2>2. Calmer(p, p)
    BY DEF Calmer
  <2> QED BY <1>0, <1>1, <2>1, <2>2, CalmerStays
<1>3. CASE DevExit
  <2>1. isr # <<>> /\ IsrExit(k) /\ slice' = slice
    BY <1>3 DEF DevExit, Active
  <2> QED BY <1>0, <1>1, <2>1, ExitCalmer
<1>4. CASE ClockEnter
  <2>1. /\ isr' \in Seq({"clk", "dev"}) /\ isr' # <<>> /\ slice' = slice
        /\ k' = k \/ k' = [k EXCEPT !.handling = TRUE]
    BY <1>1, <1>4, EnterNonempty DEF ClockEnter
  <2>2. CASE k' = k
    <3>1. Calmer(p, p)
      BY DEF Calmer
    <3> QED BY <1>0, <1>1, <2>1, <2>2, <3>1, CalmerStays
  <2>3. CASE k' = [k EXCEPT !.handling = TRUE]
    <3> DEFINE p2 == [p EXCEPT !.handling = TRUE]
    <3>1. Parks(k', p2, Synced) /\ Live(p2)
      BY <1>1, <2>3, ParksSet, HandlingSet
    <3>2. p2.wq = p.wq /\ p2.state = p.state /\ p2.to = p.to
      BY <1>1 DEF KernelType
    <3> HIDE DEF p2
    <3>3. Calmer(p, p2) /\ WaitsExact(p2)
      BY <1>1, <3>2, SwitchedCalmer
    <3> QED BY <1>0, <1>1, <2>1, <3>1, <3>3, CalmerStays
  <2> QED BY <2>1, <2>2, <2>3
<1>5. CASE ClockExpired
  <2>1. isr # <<>> /\ isr' = isr /\ k' = k /\ slice' = slice
    BY <1>5 DEF ClockExpired, Active
  <2>2. Calmer(p, p)
    BY DEF Calmer
  <2> QED BY <1>0, <1>1, <2>1, <2>2, CalmerStays
<1>6. CASE ClockExit
  <2> DEFINE k1 == [k EXCEPT !.handling = FALSE]
             p1 == [p EXCEPT !.handling = FALSE]
             k2 == handle_time_slicing(k1, slice[1], slice[2])
             p2 == handle_time_slicing(p1, slice[1], slice[2])
  <2>1. isr # <<>> /\ IsrExit(k2) /\ slice' = slice
    BY <1>6 DEF ClockExit, Active
  <2>2. slice[1] \in Nat
    BY <1>1, SchedAssumption DEF MboxSyncs
  <2>3. Parks(k1, p1, Synced) /\ Live(p1)
    BY <1>1, ParksSet, HandlingSet
  <2>4. p1 \in KernelType /\ p1.wq = p.wq /\ p1.state = p.state /\ p1.to = p.to
    BY <1>1 DEF KernelType
  <2> HIDE DEF k1, p1
  <2>5. Parks(k2, p2, Synced) /\ Live(p2) /\ Switched(p1, p2)
    BY <2>2, <2>3, <2>4, ParksSlice, SlicingLive, SlicingEffect
  <2> HIDE DEF k2, p2
  <2>6. p2.wq = p.wq /\ p2.state = p.state /\ \A t \in Threads : p2.to[t] = p.to[t]
    BY <2>4, <2>5 DEF Switched
  <2> QED BY <1>0, <1>1, <2>1, <2>5, <2>6, ExitCalmer
<1>7. ASSUME NEW t \in AllTimeouts, ClockExpire(t) PROVE MboxInv'
  <2> DEFINE p2 == [p EXCEPT !.to[t] = "EXPIRED"]
  <2>1. /\ isr # <<>> /\ isr' = isr /\ slice' = slice
        /\ k.to[t] = "ACTIVE" /\ k' = [k EXCEPT !.to[t] = "EXPIRED"]
    BY <1>7 DEF ClockExpire, Active
  <2>2. Parks(k', p2, Synced) /\ Live(p2)
    BY <1>1, <2>1, ParksSet, ExpireLive DEF TimeoutStates
  <2>3. p2.wq = p.wq /\ p2.state = p.state /\ p.to[t] # "INACTIVE"
        /\ \A u \in Threads \ {t} : p2.to[u] = p.to[u]
    BY <1>1, <2>1 DEF KernelType, AllTimeouts
  <2> HIDE DEF p2
  <2>4. WaitsExact(p2) /\ Calmer(p, p2)
    BY <1>1, <2>3, WaitsFrame DEF Calmer
  <2> QED BY <1>0, <1>1, <2>1, <2>2, <2>4, CalmerStays
<1>8. ASSUME NEW t \in Threads, ClockHandle(t) PROVE MboxInv'
  <2> DEFINE p2 == handle_one_expired_timeout(p, t)
  <2>1. /\ isr # <<>> /\ isr' = isr /\ slice' = slice
        /\ k.to[t] = "EXPIRED" /\ k' = handle_one_expired_timeout(k, t)
    BY <1>8 DEF ClockHandle, Active
  <2>2. t \notin Synced
    <3> SUFFICES ASSUME t \in Synced PROVE FALSE
      OBVIOUS
    <3>1. call[t].op # "none" /\ "PENDING" \notin p.state[t]
      BY <1>1 DEF MboxSyncs, Parks, Put
    <3>2. p.to[t] = "INACTIVE"
      BY <1>0, <3>1 DEF MboxWaits
    <3> QED BY <1>1, <2>1, <3>2
  <2>3. Parks(k', p2, Synced) /\ Live(p2)
    BY <1>1, <2>1, <2>2, ParksWake, HandleLive
  <2>4. /\ WaitsExact(p2) /\ \A w \in WaitQs : Waiters(p2, w) = Waiters(p, w) \ {t}
        /\ p2.to[t] = "INACTIVE"
        /\ \A u \in Threads \ {t} : p2.state[u] = p.state[u] /\ p2.to[u] = p.to[u]
    BY <1>1, HandleEffect
  <2>5. p2.state[t] \in SUBSET p.state[t]
    BY <1>1, HandleState
  <2> HIDE DEF p2
  <2>6. Calmer(p, p2)
    BY <2>4, <2>5 DEF Calmer
  <2> QED BY <1>0, <1>1, <2>1, <2>3, <2>4, <2>6, CalmerStays
<1> QED BY <1>2, <1>3, <1>4, <1>5, <1>6, <1>7, <1>8 DEF Interrupts, Clock

\* k_sleep()
LEMMA MboxRest ==
    ASSUME MboxInv, Rest, syncing' = syncing
    PROVE  MboxInv'
<1>0. PICK p : MboxKernel(p) /\ MboxWaits(p)
  BY DEF MboxInv
<1> DEFINE c  == k.current
           k1 == remove_thread_from_ready_q(k, c)
           p1 == remove_thread_from_ready_q(p, c)
           p2 == swap(add_thread_timeout(p1, c))
<1>1. /\ MboxSyncs /\ isr \in Seq({"clk", "dev"}) /\ isr' = isr /\ slice' = slice
      /\ Parks(k, p, Synced) /\ Live(p) /\ WaitsExact(p)
      /\ call' = call /\ call[c] = NoCall /\ c # Idle
      /\ k' = swap(add_thread_timeout(k1, c))
  BY <1>0 DEF MboxInv, MboxSyncs, MboxKernel, Rest, Caller, InThread, k_sleep, Call, objVars
<1>2. c \in Threads \ Synced /\ c = p.current
  BY <1>1, RunnerFree
<1>3. p1 \in KernelType
  BY <1>1, <1>2, OffRemoved DEF Live, Off, Holds
<1>4. Parks(k1, p1, Synced)
  BY <1>1, <1>2, <1>3, ParksRemove
<1>5. /\ Live(p2) /\ Settled(p2) /\ WaitsExact(p2)
      /\ \A w \in WaitQs : Waiters(p2, w) = Waiters(p, w)
      /\ p2.state = p.state
      /\ \A u \in Threads \ {c} : p2.to[u] = p.to[u]
  BY <1>1, <1>2, SleepLive
<1>6. Parks(k', p2, Synced)
  <2> HIDE DEF k1, p1, c
  <2>1. Parks(add_thread_timeout(k1, c), add_thread_timeout(p1, c), Synced)
    BY <1>2, <1>4, ParksSet DEF add_thread_timeout, AllTimeouts, TimeoutStates
  <2> QED BY <1>1, <2>1, ParksSwap
<1> HIDE DEF p2, c
<1>7. Calmer(p, p2)
  BY <1>1, <1>5 DEF Calmer, NoCall
<1> QED BY <1>0, <1>1, <1>5, <1>6, <1>7, CalmerStays

\* the walk along a queue of the mailbox
LEMMA FirstMatch ==
    ASSUME k \in KernelType, NEW w \in WaitQs, NEW S, NEW t, t = first_match(w, S)
    PROVE  /\ t = NoThread => \A u \in Waiters(k, w) : u \notin S
           /\ t # NoThread => t \in Waiters(k, w) /\ t \in S
<1> DEFINE q == k.wq[w]
           E == {i \in 1..Len(q) : q[i] \in S}
<1>1. q \in Seq(Threads)
  BY DEF KernelType
<1>2. Len(q) \in Nat /\ DOMAIN q = 1..Len(q) /\ \A i \in 1..Len(q) : q[i] \in Threads
  BY <1>1, LenProperties, ElementOfSeq
<1>3. t = IF E = {} THEN NoThread ELSE q[Min(E)]
  BY DEF first_match
<1>4. Waiters(k, w) = {q[i] : i \in 1..Len(q)}
  BY <1>2 DEF Waiters, ToSet
<1>5. CASE E = {}
  <2>1. t = NoThread
    BY <1>3, <1>5
  <2> QED BY <1>4, <1>5, <2>1
<1>6. CASE E # {}
  <2>1. E \in SUBSET Nat
    OBVIOUS
  <2>2. Min(E) \in E
    BY <1>6, <2>1, MinNat
  <2>3. PICK n \in E : t = q[n]
    BY <1>3, <1>6, <2>2
  <2>4. t \in Waiters(k, w) /\ t \in S /\ t \in Threads
    BY <1>2, <1>4, <2>3
  <2> QED BY <2>4, ThreadsAssumption
<1> QED BY <1>5, <1>6

\* the receiver a message is for
LEMMA ReceiverIs ==
    ASSUME k \in KernelType, NEW target, NEW r, r = Receiver(target)
    PROVE  /\ r = NoThread => \A u \in Waiters(k, RxWaitQ) :
                                 ~matches(k.current, target, u, call[u].source)
           /\ r # NoThread => r \in Waiters(k, RxWaitQ)
<1> DEFINE S == {u \in ToSet(k.wq[RxWaitQ]) : matches(k.current, target, u, call[u].source)}
<1>1. r = first_match(RxWaitQ, S) /\ RxWaitQ \in WaitQs
  BY MailboxAssumption DEF Receiver
<1>2. S = {u \in Waiters(k, RxWaitQ) : matches(k.current, target, u, call[u].source)}
  BY DEF Waiters
<1> HIDE DEF S
<1> QED BY <1>1, <1>2, FirstMatch

\* the sender a receiver is looking for
LEMMA SenderIs ==
    ASSUME k \in KernelType, NEW source, NEW s, s = Sender(source)
    PROVE  /\ s = NoThread => \A u \in Waiters(k, TxWaitQ) :
                                 ~matches(u, call[u].target, k.current, source)
           /\ s # NoThread => s \in Waiters(k, TxWaitQ)
<1> DEFINE S == {u \in ToSet(k.wq[TxWaitQ]) : matches(u, call[u].target, k.current, source)}
<1>1. s = first_match(TxWaitQ, S) /\ TxWaitQ \in WaitQs
  BY MailboxAssumption DEF Sender
<1>2. S = {u \in Waiters(k, TxWaitQ) : matches(u, call[u].target, k.current, source)}
  BY DEF Waiters
<1> HIDE DEF S
<1> QED BY <1>1, <1>2, FirstMatch

\* what the invariant says when a thread calls
LEMMA MboxCaller ==
    ASSUME MboxSyncs, NEW p, MboxKernel(p), MboxWaits(p), InThread
    PROVE  /\ Parks(k, p, Synced) /\ Live(p) /\ WaitsExact(p) /\ Settled(p) /\ Good(p)
           /\ k \in KernelType /\ p \in KernelType
           /\ k.current \in Threads \ Synced /\ k.current = p.current /\ k.current # Idle
           /\ is_thread_ready(p, k.current)
           /\ p.state[k.current] = {} /\ k.state[k.current] = {}
           /\ p.to[k.current] = "INACTIVE"
           /\ \A w \in WaitQs : /\ Waiters(k, w) = Waiters(p, w)
                                /\ k.current \notin Waiters(p, w)
                                /\ Waiters(p, w) \in SUBSET (Pending(p) \ Synced)
<1>1. /\ Parks(k, p, Synced) /\ Live(p) /\ WaitsExact(p) /\ Settled(p) /\ Good(p)
      /\ k \in KernelType /\ p \in KernelType /\ k.current # Idle
      /\ p.current = k.current /\ is_thread_ready(p, k.current) /\ p.wq = k.wq
  BY DEF MboxKernel, Parks, InThread, Live
<1>2. /\ k.current \in Threads \ Synced
      /\ p.state[k.current] = {} /\ k.state[k.current] = {}
      /\ p.to[k.current] = "INACTIVE"
  BY <1>1, RunnerFree
<1>3. \A t \in Pending(p) : t \in Threads /\ t \notin Synced /\ t # k.current
  BY <1>1, <1>2 DEF Pending, Parks
<1>4. ASSUME NEW w \in WaitQs
      PROVE  /\ Waiters(k, w) = Waiters(p, w)
             /\ Waiters(p, w) \in SUBSET Pending(p)
  BY <1>1 DEF Waiters, WaitsExact
<1> QED BY <1>1, <1>2, <1>3, <1>4

\* the running thread waits in queue w inside the call cc
LEMMA MboxBlock ==
    ASSUME MboxSyncs, NEW p, MboxKernel(p), MboxWaits(p), InThread,
           NEW w \in {TxWaitQ, RxWaitQ}, NEW timeout, NEW cc, Block(w, timeout, cc),
           syncing' = syncing, call[k.current].op = "none",
           \/ /\ w = TxWaitQ /\ cc.op = Put
              /\ \A r \in Waiters(p, RxWaitQ) :
                    ~matches(k.current, cc.target, r, call[r].source)
           \/ /\ w = RxWaitQ /\ cc.op = Get /\ syncing[k.current] = NoThread
              /\ \A s \in Waiters(p, TxWaitQ) :
                    ~matches(s, call[s].target, k.current, cc.source)
    PROVE  MboxInv'
<1> DEFINE c == k.current
<1>0. /\ k' = swap(pend_current_thread(k, w, timeout = "TIMED"))
      /\ isr' = isr /\ slice' = slice /\ call' = [call EXCEPT ![c] = cc]
  BY DEF Block, Call
<1>1. /\ Parks(k, p, Synced) /\ Live(p) /\ WaitsExact(p) /\ Good(p)
      /\ c \in Threads \ Synced /\ c = p.current /\ c # Idle
      /\ is_thread_ready(p, c)
      /\ \A v \in WaitQs : c \notin Waiters(p, v)
      /\ w \in WaitQs /\ TxWaitQ \in WaitQs /\ RxWaitQ \in WaitQs /\ TxWaitQ # RxWaitQ
  BY MboxCaller, MailboxAssumption
<1>2. \/ timeout # "TIMED" /\ k' = PendedForever(k, w)
      \/ timeout = "TIMED" /\ k' = PendedTimed(k, w)
  <2>1. CASE timeout = "TIMED"
    BY <1>0, <2>1 DEF PendedTimed, pend_current_thread, pend_thread, Linked
  <2>2. CASE timeout # "TIMED"
    BY <1>0, <2>2 DEF PendedForever, pend_current_thread, pend_thread, Linked
  <2> QED BY <2>1, <2>2
<1>3. PICK p2 : /\ Parks(k', p2, Synced)
                /\ p2 = PendedForever(p, w) \/ p2 = PendedTimed(p, w)
  BY <1>1, <1>2, ParksPend
<1> HIDE DEF c
<1>4. Live(p2) /\ Settled(p2) /\ WaitsExact(p2)
  BY ONLY <1>1, <1>3, PendSettled
<1>5. /\ Waiters(p2, w) = Waiters(p, w) \cup {c}
      /\ \A v \in WaitQs \ {w} : p2.wq[v] = p.wq[v]
  BY ONLY <1>1, <1>3, PendSettled
<1>6. /\ p2.state[c] = {"PENDING"}
      /\ \A u \in Threads \ {c} : p2.state[u] = p.state[u] /\ p2.to[u] = p.to[u]
  <2>1. p2.state[c] = {"PENDING"}
    BY ONLY <1>1, <1>3, PendSettled
  <2>2. \A u \in Threads \ {c} : /\ p2.state[u] = p.state[u]
                                /\ p2.to[u] = p.to[u]
                                /\ p2.rv[u] = p.rv[u]
    BY ONLY <1>1, <1>3, PendSettled
  <2> QED BY <2>1, <2>2
<1>7. \A v \in WaitQs \ {w} : Waiters(p2, v) = Waiters(p, v)
  BY <1>5 DEF Waiters
<1>8. Synced' = Synced
  BY DEF Synced
<1>9. MboxSyncs'
  <2>1. DOMAIN call = Threads /\ \A s \in Synced : call[s].op = Put
    BY DEF MboxSyncs
  <2>2. DOMAIN call' = Threads /\ \A s \in Synced : call'[s].op = Put
    BY <1>0, <1>1, <2>1
  <2> QED BY <1>0, <1>8, <2>2 DEF MboxSyncs
<1>10. MboxKernel(p2)'
  BY <1>3, <1>4, <1>8 DEF MboxKernel
<1>11. DOMAIN call = Threads /\ call'[c] = cc /\ \A t \in Threads \ {c} : call'[t] = call[t]
  BY <1>0, <1>1 DEF MboxSyncs
<1>12. \A v \in WaitQs : Waiters(p, v) \in SUBSET (Threads \ {c})
  BY <1>1 DEF WaitsExact, Pending
<1>13. MboxWaits(p2)'
  <2>1. \A t \in Threads \ Synced : p2.state[t] \in SUBSET {"PENDING"}
    BY <1>6 DEF MboxWaits
  <2>2. ASSUME NEW t \in Threads, call'[t].op # "none", "PENDING" \notin p2.state[t]
        PROVE  p2.to[t] = "INACTIVE"
    <3>1. t # c
      BY <1>6, <2>2
    <3> QED BY <1>6, <1>11, <2>2, <3>1 DEF MboxWaits
  <2>3. \A v \in WaitQs \ {TxWaitQ, RxWaitQ} : Waiters(p2, v) = {}
    BY <1>7 DEF MboxWaits
  <2>4. CASE w = TxWaitQ
    <3>1. /\ cc.op = Put
          /\ \A r \in Waiters(p, RxWaitQ) : ~matches(c, cc.target, r, call[r].source)
      BY <1>1, <2>4 DEF c
    <3>2. Waiters(p2, TxWaitQ) = Waiters(p, TxWaitQ) \cup {c}
          /\ Waiters(p2, RxWaitQ) = Waiters(p, RxWaitQ)
      BY <1>1, <1>5, <1>7, <2>4
    <3>3. \A t \in Waiters(p2, TxWaitQ) : call'[t].op = Put
      BY <1>1, <1>11, <1>12, <3>1, <3>2 DEF MboxWaits
    <3>4. \A t \in Waiters(p2, RxWaitQ) : call'[t].op = Get /\ syncing'[t] = NoThread
      BY <1>1, <1>11, <1>12, <3>2 DEF MboxWaits
    <3>5. ASSUME NEW s \in Waiters(p2, TxWaitQ), NEW r \in Waiters(p2, RxWaitQ)
          PROVE  ~matches(s, call'[s].target, r, call'[r].source)
      <4>1. call'[r] = call[r] /\ r \in Waiters(p, RxWaitQ)
        BY <1>1, <1>11, <1>12, <3>2
      <4>2. CASE s = c
        BY <1>11, <3>1, <4>1, <4>2
      <4>3. CASE s # c
        <5>1. s \in Waiters(p, TxWaitQ) /\ call'[s] = call[s]
          BY <1>1, <1>11, <1>12, <3>2, <4>3
        <5> QED BY <4>1, <5>1 DEF MboxWaits
      <4> QED BY <4>2, <4>3
    <3> QED BY <1>8, <2>1, <2>2, <2>3, <3>3, <3>4, <3>5 DEF MboxWaits, matches
  <2>5. CASE w = RxWaitQ
    <3>1. /\ cc.op = Get /\ syncing[c] = NoThread
          /\ \A s \in Waiters(p, TxWaitQ) : ~matches(s, call[s].target, c, cc.source)
      BY <1>1, <2>5 DEF c
    <3>2. Waiters(p2, RxWaitQ) = Waiters(p, RxWaitQ) \cup {c}
          /\ Waiters(p2, TxWaitQ) = Waiters(p, TxWaitQ)
      BY <1>1, <1>5, <1>7, <2>5
    <3>3. \A t \in Waiters(p2, TxWaitQ) : call'[t].op = Put
      BY <1>1, <1>11, <1>12, <3>2 DEF MboxWaits
    <3>4. \A t \in Waiters(p2, RxWaitQ) : call'[t].op = Get /\ syncing'[t] = NoThread
      BY <1>1, <1>11, <1>12, <3>1, <3>2 DEF MboxWaits
    <3>5. ASSUME NEW s \in Waiters(p2, TxWaitQ), NEW r \in Waiters(p2, RxWaitQ)
          PROVE  ~matches(s, call'[s].target, r, call'[r].source)
      <4>1. call'[s] = call[s] /\ s \in Waiters(p, TxWaitQ)
        BY <1>1, <1>11, <1>12, <3>2
      <4>2. CASE r = c
        BY <1>11, <3>1, <4>1, <4>2
      <4>3. CASE r # c
        <5>1. r \in Waiters(p, RxWaitQ) /\ call'[r] = call[r]
          BY <1>1, <1>11, <1>12, <3>2, <4>3
        <5> QED BY <4>1, <5>1 DEF MboxWaits
      <4> QED BY <4>2, <4>3
    <3> QED BY <1>8, <2>1, <2>2, <2>3, <3>3, <3>4, <3>5 DEF MboxWaits, matches
  <2> QED BY <2>4, <2>5
<1> QED BY <1>9, <1>10, <1>13 DEF MboxInv

\* a sender or a receiver that finds no peer waits
LEMMA MboxWait ==
    ASSUME MboxInv, NEW peer, NEW timeout,
           k_mbox_put_wait(peer, timeout) \/ k_mbox_get_wait(peer, timeout)
    PROVE  MboxInv'
<1>0. PICK p : MboxKernel(p) /\ MboxWaits(p)
  BY DEF MboxInv
<1>1. /\ MboxSyncs /\ InThread /\ call[k.current].op = "none" /\ syncing' = syncing
  BY DEF MboxInv, k_mbox_put_wait, k_mbox_get_wait, Caller, NoCall
<1>2. /\ k \in KernelType
      /\ \A w \in WaitQs : Waiters(k, w) = Waiters(p, w)
      /\ TxWaitQ \in WaitQs /\ RxWaitQ \in WaitQs
  BY <1>0, <1>1, MboxCaller, MailboxAssumption
<1>3. CASE k_mbox_put_wait(peer, timeout)
  <2> DEFINE cc == Putting(peer)
  <2>1. Receiver(peer) = NoThread /\ Block(TxWaitQ, timeout, cc)
    BY <1>3 DEF k_mbox_put_wait
  <2>2. cc.op = Put /\ cc.target = peer
    BY DEF Putting, Put
  <2> HIDE DEF cc
  <2>3. \A r \in Waiters(p, RxWaitQ) : ~matches(k.current, cc.target, r, call[r].source)
    BY <1>2, <2>1, <2>2, ReceiverIs
  <2> QED BY <1>0, <1>1, <2>1, <2>2, <2>3, MboxBlock
<1>4. CASE k_mbox_get_wait(peer, timeout)
  <2> DEFINE cc == [op |-> "mbox_get", source |-> peer]
  <2>1. /\ Sender(peer) = NoThread /\ Block(RxWaitQ, timeout, cc)
        /\ syncing[k.current] = NoThread
    BY <1>4 DEF k_mbox_get_wait
  <2>2. cc.op = Get /\ cc.source = peer
    BY DEF Get
  <2> HIDE DEF cc
  <2>3. \A s \in Waiters(p, TxWaitQ) : ~matches(s, call[s].target, k.current, cc.source)
    BY <1>2, <2>1, <2>2, SenderIs
  <2> QED BY <1>0, <1>1, <2>1, <2>2, <2>3, MboxBlock
<1> QED BY <1>3, <1>4

\* the call of the running thread returns
LEMMA MboxReturn ==
    ASSUME MboxInv, k_mbox_put_return \/ k_mbox_get_return
    PROVE  MboxInv'
<1>0. PICK p : MboxKernel(p) /\ MboxWaits(p)
  BY DEF MboxInv
<1> DEFINE c  == k.current
<1>a. PICK p2 : p2 = [p EXCEPT !.rv[c] = "EAGAIN"]
  OBVIOUS
<1>1. /\ MboxSyncs /\ InThread /\ isr' = isr /\ slice' = slice /\ syncing' = syncing
      /\ k' = [k EXCEPT !.rv[c] = "EAGAIN"] /\ call' = [call EXCEPT ![c] = NoCall]
  BY DEF MboxInv, k_mbox_put_return, k_mbox_get_return, Resumes, Returns, Call
<1>2. /\ Parks(k, p, Synced) /\ Live(p) /\ WaitsExact(p) /\ Settled(p)
      /\ p \in KernelType /\ c \in Threads \ Synced
      /\ \A v \in WaitQs : c \notin Waiters(p, v) /\ Waiters(p, v) \in SUBSET Pending(p)
  BY <1>0, <1>1, MboxCaller
<1> HIDE DEF c
<1>3. Parks(k', p2, Synced)
  BY <1>a, <1>1, <1>2, ParksSet DEF RetVals
<1>4. /\ p2 \in KernelType
      /\ p2.q = p.q /\ p2.bmap = p.bmap /\ p2.cache = p.cache
      /\ p2.current = p.current /\ p2.prio = p.prio
      /\ p2.locked = p.locked /\ p2.to = p.to /\ p2.wq = p.wq /\ p2.state = p.state
  BY <1>a, <1>2 DEF KernelType, RetVals
<1>5. Live(p2) /\ Settled(p2)
  <2>1. Good(p2)
    BY <1>2, <1>4, GoodFrame DEF Live
  <2> QED BY <1>2, <1>4, <2>1 DEF Live, Settled, is_thread_ready,
             is_thread_timeout_active, is_preempt
<1>6. WaitsExact(p2) /\ \A v \in WaitQs : Waiters(p2, v) = Waiters(p, v)
  BY <1>2, <1>4, WaitsFrame
<1>7. Synced' = Synced
  BY <1>1 DEF Synced
<1>8. /\ DOMAIN call' = Threads /\ call'[c].op = "none"
      /\ \A t \in Threads \ {c} : call'[t] = call[t]
  BY <1>1, <1>2 DEF MboxSyncs, NoCall
<1>9. MboxSyncs'
  BY <1>1, <1>2, <1>7, <1>8 DEF MboxSyncs
<1>10. MboxKernel(p2)'
  BY <1>3, <1>5, <1>6, <1>7 DEF MboxKernel
<1>11. TxWaitQ \in WaitQs /\ RxWaitQ \in WaitQs
  BY MailboxAssumption
<1>12. \A v \in WaitQs : \A t \in Waiters(p2, v) : t \in Threads \ {c} /\ t \in Waiters(p, v)
  BY <1>2, <1>6 DEF Pending
<1>13. MboxWaits(p2)'
  <2>1. \A t \in Threads \ Synced : p2.state[t] \in SUBSET {"PENDING"}
    BY <1>0, <1>4 DEF MboxWaits
  <2>2. ASSUME NEW t \in Threads, call'[t].op # "none", "PENDING" \notin p2.state[t]
        PROVE  p2.to[t] = "INACTIVE"
    BY <1>0, <1>4, <1>8, <2>2 DEF MboxWaits
  <2>3. \A v \in WaitQs \ {TxWaitQ, RxWaitQ} : Waiters(p2, v) = {}
    BY <1>0, <1>6 DEF MboxWaits
  <2>4. \A t \in Waiters(p2, TxWaitQ) : call'[t].op = Put
    BY <1>0, <1>8, <1>11, <1>12 DEF MboxWaits
  <2>5. \A t \in Waiters(p2, RxWaitQ) : call'[t].op = Get /\ syncing'[t] = NoThread
    BY <1>0, <1>1, <1>8, <1>11, <1>12 DEF MboxWaits
  <2>6. \A s \in Waiters(p2, TxWaitQ), r \in Waiters(p2, RxWaitQ) :
            ~matches(s, call'[s].target, r, call'[r].source)
    BY <1>0, <1>8, <1>11, <1>12 DEF MboxWaits
  <2> QED BY <1>7, <2>1, <2>2, <2>3, <2>4, <2>5, <2>6 DEF MboxWaits, matches
<1> QED BY <1>9, <1>10, <1>13 DEF MboxInv

(***************************************************************************)
(* A sender is set aside: it leaves queue or processor, and r has its      *)
(* message.  Nobody starts to wait.                                        *)
(***************************************************************************)
LEMMA SetAside ==
    ASSUME MboxSyncs, NEW p, MboxKernel(p), MboxWaits(p), NEW p2,
           NEW r \in Threads, NEW s \in Threads \ Synced,
           syncing[r] = NoThread, syncing' = [syncing EXCEPT ![r] = s],
           DOMAIN call' = Threads, call'[s].op = Put,
           \A t \in Threads \ {s} : call'[t] = call[t],
           Parks(k', p2, Synced \cup {s}), Live(p2), WaitsExact(p2),
           isr' = isr, slice' = slice, isr = <<>> => Settled(p2),
           r \notin Waiters(p2, RxWaitQ), p2.to[s] = "INACTIVE",
           \A w \in WaitQs : s \notin Waiters(p2, w),
           \A w \in WaitQs : Waiters(p2, w) \in SUBSET Waiters(p, w),
           \A t \in Threads \ {s} :
              \/ p2.to[t] = p.to[t] /\ p2.state[t] = p.state[t]
              \/ p2.to[t] = "INACTIVE" /\ p2.state[t] \in SUBSET p.state[t]
    PROVE  MboxInv'
<1>0. /\ syncing \in [Threads -> Threads \cup {NoThread}] /\ NoThread \notin Threads
      /\ TxWaitQ \in WaitQs /\ RxWaitQ \in WaitQs
  BY ThreadsAssumption, MailboxAssumption DEF MboxSyncs
<1>1. /\ syncing' \in [Threads -> Threads \cup {NoThread}] /\ syncing'[r] = s
      /\ \A t \in Threads \ {r} : syncing'[t] = syncing[t]
  BY <1>0
<1>2. Synced' = Synced \cup {s}
  <2>1. ASSUME NEW x \in Threads
        PROVE  (\E t \in Threads : syncing'[t] = x)
               <=> ((\E t \in Threads : syncing[t] = x) \/ x = s)
    BY <1>0, <1>1
  <2> QED BY <2>1 DEF Synced
<1>3. MboxSyncs'
  <2>1. \A x \in Synced' : call'[x].op = Put
    BY <1>2 DEF MboxSyncs, Synced
  <2>2. \A t \in Threads : syncing[t] # s
    BY DEF Synced
  <2>3. \A x, y \in Threads : syncing'[x] = syncing'[y] /\ syncing'[x] # NoThread => x = y
    BY <1>1, <2>2 DEF MboxSyncs
  <2> QED BY <1>1, <2>1, <2>3 DEF MboxSyncs
<1>4. MboxKernel(p2)'
  BY <1>2 DEF MboxKernel
<1>5. \A w \in WaitQs : \A t \in Waiters(p2, w) : /\ t \in Waiters(p, w) /\ t # s
                                                 /\ t \in Threads
  BY DEF WaitsExact, Pending
<1>6. MboxWaits(p2)'
  <2>1. \A t \in Threads \ Synced' : p2.state[t] \in SUBSET {"PENDING"}
    BY <1>2 DEF MboxWaits
  <2>2. ASSUME NEW t \in Threads, call'[t].op # "none", "PENDING" \notin p2.state[t]
        PROVE  p2.to[t] = "INACTIVE"
    BY <2>2 DEF MboxWaits
  <2>3. \A v \in WaitQs \ {TxWaitQ, RxWaitQ} : Waiters(p2, v) = {}
    BY <1>5 DEF MboxWaits
  <2>4. \A t \in Waiters(p2, TxWaitQ) : call'[t].op = Put
    BY <1>0, <1>5 DEF MboxWaits
  <2>5. \A t \in Waiters(p2, RxWaitQ) : call'[t].op = Get /\ syncing'[t] = NoThread
    BY <1>0, <1>1, <1>5 DEF MboxWaits
  <2>6. \A x \in Waiters(p2, TxWaitQ), y \in Waiters(p2, RxWaitQ) :
            ~matches(x, call'[x].target, y, call'[y].source)
    BY <1>0, <1>5 DEF MboxWaits
  <2> QED BY <2>1, <2>2, <2>3, <2>4, <2>5, <2>6 DEF MboxWaits, matches
<1> QED BY <1>3, <1>4, <1>6 DEF MboxInv

\* a receiver finds a sender in the queue
LEMMA MboxGetMatch ==
    ASSUME MboxInv, NEW source, k_mbox_get_match(source)
    PROVE  MboxInv'
<1>0. PICK p : MboxKernel(p) /\ MboxWaits(p)
  BY DEF MboxInv
<1> DEFINE c  == k.current
           s  == Sender(source)
           k1 == unpend_thread(k, s)
           p1 == unpend_thread(p, s)
           k2 == [k1 EXCEPT !.to[s] = "INACTIVE"]
           p2 == [p1 EXCEPT !.to[s] = "INACTIVE"]
           p3 == [p2 EXCEPT !.state[s] = {"SUSPENDED"}]
<1>1. /\ MboxSyncs /\ InThread /\ isr' = isr /\ slice' = slice /\ isr = <<>>
      /\ syncing[c] = NoThread /\ s # NoThread /\ call' = call /\ k' = k2
      /\ syncing' = [syncing EXCEPT ![c] = s]
  BY DEF MboxInv, k_mbox_get_match, Caller, InThread, Call, abort_thread_timeout
<1>2. /\ Parks(k, p, Synced) /\ Live(p) /\ WaitsExact(p) /\ Settled(p)
      /\ k \in KernelType /\ p \in KernelType /\ c \in Threads /\ c = p.current
      /\ is_thread_ready(p, c)
      /\ \A w \in WaitQs : /\ Waiters(k, w) = Waiters(p, w) /\ c \notin Waiters(p, w)
                           /\ Waiters(p, w) \in SUBSET (Pending(p) \ Synced)
      /\ TxWaitQ \in WaitQs /\ RxWaitQ \in WaitQs
  BY <1>0, <1>1, MboxCaller, MailboxAssumption
<1>3. s \in Waiters(p, TxWaitQ)
  BY <1>1, <1>2, SenderIs
<1>4. /\ s \in Threads \ Synced /\ "PENDING" \in p.state[s] /\ call[s].op = Put
      /\ s # c /\ s # Idle /\ ~is_thread_ready(p, s) /\ p.state[s] = {"PENDING"}
  <2>1. s \in Threads \ Synced /\ "PENDING" \in p.state[s] /\ s # c
    BY <1>2, <1>3 DEF Pending
  <2>2. call[s].op = Put /\ p.state[s] \in SUBSET {"PENDING"}
    BY <1>0, <1>3, <2>1 DEF MboxWaits
  <2>3. ~is_thread_ready(p, s)
    BY <2>1 DEF is_thread_ready
  <2>4. s # Idle
    BY <1>2, <2>3 DEF Live, Good, Holds, ReadyThreads
  <2> QED BY <2>1, <2>2, <2>3, <2>4
<1> HIDE DEF s, c
<1>5. Parks(k1, p1, Synced)
  BY <1>2, <1>4, ParksUnpend
<1>6. /\ p1 \in KernelType /\ p1.q = p.q /\ p1.bmap = p.bmap /\ p1.cache = p.cache
      /\ p1.current = p.current /\ p1.prio = p.prio /\ p1.locked = p.locked
      /\ p1.to = p.to /\ p1.state[s] = p.state[s] \ {"PENDING"}
      /\ \A u \in Threads \ {s} : p1.state[u] = p.state[u]
  BY <1>2, <1>4, UnpendEffect
<1>7. WaitsExact(p1) /\ \A w \in WaitQs : Waiters(p1, w) = Waiters(p, w) \ {s}
  BY <1>2, <1>4, WaitsUnpended
<1> HIDE DEF k1, p1
<1>8. Parks(k2, p2, Synced)
  BY <1>4, <1>5, ParksSet DEF AllTimeouts, TimeoutStates
<1>9. /\ p2 \in KernelType /\ p2.q = p1.q /\ p2.bmap = p1.bmap /\ p2.cache = p1.cache
      /\ p2.current = p1.current /\ p2.prio = p1.prio /\ p2.locked = p1.locked
      /\ p2.wq = p1.wq /\ p2.state = p1.state /\ p2.to[s] = "INACTIVE"
      /\ \A u \in Threads \ {s} : p2.to[u] = p1.to[u]
  BY <1>4, <1>6 DEF KernelType, AllTimeouts, TimeoutStates
<1>10. k2.state[s] = p2.state[s] /\ p2.state[s] = {}
  BY <1>4, <1>6, <1>8, <1>9 DEF Parks
<1> HIDE DEF k2, p2
<1>11. /\ p3 \in KernelType /\ p3.q = p2.q /\ p3.bmap = p2.bmap /\ p3.cache = p2.cache
       /\ p3.current = p2.current /\ p3.prio = p2.prio /\ p3.locked = p2.locked
       /\ p3.wq = p2.wq /\ p3.to = p2.to /\ p3.rv = p2.rv /\ p3.handling = p2.handling
       /\ p3.elapsed = p2.elapsed /\ p3.state[s] = {"SUSPENDED"}
       /\ \A u \in Threads \ {s} : p3.state[u] = p2.state[u]
  BY <1>4, <1>9 DEF KernelType, StateFlags
<1> HIDE DEF p3
<1>12. Parks(k2, p3, Synced \cup {s})
  BY <1>4, <1>8, <1>10, <1>11 DEF Parks
<1>13. Live(p3) /\ Settled(p3)
  <2>1. ~is_thread_ready(p3, s)
    BY <1>11 DEF is_thread_ready
  <2>2. /\ p3.q = p.q /\ p3.bmap = p.bmap /\ p3.cache = p.cache /\ p3.current = p.current
        /\ \A u \in Threads \ {s} : /\ p3.prio[u] = p.prio[u]
                                     /\ p3.state[u] = p.state[u]
                                     /\ p3.to[u] = p.to[u]
                                     /\ p3.locked[u] = p.locked[u]
    BY <1>6, <1>9, <1>11
  <2> QED BY <1>2, <1>4, <1>11, <2>1, <2>2, UnreadyTouched
<1>14. WaitsExact(p3) /\ \A w \in WaitQs : Waiters(p3, w) = Waiters(p, w) \ {s}
  <2>1. p3.wq = p1.wq /\ \A t \in Threads : "PENDING" \in p3.state[t] <=> "PENDING" \in p1.state[t]
    BY <1>6, <1>9, <1>11
  <2> QED BY <1>7, <2>1, WaitsFrame
<1>15. p3.to[s] = "INACTIVE" /\ \A t \in Threads \ {s} : /\ p3.to[t] = p.to[t]
                                                        /\ p3.state[t] = p.state[t]
  BY <1>6, <1>9, <1>11
<1>16. DOMAIN call' = Threads /\ call'[s].op = Put /\ \A t \in Threads \ {s} : call'[t] = call[t]
  BY <1>1, <1>4 DEF MboxSyncs
<1>17. /\ c \notin Waiters(p3, RxWaitQ)
       /\ \A w \in WaitQs : /\ s \notin Waiters(p3, w)
                            /\ Waiters(p3, w) \in SUBSET Waiters(p, w)
  BY <1>2, <1>14
<1>18. Parks(k', p3, Synced \cup {s}) /\ c \in Threads /\ s \in Threads \ Synced
  BY <1>1, <1>2, <1>4, <1>12
<1> QED BY <1>0, <1>1, <1>13, <1>14, <1>15, <1>16, <1>17, <1>18, SetAside

\* a sender finds a receiver in the queue
LEMMA MboxPutMatch ==
    ASSUME MboxInv, NEW target, k_mbox_put_match(target)
    PROVE  MboxInv'
<1>0. PICK p : MboxKernel(p) /\ MboxWaits(p)
  BY DEF MboxInv
<1> DEFINE c  == k.current
           r  == Receiver(target)
           kw == wake_waiter(k, r)
           pw == wake_waiter(p, r)
           k1 == remove_thread_from_ready_q(kw, c)
           p1 == remove_thread_from_ready_q(pw, c)
           k2 == [k1 EXCEPT !.state[c] = @ \cup {"PENDING"}]
           p2 == [p1 EXCEPT !.state[c] = {"SUSPENDED"}]
           p3 == swap(p2)
<1>1. /\ MboxSyncs /\ InThread /\ isr' = isr /\ slice' = slice /\ isr = <<>>
      /\ r # NoThread /\ call' = [call EXCEPT ![c] = Putting(target)]
      /\ k' = swap([k1 EXCEPT !.state[c] = @ \cup {"PENDING"}])
      /\ syncing' = [syncing EXCEPT ![r] = c]
  BY DEF MboxInv, k_mbox_put_match, Caller, InThread, Call
<1>2. /\ Parks(k, p, Synced) /\ Live(p) /\ WaitsExact(p)
      /\ k \in KernelType /\ p \in KernelType /\ c \in Threads \ Synced /\ c = p.current
      /\ c # Idle /\ p.state[c] = {} /\ p.to[c] = "INACTIVE"
      /\ \A w \in WaitQs : /\ Waiters(k, w) = Waiters(p, w) /\ c \notin Waiters(p, w)
                           /\ Waiters(p, w) \in SUBSET (Pending(p) \ Synced)
      /\ TxWaitQ \in WaitQs /\ RxWaitQ \in WaitQs
  BY <1>0, <1>1, MboxCaller, MailboxAssumption
<1>3. r \in Waiters(p, RxWaitQ)
  BY <1>1, <1>2, ReceiverIs
<1>4. r \in Threads \ Synced /\ r \in Pending(p) /\ syncing[r] = NoThread /\ r # c
  BY <1>0, <1>2, <1>3 DEF Pending, MboxWaits
<1> HIDE DEF r, c
<1>5. Parks(kw, pw, Synced)
  BY <1>2, <1>4, ParksWake
<1>6. /\ Live(pw) /\ WaitsExact(pw) /\ pw.current = c
      /\ \A w \in WaitQs : Waiters(pw, w) = Waiters(p, w) \ {r}
  BY <1>2, <1>4, WakeLive
<1>7. /\ pw.to[r] = "INACTIVE"
      /\ pw.state[r] = (p.state[r] \ {"PENDING"}) \ {"PRESTART"}
      /\ \A u \in Threads \ {r} : pw.state[u] = p.state[u] /\ pw.to[u] = p.to[u]
  BY <1>2, <1>4, WakeLive
<1> HIDE DEF kw, pw
<1>8. /\ Good(pw) /\ is_thread_ready(pw, c) /\ c \in Threads \ {Idle}
  BY <1>2, <1>6 DEF Live
<1>9. Off(p1, c) /\ SameThreads(pw, p1) /\ p1 \in KernelType
  BY <1>8, OffRemoved DEF Off, Holds
<1>10. Parks(k1, p1, Synced)
  BY <1>5, <1>8, <1>9, ParksRemove
<1>11. p1.state[c] = {} /\ k1.state[c] = {} /\ k1 \in KernelType
  BY <1>2, <1>4, <1>7, <1>9, <1>10 DEF SameThreads, Parks
<1>12. p1 = remove_thread_from_ready_q(pw, c)
  OBVIOUS
<1> HIDE DEF k1, p1
<1>13. /\ p2 \in KernelType /\ p2.q = p1.q /\ p2.bmap = p1.bmap /\ p2.cache = p1.cache
       /\ p2.current = p1.current /\ p2.prio = p1.prio /\ p2.locked = p1.locked
       /\ p2.wq = p1.wq /\ p2.to = p1.to /\ p2.rv = p1.rv /\ p2.handling = p1.handling
       /\ p2.elapsed = p1.elapsed /\ p2.state[c] = {"SUSPENDED"}
       /\ \A u \in Threads \ {c} : p2.state[u] = p1.state[u]
  BY <1>8, <1>9 DEF KernelType, StateFlags
<1>14. /\ k2 \in KernelType /\ k2.q = k1.q /\ k2.bmap = k1.bmap /\ k2.cache = k1.cache
       /\ k2.current = k1.current /\ k2.prio = k1.prio /\ k2.locked = k1.locked
       /\ k2.wq = k1.wq /\ k2.to = k1.to /\ k2.rv = k1.rv /\ k2.handling = k1.handling
       /\ k2.elapsed = k1.elapsed /\ k2.state[c] = {"PENDING"}
       /\ \A u \in Threads \ {c} : k2.state[u] = k1.state[u]
  BY <1>8, <1>11 DEF KernelType, StateFlags
<1>15. k' = swap(k2)
  BY <1>1
<1> HIDE DEF k2, p2
<1>16. Parks(k2, p2, Synced \cup {c})
  BY <1>2, <1>10, <1>13, <1>14 DEF Parks
<1>17. Parks(k', p3, Synced \cup {c})
  BY <1>15, <1>16, ParksSwap
<1>18. Live(p3) /\ Settled(p3) /\ Switched(p2, p3)
  <2>1. ~is_thread_ready(p2, c)
    BY <1>13 DEF is_thread_ready
  <2>2. \A u \in Threads \ {c} : /\ p2.prio[u] = p1.prio[u]
                                 /\ p2.state[u] = p1.state[u]
                                 /\ p2.to[u] = p1.to[u]
    BY <1>13
  <2> QED BY <1>6, <1>8, <1>12, <1>13, <2>1, <2>2, RunnerLeaves
<1> HIDE DEF p3
<1>19. /\ p3.wq = pw.wq /\ p3.to = pw.to /\ p3.state[c] = {"SUSPENDED"}
       /\ \A u \in Threads \ {c} : p3.state[u] = pw.state[u]
  BY <1>9, <1>13, <1>18 DEF SameThreads, Switched
<1>20. WaitsExact(p3) /\ \A w \in WaitQs : Waiters(p3, w) = Waiters(p, w) \ {r}
  <2>1. \A t \in Threads : "PENDING" \in p3.state[t] <=> "PENDING" \in pw.state[t]
    BY <1>2, <1>4, <1>7, <1>19
  <2> QED BY <1>6, <1>19, <2>1, WaitsFrame
<1>21. /\ r \notin Waiters(p3, RxWaitQ) /\ p3.to[c] = "INACTIVE"
       /\ \A w \in WaitQs : /\ c \notin Waiters(p3, w)
                            /\ Waiters(p3, w) \in SUBSET Waiters(p, w)
  BY <1>2, <1>4, <1>7, <1>19, <1>20
<1>22. ASSUME NEW t \in Threads \ {c}
       PROVE  \/ p3.to[t] = p.to[t] /\ p3.state[t] = p.state[t]
              \/ p3.to[t] = "INACTIVE" /\ p3.state[t] \in SUBSET p.state[t]
  <2>1. CASE t = r
    BY <1>7, <1>19, <2>1
  <2>2. CASE t # r
    BY <1>7, <1>19, <2>2
  <2> QED BY <2>1, <2>2
<1>23. DOMAIN call' = Threads /\ call'[c].op = Put /\ \A t \in Threads \ {c} : call'[t] = call[t]
  BY <1>1, <1>2 DEF MboxSyncs, Putting, Put
<1>24. c \in Threads \ Synced /\ r \in Threads /\ syncing[r] = NoThread
  BY <1>2, <1>4
<1> QED BY <1>0, <1>1, <1>17, <1>18, <1>20, <1>21, <1>22, <1>23, <1>24, SetAside

\* the receiver disposes of the message: its sender becomes ready
LEMMA MboxDispose ==
    ASSUME MboxInv, mbox_message_dispose
    PROVE  MboxInv'
<1>0. PICK p : MboxKernel(p) /\ MboxWaits(p)
  BY DEF MboxInv
<1> DEFINE c  == k.current
           s  == syncing[c]
           L  == Synced \ {s}
           k1 == [k EXCEPT !.rv[s] = "0", !.state[s] = @ \ {"PENDING"}]
<1>1. /\ MboxSyncs /\ InThread /\ isr' = isr /\ slice' = slice /\ isr = <<>>
      /\ s # NoThread /\ call' = call
      /\ k' = reschedule_threads(ready_thread(k1, s))
      /\ syncing' = [syncing EXCEPT ![c] = NoThread]
  BY DEF MboxInv, mbox_message_dispose, Caller, InThread, Call
<1>2. /\ Parks(k, p, Synced) /\ Live(p) /\ WaitsExact(p) /\ Good(p)
      /\ k \in KernelType /\ p \in KernelType /\ c \in Threads \ Synced /\ c = p.current
      /\ is_thread_ready(p, c)
  BY <1>0, <1>1, MboxCaller
<1>3. s \in Threads /\ s \in Synced /\ s # c /\ syncing \in [Threads -> Threads \cup {NoThread}]
  BY <1>1, <1>2 DEF MboxSyncs, Synced
<1>4. /\ p.state[s] = {"SUSPENDED"} /\ k.state[s] \in SUBSET {"PENDING"}
      /\ p.to[s] = "INACTIVE" /\ ~is_thread_ready(p, s) /\ s # Idle
  <2>1. p.state[s] = {"SUSPENDED"} /\ k.state[s] \in SUBSET {"PENDING"}
    BY <1>2, <1>3 DEF Parks
  <2>2. call[s].op # "none"
    BY <1>1, <1>3 DEF MboxSyncs, Put
  <2>3. p.to[s] = "INACTIVE"
    BY <1>0, <1>3, <2>1, <2>2 DEF MboxWaits
  <2>4. ~is_thread_ready(p, s)
    BY <2>1 DEF is_thread_ready
  <2>5. s # Idle
    BY <1>2, <2>4 DEF Good, Holds, ReadyThreads
  <2> QED BY <2>1, <2>3, <2>4, <2>5
<1>5. Synced' = L
  <2>1. \A t \in Threads \ {c} : syncing[t] # s
    BY <1>1, <1>2, <1>3 DEF MboxSyncs
  <2>2. syncing'[c] = NoThread /\ \A t \in Threads \ {c} : syncing'[t] = syncing[t]
    BY <1>1, <1>2, <1>3
  <2>3. ASSUME NEW x \in Threads
        PROVE  (\E t \in Threads : syncing'[t] = x)
               <=> (\E t \in Threads : syncing[t] = x) /\ x # s
    BY <1>2, <2>1, <2>2, ThreadsAssumption
  <2> QED BY <2>3 DEF Synced
<1>6. MboxSyncs'
  <2>1. syncing' \in [Threads -> Threads \cup {NoThread}]
    BY <1>1, <1>3
  <2>2. \A x, y \in Threads : syncing'[x] = syncing'[y] /\ syncing'[x] # NoThread => x = y
    BY <1>1, <1>2, <1>3 DEF MboxSyncs
  <2> QED BY <1>1, <1>5, <2>1, <2>2 DEF MboxSyncs
<1>7. PICK p1 : p1 = [p EXCEPT !.rv[s] = "0", !.state[s] = {}]
  OBVIOUS
<1> HIDE DEF s, c
<1>8. /\ p1 \in KernelType /\ p1.q = p.q /\ p1.bmap = p.bmap /\ p1.cache = p.cache
      /\ p1.current = p.current /\ p1.prio = p.prio /\ p1.locked = p.locked
      /\ p1.wq = p.wq /\ p1.to = p.to /\ p1.handling = p.handling
      /\ p1.elapsed = p.elapsed /\ p1.state[s] = {}
      /\ p1.rv = [p.rv EXCEPT ![s] = "0"]
      /\ \A u \in Threads \ {s} : p1.state[u] = p.state[u]
  BY <1>2, <1>3, <1>7 DEF KernelType, RetVals
<1>9. /\ k1 \in KernelType /\ k1.q = k.q /\ k1.bmap = k.bmap /\ k1.cache = k.cache
      /\ k1.current = k.current /\ k1.prio = k.prio /\ k1.locked = k.locked
      /\ k1.wq = k.wq /\ k1.to = k.to /\ k1.handling = k.handling
      /\ k1.elapsed = k.elapsed /\ k1.state[s] = k.state[s] \ {"PENDING"}
      /\ k1.rv = [k.rv EXCEPT ![s] = "0"]
      /\ \A u \in Threads \ {s} : k1.state[u] = k.state[u]
  BY <1>2, <1>3 DEF KernelType, RetVals
<1> HIDE DEF k1
<1>10. Parks(k1, p1, L)
  <2>1. k1.state[s] = {}
    BY <1>4, <1>9
  <2>2. /\ \A t \in Threads \ Synced : p.state[t] = k.state[t]
        /\ \A t \in Threads \cap Synced :
              p.state[t] = {"SUSPENDED"} /\ k.state[t] \in SUBSET {"PENDING"}
    BY <1>2 DEF Parks
  <2>3. /\ p1.state[s] = {} /\ k1.state[s] = {}
        /\ \A u \in Threads \ {s} : p1.state[u] = p.state[u] /\ k1.state[u] = k.state[u]
    BY <1>8, <1>9, <2>1
  <2>4. \A t \in Threads \ L : p1.state[t] = k1.state[t]
    BY ONLY <2>2, <2>3
  <2>5. \A t \in Threads \cap L :
           p1.state[t] = {"SUSPENDED"} /\ k1.state[t] \in SUBSET {"PENDING"}
    BY ONLY <2>2, <2>3
  <2>6. /\ p1.current = k1.current /\ p1.cache = k1.cache /\ p1.q = k1.q
        /\ p1.bmap = k1.bmap /\ p1.prio = k1.prio /\ p1.locked = k1.locked
        /\ p1.to = k1.to /\ p1.wq = k1.wq /\ p1.rv = k1.rv
        /\ p1.handling = k1.handling /\ p1.elapsed = k1.elapsed
    BY <1>2, <1>8, <1>9 DEF Parks
  <2> HIDE DEF L
  <2> QED BY <1>8, <1>9, <2>4, <2>5, <2>6 DEF Parks
<1>11. PICK p2 : p2 = ready_thread(p1, s)
  OBVIOUS
<1>12. Parks(ready_thread(k1, s), p2, L)
  BY <1>3, <1>10, <1>11, ParksReady
<1>13. PICK p3 : p3 = reschedule_threads(p2)
  OBVIOUS
<1>14. Parks(k', p3, L)
  BY <1>1, <1>12, <1>13, ParksSwap
<1>15. /\ p2.current = p1.current /\ p2.to = p1.to /\ p2.wq = p1.wq
       /\ p2.state[s] = p1.state[s] \ {"PRESTART"}
       /\ \A u \in Threads \ {s} : p2.state[u] = p1.state[u]
  BY <1>3, <1>8, <1>11, ReadyThreadEffect
<1>16. Live(p2)
  <2>1. Off(p, s)
    BY <1>2, <1>3, <1>4, OffUnready
  <2>2. \A u \in Threads \ {s} : /\ p1.prio[u] = p.prio[u]
                                 /\ p1.state[u] = p.state[u]
                                 /\ p1.to[u] = p.to[u]
    BY <1>8
  <2>3. Off(p1, s)
    BY <1>8, <2>1, <2>2, OffFrame
  <2>4. Good(p2)
    BY <1>11, <2>3, GoodReadied
  <2>5. p2.state[c] = p.state[c] /\ p2.to[c] = p.to[c] /\ p2.current = c
    BY <1>2, <1>3, <1>8, <1>15
  <2> QED BY <1>2, <2>4, <2>5 DEF Live, is_thread_ready, is_thread_timeout_active
<1>17. Live(p3) /\ Settled(p3)
  BY <1>13, <1>16, RescheduleSettled
<1>18. /\ p3.wq = p.wq /\ p3.to = p.to /\ p3.state[s] = {}
       /\ \A u \in Threads \ {s} : p3.state[u] = p.state[u]
  <2>1. Switched(p2, p3)
    BY <1>12, <1>13, RescheduleSwitched DEF Parks
  <2> QED BY <1>8, <1>15, <2>1 DEF Switched
<1>19. WaitsExact(p3) /\ \A w \in WaitQs : Waiters(p3, w) = Waiters(p, w)
  <2>1. \A t \in Threads : "PENDING" \in p3.state[t] <=> "PENDING" \in p.state[t]
    BY <1>3, <1>4, <1>18
  <2> QED BY <1>2, <1>18, <2>1, WaitsFrame
<1>20. MboxKernel(p3)'
  BY <1>5, <1>14, <1>17, <1>19 DEF MboxKernel
<1>21. TxWaitQ \in WaitQs /\ RxWaitQ \in WaitQs
  BY MailboxAssumption
<1>22. MboxWaits(p3)'
  <2>1. \A t \in Threads \ L : p3.state[t] \in SUBSET {"PENDING"}
    BY <1>0, <1>18 DEF MboxWaits
  <2>2. ASSUME NEW t \in Threads, call[t].op # "none", "PENDING" \notin p3.state[t]
        PROVE  p3.to[t] = "INACTIVE"
    <3>1. "PENDING" \notin p.state[t]
      BY <1>4, <1>18, <2>2
    <3> QED BY <1>0, <1>18, <2>2, <3>1 DEF MboxWaits
  <2>3. /\ \A v \in WaitQs \ {TxWaitQ, RxWaitQ} : Waiters(p3, v) = {}
        /\ \A t \in Waiters(p3, TxWaitQ) : call[t].op = Put
        /\ \A x \in Waiters(p3, TxWaitQ), y \in Waiters(p3, RxWaitQ) :
              ~matches(x, call[x].target, y, call[y].source)
    BY <1>0, <1>19, <1>21 DEF MboxWaits
  <2>4. \A t \in Waiters(p3, RxWaitQ) : call[t].op = Get /\ syncing'[t] = NoThread
    <3>1. \A t \in Waiters(p, RxWaitQ) : /\ t \in Threads
                                        /\ call[t].op = Get /\ syncing[t] = NoThread
      BY <1>0, <1>2, <1>21 DEF MboxWaits, WaitsExact, Pending
    <3> QED BY <1>1, <1>2, <1>3, <1>19, <1>21, <3>1
  <2> QED BY <1>1, <1>5, <2>1, <2>2, <2>3, <2>4 DEF MboxWaits, matches
<1> QED BY <1>6, <1>20, <1>22 DEF MboxInv

\* every step of the mailbox
LEMMA MboxStays ==
    ASSUME MboxInv, MailboxNext
    PROVE  MboxInv'
BY MboxInterrupts, MboxRest, MboxWait, MboxReturn, MboxGetMatch, MboxPutMatch, MboxDispose
   DEF MailboxNext

\* it holds at first
LEMMA MboxStart == Init => MboxInv
<1> SUFFICES ASSUME Init PROVE MboxInv
  OBVIOUS
<1>1. /\ ObjectsInit /\ call = [t \in Threads |-> NoCall] /\ isr = <<>>
      /\ syncing = [t \in Threads |-> NoThread]
  BY DEF Init, MailboxInit, ObjectsInit
<1>2. ObjWaits(TxWaitQ, {}) /\ ObjWaits(RxWaitQ, {}) /\ TxWaitQ \in WaitQs /\ RxWaitQ \in WaitQs
  BY <1>1, InitWaits, MailboxAssumption
<1>3. /\ IInv /\ WaitsExact(k) /\ \A w \in WaitQs : Waiters(k, w) = {}
  BY <1>2, MailboxAssumption DEF ObjWaits
<1>4. k \in KernelType /\ Live(k) /\ Settled(k) /\ slice \in SliceSettings
  BY <1>1, <1>3 DEF IInv, TypeOK
<1>5. Synced = {}
  BY <1>1, ThreadsAssumption DEF Synced
<1>6. \A t \in Threads : k.to[t] = "INACTIVE" /\ k.state[t] = {}
  BY <1>1 DEF ObjectsInit, AllTimeouts
<1>7. MboxKernel(k)
  BY <1>3, <1>4, <1>5 DEF MboxKernel, Parks
<1>8. MboxWaits(k)
  BY <1>2, <1>3, <1>6 DEF MboxWaits
<1>9. MboxSyncs
  BY <1>1, <1>4, <1>5 DEF MboxSyncs
<1> QED BY <1>7, <1>8, <1>9 DEF MboxInv

\* A behaviour exercises one object.
MailboxInv == use = "mbox" => MboxInv

\* In every state, on either port, the scheduler is consistent once the senders
\* whose messages were taken (mailbox.c, _syncing_thread) are set aside; those
\* are inside k_mbox_put() with no timeout running, each for one receiver, and
\* the two queues of the mailbox hold its waiting senders and receivers.
THEOREM MailboxInvariant == Spec => []MailboxInv
<1>1. Init => MailboxInv
  BY MboxStart DEF MailboxInv
<1>2. MailboxInv /\ [Next]_vars => MailboxInv'
  <2> SUFFICES ASSUME MailboxInv, [Next]_vars, use' = "mbox" PROVE MboxInv'
    BY DEF MailboxInv
  <2>1. use = "mbox" /\ MboxInv
    BY UseFixed DEF MailboxInv
  <2>2. CASE Next
    <3>1. MailboxNext
      BY <2>1, <2>2 DEF Next
    <3> QED BY <2>1, <3>1, MboxStays
  <2>3. CASE UNCHANGED vars
    <3>1. k' = k /\ isr' = isr /\ slice' = slice /\ call' = call /\ syncing' = syncing
      BY <2>3 DEF vars, schedVars, objVars
    <3>2. PICK p : MboxKernel(p) /\ MboxWaits(p)
      BY <2>1 DEF MboxInv
    <3>3. MboxSyncs
      BY <2>1 DEF MboxInv
    <3>4. Calmer(p, p)
      BY DEF Calmer
    <3> QED BY <3>1, <3>2, <3>3, <3>4, CalmerStays DEF MboxKernel, MboxSyncs
  <2> QED BY <2>2, <2>3
<1> QED BY <1>1, <1>2, PTL DEF Spec

\* membership of a queue
LEMMA InQueue ==
    ASSUME NEW q \in Seq(Threads), NEW t PROVE Contains(q, t) <=> t \in ToSet(q)
BY DEF Contains, ToSet

\* the property follows
LEMMA MboxRendezvous == MailboxInv => Rendezvous
<1> SUFFICES ASSUME use = "mbox", MboxInv PROVE Rendezvous
  BY DEF MailboxInv, Rendezvous
<1>0. PICK p : MboxKernel(p) /\ MboxWaits(p)
  BY DEF MboxInv
<1>1. /\ MboxSyncs /\ Parks(k, p, Synced) /\ Live(p) /\ WaitsExact(p)
      /\ k \in KernelType /\ p \in KernelType /\ p.wq = k.wq /\ p.q = k.q
      /\ TxWaitQ \in WaitQs /\ RxWaitQ \in WaitQs
  BY <1>0, MailboxAssumption DEF MboxInv, MboxKernel, Parks
<1>2. \A t \in Threads, w \in WaitQs : Contains(k.wq[w], t) <=> t \in Waiters(p, w)
  BY <1>1, InQueue DEF KernelType, Waiters
<1>3. \A t \in Threads : queued(t) <=> is_thread_ready(p, t)
  <2>1. \A t \in Threads, x \in Prios : Contains(k.q[x], t) <=> t \in ToSet(p.q[x])
    BY <1>1, InQueue DEF KernelType
  <2>2. \A x \in Prios : ToSet(p.q[x]) = {t \in ReadyThreads(p) : p.prio[t] = x}
    BY <1>1 DEF Live, Good, Holds, IsList
  <2>3. \A t \in Threads : p.prio[t] \in Prios
    BY <1>1 DEF KernelType
  <2> QED BY <2>1, <2>2, <2>3 DEF queued, ReadyThreads
<1>4. ASSUME NEW s \in Threads, call[s].op = "mbox_put"
      PROVE  (IF Contains(k.wq[TxWaitQ], s) THEN 1 ELSE 0)
             + Cardinality({r \in Threads : syncing[r] = s})
             + (IF queued(s) THEN 1 ELSE 0) = 1
  <2> DEFINE R == {r \in Threads : syncing[r] = s}
  <2>1. \A x, y \in R : x = y
    BY <1>1, ThreadsAssumption DEF MboxSyncs
  <2>2. Cardinality(R) = (IF R = {} THEN 0 ELSE 1) /\ (R = {} <=> s \notin Synced)
    <3> HIDE DEF R
    <3>1. Cardinality(R) = (IF R = {} THEN 0 ELSE 1)
      BY <2>1, CountOnce
    <3>2. R = {} <=> s \notin Synced
      BY DEF R, Synced
    <3> QED BY <3>1, <3>2
  <2> HIDE DEF R
  <2>3. CASE s \in Waiters(p, TxWaitQ)
    <3>1. "PENDING" \in p.state[s]
      BY <1>1, <2>3 DEF WaitsExact, Pending
    <3>2. s \notin Synced /\ ~is_thread_ready(p, s)
      BY <1>1, <3>1 DEF Parks, is_thread_ready
    <3> QED BY <1>1, <1>2, <1>3, <2>2, <2>3, <3>2 DEF R
  <2>4. CASE s \in Synced
    <3>1. p.state[s] = {"SUSPENDED"}
      BY <1>1, <2>4 DEF Parks
    <3>2. s \notin Waiters(p, TxWaitQ) /\ ~is_thread_ready(p, s)
      BY <1>1, <3>1 DEF WaitsExact, Pending, is_thread_ready
    <3> QED BY <1>1, <1>2, <1>3, <2>2, <2>4, <3>2 DEF R
  <2>5. CASE s \notin Waiters(p, TxWaitQ) /\ s \notin Synced
    <3>1. \A w \in WaitQs : s \notin Waiters(p, w)
      BY <1>0, <1>4, <2>5 DEF MboxWaits, Get
    <3>2. "PENDING" \notin p.state[s]
      BY <1>1, <3>1 DEF WaitsExact, Pending
    <3>3. p.state[s] = {} /\ p.to[s] = "INACTIVE"
      BY <1>0, <1>4, <2>5, <3>2 DEF MboxWaits
    <3>4. is_thread_ready(p, s)
      BY <3>3 DEF is_thread_ready, is_thread_timeout_active
    <3> QED BY <1>1, <1>2, <1>3, <2>2, <2>5, <3>4 DEF R
  <2> QED BY <2>3, <2>4, <2>5
<1>5. ASSUME NEW s \in Threads, NEW r \in Threads,
             Contains(k.wq[TxWaitQ], s), Contains(k.wq[RxWaitQ], r)
      PROVE  ~matches(s, call[s].target, r, call[r].source)
  BY <1>0, <1>1, <1>2, <1>5 DEF MboxWaits
<1> QED BY <1>4, <1>5 DEF Rendezvous

\* A sender inside k_mbox_put() is in the mailbox's queue, or one receiver has
\* its message, or it can run, and exactly one of these: the receiver never
\* reads the memory of a sender that has gone on, and no sender is forgotten.
\* No sender and receiver that match wait side by side.
THEOREM MailboxRendezvous == Spec => []Rendezvous
BY MailboxInvariant, MboxRendezvous, PTL

=============================================================================
