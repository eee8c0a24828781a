---------------------------- MODULE MutexProofs ----------------------------
(***************************************************************************)
(* Proofs about the mutex, for any number of threads and mutexes, either   *)
(* port and any interrupt sources.                                         *)
(*                                                                         *)
(* k_mutex_lock() and k_mutex_unlock() lock the scheduler and not the      *)
(* interrupts, so a mutex goes through states in which owner, lock_count   *)
(* and the wait queue disagree.  The invariant says what each of those     *)
(* states is: which threads may be there (only the running one), and what  *)
(* is already known of the next owner before it is recorded.               *)
(***************************************************************************)
EXTENDS Mutex, WaitProofs

\* the points of a mutex call at which the thread runs
Inside == {"lock", "adjust", "release", "handover"}
Points == {"idle", "wait"} \cup Inside

PcType(p) ==
    /\ p.at \in Points
    /\ p.at # "idle" => p = At(p.at, p.m, p.arg) /\ p.m \in Mutexes
    /\ p.at = "adjust" => p.arg \in Prios
    /\ p.at = "handover" => p.arg \in Apps \cup {NoThread}

MutexType ==
    /\ owner \in [Mutexes -> Apps \cup {NoThread}]
    /\ lock_count \in [Mutexes -> Nat]
    /\ orig_prio \in [Mutexes -> Prios]
    /\ held \in [Threads -> [Mutexes -> Nat]]
    /\ DOMAIN pc = Threads
    /\ \A t \in Threads : PcType(pc[t]) /\ (pc[t].at # "idle" => t # Idle)

\* a thread inside a mutex call has locked the scheduler once, and runs
\* unless it waits
PcInv ==
    \A t \in Threads :
        /\ k.locked[t] = IF pc[t].at = "idle" THEN 0 ELSE 1
        /\ pc[t].at \in Inside => t = k.current

\* the threads on a wait queue wait for that mutex and would so far return
\* -EAGAIN
WaitInv ==
    /\ WaitsExact(k)
    /\ \A w \in WaitQs, t \in Threads :
          t \in Waiters(k, w) => /\ w \in Mutexes /\ pc[t].at = "wait"
                                 /\ pc[t].m = w /\ k.rv[t] = "EAGAIN"

\* t was made the owner of m and has not run since
Granted(t, m) == pc[t].at = "wait" /\ pc[t].m = m /\ k.rv[t] = "0"

\* t is in the middle of giving m up
Releasing(t, m) == pc[t].at = "release" /\ pc[t].m = m
HandingOver(t, m) == pc[t].at = "handover" /\ pc[t].m = m

\* what the threads were told or are about to be told agrees with the mutex
OwnerInv ==
    \A m \in Mutexes :
        /\ lock_count[m] > 0 => owner[m] \in Apps
        /\ \A t \in Threads :
              /\ held[t][m] > 0 => owner[m] = t /\ lock_count[m] = held[t][m]
              /\ Granted(t, m) => /\ owner[m] = t /\ lock_count[m] = 1
                                  /\ held[t][m] = 0
              /\ owner[m] = t => \/ Granted(t, m)
                                 \/ held[t][m] > 0
                                 \/ Releasing(t, m) \/ HandingOver(t, m)

\* the next owner is off the wait queue but has not been told yet
ReleaseInv ==
    \A m \in Mutexes, t \in Threads :
        /\ Releasing(t, m) \/ HandingOver(t, m) => owner[m] = t /\ lock_count[m] = 0
        /\ HandingOver(t, m) /\ pc[t].arg # NoThread =>
              /\ pc[pc[t].arg].at = "wait" /\ pc[pc[t].arg].m = m
              /\ pc[t].arg \notin Pending(k) /\ k.rv[pc[t].arg] = "EAGAIN"

\* a mutex that is free, or about to be, is wanted by nobody
FreeInv ==
    \A m \in Mutexes :
        \/ lock_count[m] > 0
        \/ \E t \in Threads : \/ Releasing(t, m)
                              \/ HandingOver(t, m) /\ pc[t].arg # NoThread
        \/ \A u \in Waiters(k, m) : k.to[u] = "EXPIRED"

MInv ==
    /\ IInv
    /\ ClockInv
    /\ MutexType
    /\ PcInv
    /\ WaitInv
    /\ OwnerInv
    /\ ReleaseInv
    /\ FreeInv

(***************************************************************************)
(* The parts of k_mutex_lock() and k_mutex_unlock() that they share.       *)
(***************************************************************************)

\* the points of a thread's progress
LEMMA PointTypes ==
    /\ PcType(Idling) /\ Idling.at = "idle"
    /\ \A at \in Points, m \in Mutexes : \A arg :
          /\ at = "adjust" => arg \in Prios
          /\ at = "handover" => arg \in Apps \cup {NoThread}
          => PcType(At(at, m, arg))
BY DEF PcType, At, Idling, Points, Inside

\* adjust_owner_prio()
LEMMA AdjustEffect ==
    ASSUME NEW kk, Live(kk), NEW o \in Apps, NEW p \in Prios,
           NEW k2, k2 = adjust_owner_prio(kk, o, p)
    PROVE  /\ Live(k2)
           /\ k2.current = kk.current /\ k2.locked = kk.locked
           /\ k2.state = kk.state /\ k2.to = kk.to /\ k2.wq = kk.wq
           /\ k2.rv = kk.rv /\ k2.handling = kk.handling
           /\ k2.prio[o] = p
           /\ \A t \in Threads \ {o} : k2.prio[t] = kk.prio[t]
<1>0. Good(kk) /\ kk \in KernelType /\ o \in Threads \ {Idle} /\ o \in Threads
  BY DEF Live, Good, Holds, Apps
<1>1. CASE kk.prio[o] = p
  BY <1>0, <1>1 DEF adjust_owner_prio
<1>2. CASE kk.prio[o] # p
  <2> DEFINE k0 == [kk EXCEPT !.prio[o] = p]
  <2>1. k2 = thread_priority_set(kk, o, p)
    BY <1>2 DEF adjust_owner_prio
  <2>2. Good(k2) /\ SameThreads(k0, k2)
    BY <1>0, <2>1, GoodPrioSet
  <2>3. /\ k0.current = kk.current /\ k0.locked = kk.locked
        /\ k0.state = kk.state /\ k0.to = kk.to /\ k0.wq = kk.wq
        /\ k0.rv = kk.rv /\ k0.handling = kk.handling
        /\ k0.prio[o] = p
        /\ \A t \in Threads \ {o} : k0.prio[t] = kk.prio[t]
    BY <1>0 DEF KernelType
  <2> HIDE DEF k0
  <2>4. /\ k2.current = kk.current /\ k2.locked = kk.locked
        /\ k2.state = kk.state /\ k2.to = kk.to /\ k2.wq = kk.wq
        /\ k2.rv = kk.rv /\ k2.handling = kk.handling
        /\ k2.prio[o] = p
        /\ \A t \in Threads \ {o} : k2.prio[t] = kk.prio[t]
    BY <2>2, <2>3 DEF SameThreads
  <2>5. Live(k2)
    BY <2>2, <2>4 DEF Live, is_thread_ready, is_thread_timeout_active
  <2> QED BY <2>4, <2>5
<1> QED BY <1>1, <1>2

\* k_sched_unlock() of a thread that has locked the scheduler n times
LEMMA UnlockEffect ==
    ASSUME NEW kk, Live(kk), NEW c, c = kk.current, kk.locked[c] > 0,
           NEW k2, k2 = unlock_sched(kk)
    PROVE  /\ Live(k2) /\ Settled(k2)
           /\ k2.prio = kk.prio /\ k2.state = kk.state /\ k2.to = kk.to
           /\ k2.wq = kk.wq /\ k2.handling = kk.handling
           /\ k2.locked[c] = kk.locked[c] - 1
           /\ \A t \in Threads \ {c} : k2.locked[t] = kk.locked[t] /\ k2.rv[t] = kk.rv[t]
<1>0. Good(kk) /\ kk \in KernelType /\ is_thread_ready(kk, c) /\ c \in Threads
  BY DEF Live, Good, Holds, KernelType
<1> DEFINE n  == kk.locked[c] - 1
           k1 == [kk EXCEPT !.locked[c] = n]
<1>1. n \in Nat
  BY <1>0 DEF KernelType
<1>2. k1 = sched_unlock_no_reschedule(kk)
  BY DEF sched_unlock_no_reschedule
<1>3. /\ k1 \in KernelType
      /\ k1.q = kk.q /\ k1.bmap = kk.bmap /\ k1.cache = kk.cache
      /\ k1.prio = kk.prio /\ k1.state = kk.state /\ k1.to = kk.to
      /\ k1.current = kk.current /\ k1.locked[c] = n
  BY <1>0, <1>1, LockDepthSet
<1>4. /\ k1.wq = kk.wq /\ k1.rv = kk.rv /\ k1.handling = kk.handling
      /\ \A t \in Threads \ {c} : k1.locked[t] = kk.locked[t]
  BY <1>0, <1>1 DEF KernelType
<1>5. k2 = reschedule_threads(k1)
  BY <1>2 DEF unlock_sched
<1> HIDE DEF k1
<1>6. Good(k1)
  BY <1>0, <1>3, GoodFrame
<1>7. Live(k1)
  BY <1>0, <1>3, <1>6 DEF Live, is_thread_ready, is_thread_timeout_active
<1>8. Live(k2) /\ Settled(k2)
  BY <1>5, <1>7, RescheduleSettled
<1>9. Switched(k1, k2)
  BY <1>3, <1>5, RescheduleSwitched
<1>10. /\ k2.prio = k1.prio /\ k2.state = k1.state /\ k2.locked = k1.locked
       /\ k2.to = k1.to /\ k2.wq = k1.wq /\ k2.handling = k1.handling
       /\ \A t \in Threads : \/ k2.rv[t] = k1.rv[t]
                             \/ t = k1.current /\ k2.rv[t] = "EAGAIN"
  BY <1>9 DEF Switched
<1> QED BY <1>3, <1>4, <1>8, <1>10

\* sched_lock()
LEMMA LockEffect ==
    ASSUME NEW kk, Live(kk), NEW c, c = kk.current, NEW k2, k2 = sched_lock(kk)
    PROVE  /\ Live(k2) /\ Settled(k2) /\ k2.current = c
           /\ k2.prio = kk.prio /\ k2.state = kk.state /\ k2.to = kk.to
           /\ k2.wq = kk.wq /\ k2.handling = kk.handling /\ k2.rv = kk.rv
           /\ k2.locked[c] = kk.locked[c] + 1
           /\ \A t \in Threads \ {c} : k2.locked[t] = kk.locked[t]
<1>0. Good(kk) /\ kk \in KernelType /\ is_thread_ready(kk, c) /\ c \in Threads
  BY DEF Live, Good, Holds, KernelType
<1> DEFINE n  == kk.locked[c] + 1
<1>1. n \in Nat /\ n # 0
  BY <1>0 DEF KernelType
<1>2. k2 = [kk EXCEPT !.locked[c] = n]
  BY DEF sched_lock
<1>3. /\ k2 \in KernelType
      /\ k2.q = kk.q /\ k2.bmap = kk.bmap /\ k2.cache = kk.cache
      /\ k2.prio = kk.prio /\ k2.state = kk.state /\ k2.to = kk.to
      /\ k2.current = kk.current /\ k2.locked[c] = n
  BY <1>0, <1>1, <1>2, LockDepthSet
<1>4. /\ k2.wq = kk.wq /\ k2.rv = kk.rv /\ k2.handling = kk.handling
      /\ \A t \in Threads \ {c} : k2.locked[t] = kk.locked[t]
  BY <1>0, <1>1, <1>2 DEF KernelType
<1>5. Good(k2)
  BY <1>0, <1>3, GoodFrame
<1>6. Live(k2)
  BY <1>0, <1>3, <1>5 DEF Live, is_thread_ready, is_thread_timeout_active
<1>7. Settled(k2)
  BY <1>1, <1>3 DEF Settled, is_preempt
<1> QED BY <1>3, <1>4, <1>6, <1>7

(***************************************************************************)
(* The running thread waits for nothing, and is the only one that can be   *)
(* in the middle of a mutex call without waiting.                          *)
(***************************************************************************)
LEMMA CurFacts ==
    ASSUME MInv, InThread, NEW c, c = cur
    PROVE  /\ c \in Threads /\ c \in Apps /\ c # Idle /\ c # NoThread
           /\ k \in KernelType /\ Live(k) /\ Good(k) /\ is_thread_ready(k, c)
           /\ WaitsExact(k) /\ c \notin Pending(k)
           /\ \A w \in WaitQs : c \notin Waiters(k, w)
           /\ k.locked[c] = IF pc[c].at = "idle" THEN 0 ELSE 1
           /\ \A t \in Threads \ {c} : pc[t].at \notin Inside
<1>1. /\ Live(k) /\ Good(k) /\ k \in KernelType
      /\ c \in Threads \ {Idle} /\ is_thread_ready(k, c)
  BY InThreadFacts DEF MInv, cur
<1>2. c \in Threads /\ c \in Apps /\ c # Idle /\ c # NoThread
  BY <1>1, ThreadsAssumption DEF Apps
<1>3. WaitsExact(k)
  BY DEF MInv, WaitInv
<1>4. c \notin Pending(k)
  BY <1>1 DEF is_thread_ready, Pending
<1>5. \A w \in WaitQs : c \notin Waiters(k, w)
  BY <1>3, <1>4 DEF WaitsExact
<1>6. k.locked[c] = IF pc[c].at = "idle" THEN 0 ELSE 1
  BY <1>2 DEF MInv, PcInv
<1>7. \A t \in Threads \ {c} : pc[t].at \notin Inside
  BY DEF MInv, PcInv, cur
<1> QED BY <1>1, <1>2, <1>3, <1>4, <1>5, <1>6, <1>7

(***************************************************************************)
(* A step of the running thread c to the point p that no waiter notices.   *)
(***************************************************************************)
Moves(c, p) ==
    /\ k'.wq = k.wq /\ k'.state = k.state /\ k'.to = k.to
    /\ k'.handling = k.handling /\ clk' = clk
    /\ \A t \in Threads \ {c} : k'.locked[t] = k.locked[t]
    /\ k'.locked[c] = IF p.at = "idle" THEN 0 ELSE 1
    /\ \A t \in Pending(k) : k'.rv[t] = k.rv[t]
    /\ pc' = [pc EXCEPT ![c] = p]
    /\ p.at \in Inside => k'.current = c

\* it concerns the mutexes' owners only
LEMMA MovesStays ==
    ASSUME MInv, InThread, NEW c, c = cur, NEW p, Moves(c, p)
    PROVE  /\ PcInv' /\ WaitInv' /\ ClockInv'
           /\ Pending(k') = Pending(k)
           /\ \A w \in WaitQs : Waiters(k', w) = Waiters(k, w)
           /\ DOMAIN pc' = Threads /\ pc'[c] = p
           /\ \A t \in Threads \ {c} : pc'[t] = pc[t]
<1>1. /\ c \in Threads /\ WaitsExact(k) /\ c \notin Pending(k)
      /\ \A w \in WaitQs : c \notin Waiters(k, w)
      /\ \A t \in Threads \ {c} : pc[t].at \notin Inside
  BY CurFacts
<1>2. DOMAIN pc' = Threads /\ pc'[c] = p /\ \A t \in Threads \ {c} : pc'[t] = pc[t]
  BY <1>1 DEF MInv, MutexType, Moves
<1>3. /\ WaitsExact(k') /\ Pending(k') = Pending(k)
      /\ \A w \in WaitQs : Waiters(k', w) = Waiters(k, w)
  <2>1. k'.wq = k.wq /\ k'.state = k.state
    BY DEF Moves
  <2> QED BY <1>1, <2>1, WaitsFrame
<1>4. PcInv'
  <2>1. \A t \in Threads : k.locked[t] = IF pc[t].at = "idle" THEN 0 ELSE 1
    BY DEF MInv, PcInv
  <2>2. /\ \A t \in Threads \ {c} : k'.locked[t] = k.locked[t]
        /\ k'.locked[c] = IF p.at = "idle" THEN 0 ELSE 1
        /\ p.at \in Inside => k'.current = c
    BY DEF Moves
  <2> QED BY <1>1, <1>2, <2>1, <2>2 DEF PcInv
<1>5. WaitInv'
  <2>1. \A w \in WaitQs, t \in Threads :
          t \in Waiters(k, w) =>
             /\ w \in Mutexes /\ pc[t].at = "wait" /\ pc[t].m = w
             /\ k.rv[t] = "EAGAIN" /\ t \in Pending(k)
    BY <1>1 DEF MInv, WaitInv, WaitsExact
  <2>2. \A t \in Pending(k) : k'.rv[t] = k.rv[t]
    BY DEF Moves
  <2> QED BY <1>1, <1>2, <1>3, <2>1, <2>2 DEF WaitInv
<1>6. ClockInv'
  BY DEF MInv, ClockInv, Moves
<1> QED BY <1>2, <1>3, <1>4, <1>5, <1>6

\* the end of a mutex call: kx is the record in which the scheduler is unlocked
LEMMA UnlockMoves ==
    ASSUME MInv, InThread, NEW c, c = cur, pc[c].at # "idle",
           NEW kx, Live(kx), kx.current = k.current, kx.locked = k.locked,
           kx.wq = k.wq, kx.state = k.state, kx.to = k.to, kx.handling = k.handling,
           \A t \in Pending(k) : kx.rv[t] = k.rv[t],
           Call(unlock_sched(kx)), Goto(Idling)
    PROVE  /\ IInv' /\ Moves(c, Idling) /\ k'.prio = kx.prio
           /\ \A t \in Threads \ {c} : k'.rv[t] = kx.rv[t]
<1>1. c \in Threads /\ c \notin Pending(k) /\ k.locked[c] = 1 /\ slice \in SliceSettings
  BY CurFacts, InThreadFacts DEF MInv
<1>2. k' = unlock_sched(kx) /\ isr' = isr /\ clk' = clk /\ slice' = slice
  BY DEF Call
<1>3. kx.locked[c] > 0 /\ c = kx.current
  BY <1>1 DEF cur
<1>4. Live(k') /\ Settled(k')
  BY <1>2, <1>3, UnlockEffect
<1>5. /\ k'.prio = kx.prio /\ k'.state = kx.state /\ k'.to = kx.to
      /\ k'.wq = kx.wq /\ k'.handling = kx.handling
      /\ k'.locked[c] = kx.locked[c] - 1
      /\ \A t \in Threads \ {c} : k'.locked[t] = kx.locked[t] /\ k'.rv[t] = kx.rv[t]
  BY <1>2, <1>3, UnlockEffect
<1>6. IInv'
  BY <1>1, <1>2, <1>4, CallStays DEF MInv
<1>7. pc' = [pc EXCEPT ![c] = Idling] /\ Idling.at = "idle"
  BY DEF Goto, Idling
<1>8. \A t \in Pending(k) : t \in Threads \ {c} /\ k'.rv[t] = k.rv[t]
  BY <1>1, <1>5 DEF Pending
<1>9. "idle" \notin Inside
  BY DEF Inside
<1>10. Moves(c, Idling)
  BY <1>1, <1>2, <1>5, <1>7, <1>8, <1>9 DEF Moves
<1> QED BY <1>5, <1>6, <1>10

\* What the invariant says of the mutexes, for use in the steps.
LEMMA MutexFacts ==
    ASSUME MInv
    PROVE  /\ owner \in [Mutexes -> Apps \cup {NoThread}]
           /\ lock_count \in [Mutexes -> Nat]
           /\ orig_prio \in [Mutexes -> Prios]
           /\ held \in [Threads -> [Mutexes -> Nat]]
           /\ DOMAIN pc = Threads
           /\ Apps \in SUBSET Threads /\ NoThread \notin Threads
           /\ Mutexes \in SUBSET WaitQs
BY ThreadsAssumption, MutexAssumption DEF MInv, MutexType, Apps

\* A step of c to p leaves the hand-overs of mutexes in order if c was in none
\* and starts none.
LEMMA MovesRelease ==
    ASSUME MInv, InThread, NEW c, c = cur, NEW p, Moves(c, p),
           pc[c].at \notin {"release", "handover"},
           p.at \notin {"release", "handover"}
    PROVE  ReleaseInv'
<1>1. /\ c \in Threads /\ \A t \in Threads \ {c} : pc[t].at \notin Inside
  BY CurFacts
<1>2. pc'[c] = p /\ \A t \in Threads \ {c} : pc'[t] = pc[t]
  BY MovesStays
<1>3. \A t \in Threads : pc'[t].at \notin {"release", "handover"}
  BY <1>1, <1>2 DEF Inside
<1> QED BY <1>3 DEF ReleaseInv, Releasing, HandingOver

\* ... and the free mutexes unwanted, if no mutex becomes free
LEMMA MovesFree ==
    ASSUME MInv, InThread, NEW c, c = cur, NEW p, Moves(c, p),
           pc[c].at \notin {"release", "handover"},
           \A n \in Mutexes : lock_count'[n] > 0 \/ lock_count'[n] = lock_count[n]
    PROVE  FreeInv'
<1>1. c \in Threads /\ \A t \in Threads \ {c} : pc[t].at \notin Inside
  BY CurFacts
<1>2. \A w \in WaitQs : Waiters(k', w) = Waiters(k, w)
  BY MovesStays
<1>3. k'.to = k.to
  BY DEF Moves
<1>4. \A t \in Threads : pc[t].at \notin {"release", "handover"}
  BY <1>1 DEF Inside
<1>5. \A n \in Mutexes : n \in WaitQs
  BY MutexAssumption
<1>6. \A n \in Mutexes : lock_count[n] > 0 \/ \A u \in Waiters(k, n) : k.to[u] = "EXPIRED"
  BY <1>4 DEF MInv, FreeInv, Releasing, HandingOver
<1> QED BY <1>2, <1>3, <1>5, <1>6 DEF FreeInv

\* k_mutex_lock() of a mutex that is free or the caller's own
LEMMA LockFreeStays ==
    ASSUME MInv, lock_free
    PROVE  MInv'
<1>a. PICK c : c = cur
  OBVIOUS
<1>b. PICK m : m = pc[c].m
  OBVIOUS
<1>1. /\ InThread /\ pc[c].at = "lock"
      /\ lock_count[m] = 0 \/ owner[m] = c
      /\ orig_prio' = [orig_prio EXCEPT ![m] =
                           IF lock_count[m] = 0 THEN k.prio[c] ELSE @]
      /\ lock_count' = [lock_count EXCEPT ![m] = @ + 1]
      /\ owner' = [owner EXCEPT ![m] = c]
      /\ held' = [held EXCEPT ![c][m] = @ + 1]
      /\ Call(unlock_sched(k)) /\ Goto(Idling)
  BY <1>a, <1>b DEF lock_free, Running
<1>2. /\ c \in Threads /\ c \in Apps /\ c # NoThread /\ Live(k) /\ k.prio[c] \in Prios
  BY <1>a, <1>1, CurFacts DEF KernelType
<1>3. m \in Mutexes
  BY <1>b, <1>1, <1>2 DEF MInv, MutexType, PcType
<1>4. IInv' /\ Moves(c, Idling) /\ \A t \in Threads \ {c} : k'.rv[t] = k.rv[t]
  BY <1>a, <1>1, <1>2, UnlockMoves
<1>5. /\ PcInv' /\ WaitInv' /\ ClockInv'
      /\ \A w \in WaitQs : Waiters(k', w) = Waiters(k, w)
      /\ DOMAIN pc' = Threads /\ pc'[c] = Idling
      /\ \A t \in Threads \ {c} : pc'[t] = pc[t]
  BY <1>a, <1>1, <1>4, MovesStays
<1>6. ReleaseInv'
  BY <1>a, <1>1, <1>4, MovesRelease DEF Idling
<1>7. /\ owner \in [Mutexes -> Apps \cup {NoThread}] /\ lock_count \in [Mutexes -> Nat]
      /\ orig_prio \in [Mutexes -> Prios] /\ held \in [Threads -> [Mutexes -> Nat]]
      /\ Apps \in SUBSET Threads
  BY MutexFacts
<1>8. Idling.at = "idle"
  BY DEF Idling
<1>9. MutexType'
  <2>1. \A t \in Threads : PcType(pc'[t]) /\ (pc'[t].at # "idle" => t # Idle)
    BY <1>5, PointTypes DEF MInv, MutexType
  <2>2. owner' \in [Mutexes -> Apps \cup {NoThread}] /\ lock_count' \in [Mutexes -> Nat]
    BY <1>1, <1>2, <1>3, <1>7
  <2>3. orig_prio' \in [Mutexes -> Prios]
    BY <1>1, <1>2, <1>3, <1>7
  <2>4. held' \in [Threads -> [Mutexes -> Nat]]
    BY <1>1, <1>2, <1>3, <1>7
  <2> QED BY <1>5, <2>1, <2>2, <2>3, <2>4 DEF MutexType
<1>10. OwnerInv'
  <2>1. \A n \in Mutexes, t \in Threads :
              /\ held[t][n] > 0 => owner[n] = t /\ lock_count[n] = held[t][n]
              /\ Granted(t, n) => owner[n] = t /\ lock_count[n] = 1 /\ held[t][n] = 0
              /\ owner[n] = t => \/ Granted(t, n) \/ held[t][n] > 0
                                 \/ Releasing(t, n) \/ HandingOver(t, n)
    BY DEF MInv, OwnerInv
  <2>2. \A n \in Mutexes, t \in Threads \ {c} :
          /\ Granted(t, n)' <=> Granted(t, n)
          /\ Releasing(t, n)' <=> Releasing(t, n)
          /\ HandingOver(t, n)' <=> HandingOver(t, n)
    BY <1>4, <1>5 DEF Granted, Releasing, HandingOver
  <2>3. \A n \in Mutexes : /\ ~Granted(c, n) /\ ~Releasing(c, n) /\ ~HandingOver(c, n)
                           /\ ~Granted(c, n)'
    BY <1>1, <1>5, <1>8 DEF Granted, Releasing, HandingOver
  <2>4. /\ owner'[m] = c /\ lock_count'[m] = lock_count[m] + 1
        /\ held'[c][m] = held[c][m] + 1
        /\ \A n \in Mutexes \ {m} : /\ owner'[n] = owner[n] /\ lock_count'[n] = lock_count[n]
                                    /\ held'[c][n] = held[c][n]
        /\ \A t \in Threads \ {c} : held'[t] = held[t]
    BY <1>1, <1>2, <1>3, <1>7
  <2>5. \A n \in Mutexes, t \in Threads : held[t][n] \in Nat /\ lock_count[n] \in Nat
    BY <1>7
  <2>6. held[c][m] = lock_count[m]
    BY <1>1, <1>2, <1>3, <2>1, <2>3, <2>5
  <2>7. \A n \in Mutexes : lock_count'[n] > 0 => owner'[n] \in Apps
    BY <1>2, <2>4 DEF MInv, OwnerInv
  <2>8. ASSUME NEW t \in Threads \ {c}
        PROVE  held[t][m] = 0 /\ ~Granted(t, m)
    BY <1>1, <1>2, <1>3, <2>1, <2>5
  <2>9. ASSUME NEW n \in Mutexes, NEW t \in Threads
        PROVE  /\ held'[t][n] > 0 => owner'[n] = t /\ lock_count'[n] = held'[t][n]
               /\ Granted(t, n)' => owner'[n] = t /\ lock_count'[n] = 1 /\ held'[t][n] = 0
               /\ owner'[n] = t => \/ Granted(t, n)' \/ held'[t][n] > 0
                                   \/ Releasing(t, n)' \/ HandingOver(t, n)'
    <3>1. CASE n = m /\ t = c
      BY <1>2, <1>3, <2>3, <2>4, <2>5, <2>6, <3>1
    <3>2. CASE n = m /\ t # c
      BY <2>2, <2>4, <2>5, <2>8, <3>2
    <3>3. CASE n # m /\ t = c
      BY <2>1, <2>3, <2>4, <3>3
    <3>4. CASE n # m /\ t # c
      BY <2>1, <2>2, <2>4, <3>4
    <3> QED BY <3>1, <3>2, <3>3, <3>4
  <2> QED BY <2>7, <2>9 DEF OwnerInv
<1>11. FreeInv'
  <2>1. \A n \in Mutexes : lock_count'[n] > 0 \/ lock_count'[n] = lock_count[n]
    BY <1>1, <1>3, <1>7
  <2> QED BY <1>a, <1>1, <1>4, <2>1, MovesFree
<1> QED BY <1>4, <1>5, <1>6, <1>9, <1>10, <1>11 DEF MInv

\* A step that leaves the mutexes alone.
LEMMA OwnerSame ==
    ASSUME MInv, owner' = owner, lock_count' = lock_count, held' = held,
           NEW c \in Threads,
           \A t \in Threads \ {c} : pc'[t] = pc[t] /\ k'.rv[t] = k.rv[t],
           \A n \in Mutexes :
              /\ Granted(c, n)' <=> Granted(c, n)
              /\ Releasing(c, n)' \/ HandingOver(c, n)' <=>
                    Releasing(c, n) \/ HandingOver(c, n)
    PROVE  OwnerInv'
<1>1. \A n \in Mutexes, t \in Threads :
          /\ Granted(t, n)' <=> Granted(t, n)
          /\ Releasing(t, n)' \/ HandingOver(t, n)' <=>
                Releasing(t, n) \/ HandingOver(t, n)
  BY DEF Granted, Releasing, HandingOver
<1> QED BY <1>1 DEF MInv, OwnerInv

\* ... and moves c from one point outside the hand-over to another
LEMMA SameMutexes ==
    ASSUME MInv, InThread, NEW c, c = cur, NEW p, Moves(c, p), IInv',
           owner' = owner, lock_count' = lock_count, orig_prio' = orig_prio,
           held' = held, \A t \in Threads \ {c} : k'.rv[t] = k.rv[t],
           pc[c].at \notin {"release", "handover"},
           p.at \notin {"release", "handover", "wait"},
           pc[c].at = "wait" => k.rv[c] # "0",
           PcType(p)
    PROVE  MInv'
<1>1. c \in Threads /\ c # Idle
  BY CurFacts
<1>2. PcInv' /\ WaitInv' /\ ClockInv'
  BY MovesStays
<1>3. DOMAIN pc' = Threads /\ pc'[c] = p /\ \A t \in Threads \ {c} : pc'[t] = pc[t]
  BY MovesStays
<1>4. ReleaseInv'
  BY MovesRelease
<1>5. FreeInv'
  BY MovesFree
<1>6. \A n \in Mutexes :
        /\ ~Granted(c, n)' /\ ~Granted(c, n)
        /\ ~Releasing(c, n)' /\ ~HandingOver(c, n)'
        /\ ~Releasing(c, n) /\ ~HandingOver(c, n)
  BY <1>3 DEF Granted, Releasing, HandingOver
<1>7. OwnerInv'
  BY <1>1, <1>3, <1>6, OwnerSame
<1>8. MutexType'
  BY <1>1, <1>3 DEF MInv, MutexType
<1> QED BY <1>2, <1>4, <1>5, <1>7, <1>8 DEF MInv

\* k_mutex_lock() begins: the scheduler is locked
LEMMA LockMoves ==
    ASSUME MInv, InThread, NEW c, c = cur, pc[c].at = "idle", Call(sched_lock(k)),
           NEW p, p.at \in Inside, Goto(p)
    PROVE  IInv' /\ Moves(c, p) /\ k'.rv = k.rv /\ k'.prio = k.prio
<1>1. /\ c \in Threads /\ k.locked[c] = 0 /\ Live(k) /\ slice \in SliceSettings
  BY CurFacts, InThreadFacts DEF MInv
<1>2. k' = sched_lock(k) /\ isr' = isr /\ clk' = clk /\ slice' = slice /\ c = k.current
  BY DEF Call, cur
<1>3. Live(k') /\ Settled(k') /\ k'.current = c
  BY <1>1, <1>2, LockEffect
<1>4. /\ k'.prio = k.prio /\ k'.state = k.state /\ k'.to = k.to
      /\ k'.wq = k.wq /\ k'.handling = k.handling /\ k'.rv = k.rv
      /\ k'.locked[c] = k.locked[c] + 1
      /\ \A t \in Threads \ {c} : k'.locked[t] = k.locked[t]
  BY <1>1, <1>2, LockEffect
<1>5. IInv'
  BY <1>1, <1>2, <1>3, CallStays DEF MInv
<1>6. pc' = [pc EXCEPT ![c] = p]
  BY DEF Goto
<1>7. p.at # "idle"
  BY DEF Inside
<1>8. Moves(c, p)
  BY <1>1, <1>2, <1>3, <1>4, <1>6, <1>7 DEF Moves
<1> QED BY <1>4, <1>5, <1>8

\* k_mutex_lock() up to the test of the mutex
LEMMA LockStarts ==
    ASSUME MInv, NEW m \in Mutexes, NEW timeout \in Timeouts, k_mutex_lock(m, timeout)
    PROVE  MInv'
<1>a. PICK c : c = cur
  OBVIOUS
<1> DEFINE p == At("lock", m, timeout)
<1>1. /\ InThread /\ pc[c].at = "idle" /\ Call(sched_lock(k)) /\ Goto(p)
      /\ owner' = owner /\ lock_count' = lock_count /\ orig_prio' = orig_prio
      /\ held' = held
  BY <1>a DEF k_mutex_lock, Running
<1>2. p.at = "lock" /\ PcType(p)
  <2>1. "lock" \in Points
    BY DEF Points, Inside
  <2> QED BY <2>1, PointTypes DEF At
<1> HIDE DEF p
<1>3. IInv' /\ Moves(c, p) /\ k'.rv = k.rv
  <2>1. p.at \in Inside
    BY <1>2 DEF Inside
  <2> QED BY <1>a, <1>1, <2>1, LockMoves
<1> QED BY <1>a, <1>1, <1>2, <1>3, SameMutexes

\* k_mutex_lock() of a busy mutex with K_NO_WAIT
LEMMA LockBusyStays ==
    ASSUME MInv, lock_busy
    PROVE  MInv'
<1>a. PICK c : c = cur
  OBVIOUS
<1>1. /\ InThread /\ pc[c].at = "lock" /\ Call(unlock_sched(k)) /\ Goto(Idling)
      /\ owner' = owner /\ lock_count' = lock_count /\ orig_prio' = orig_prio
      /\ held' = held
  BY <1>a DEF lock_busy, Running
<1>2. Live(k)
  BY <1>a, <1>1, CurFacts
<1>3. IInv' /\ Moves(c, Idling) /\ \A t \in Threads \ {c} : k'.rv[t] = k.rv[t]
  BY <1>a, <1>1, <1>2, UnlockMoves
<1>4. Idling.at = "idle"
  BY DEF Idling
<1> QED BY <1>a, <1>1, <1>3, <1>4, SameMutexes, PointTypes

\* new_prio_for_inheritance(): the more urgent of the two, up to the ceiling
LEMMA InheritIs ==
    ASSUME NEW p \in Prios, NEW q \in Prios, NEW r, r = new_prio_for_inheritance(p, q)
    PROVE  /\ r \in Prios /\ r >= Ceiling
           /\ r = Ceiling \/ (r <= p /\ r <= q /\ r \in {p, q})
BY MutexAssumption, PriosAssumption
   DEF new_prio_for_inheritance, is_prio_higher, is_under_prio_ceiling, Prios

\* the priority that k_mutex_lock() computes when it has timed out
TimedOutPrio(m) ==
    IF k.wq[m] = <<>> THEN orig_prio[m]
    ELSE new_prio_for_inheritance(k.prio[Head(k.wq[m])], orig_prio[m])

\* it is a priority
LEMMA TimedOutPrioIs ==
    ASSUME MInv, NEW m \in Mutexes
    PROVE  TimedOutPrio(m) \in Prios
<1>1. orig_prio[m] \in Prios /\ m \in WaitQs
  BY MutexFacts
<1>2. CASE k.wq[m] = <<>>
  BY <1>1, <1>2 DEF TimedOutPrio
<1>3. CASE k.wq[m] # <<>>
  <2>1. Head(k.wq[m]) \in Threads
    BY <1>1, <1>3 DEF MInv, IInv, TypeOK, KernelType
  <2>2. k.prio[Head(k.wq[m])] \in Prios
    BY <2>1 DEF MInv, IInv, TypeOK, KernelType
  <2> QED BY <1>1, <1>3, <2>2, InheritIs DEF TimedOutPrio
<1> QED BY <1>2, <1>3

\* k_mutex_lock() has timed out
LEMMA TimedOutStays ==
    ASSUME MInv, lock_timed_out
    PROVE  MInv'
<1>a. PICK c : c = cur
  OBVIOUS
<1>b. PICK p : p = At("adjust", pc[c].m, TimedOutPrio(pc[c].m))
  OBVIOUS
<1>1. /\ InThread /\ pc[c].at = "wait" /\ k.rv[c] = "EAGAIN"
      /\ pc' = [pc EXCEPT ![c] = p]
      /\ owner' = owner /\ lock_count' = lock_count /\ orig_prio' = orig_prio
      /\ held' = held /\ k' = k /\ isr' = isr /\ clk' = clk /\ slice' = slice
  BY <1>a, <1>b DEF lock_timed_out, Running, Goto, TimedOutPrio
<1>2. c \in Threads /\ pc[c].m \in Mutexes /\ k.locked[c] = 1
  BY <1>a, <1>1, CurFacts DEF MInv, MutexType, PcType
<1>3. TimedOutPrio(pc[c].m) \in Prios
  BY <1>2, TimedOutPrioIs
<1>4. p.at = "adjust" /\ p.m \in Mutexes /\ p.arg \in Prios
  BY <1>b, <1>2, <1>3 DEF At
<1>5. Moves(c, p)
  BY <1>a, <1>1, <1>2, <1>4 DEF Moves, cur
<1>6. IInv'
  BY <1>1 DEF MInv, IInv, TypeOK
<1>7. PcType(p)
  <2>1. "adjust" \in Points
    BY DEF Points, Inside
  <2> QED BY <1>b, <1>2, <1>3, <2>1, PointTypes
<1> QED BY <1>a, <1>1, <1>4, <1>5, <1>6, <1>7, SameMutexes

\* k_mutex_lock() gives the owner, if there is one, its new priority
LEMMA AdjustStays ==
    ASSUME MInv, lock_adjust
    PROVE  MInv'
<1>a. PICK c : c = cur
  OBVIOUS
<1>b. PICK m : m = pc[c].m
  OBVIOUS
<1>1. /\ InThread /\ pc[c].at = "adjust"
      /\ owner' = owner /\ lock_count' = lock_count /\ orig_prio' = orig_prio
      /\ held' = held
  BY <1>a DEF lock_adjust, Running
<1>2. c \in Threads /\ m \in Mutexes /\ pc[c].arg \in Prios /\ Live(k)
  BY <1>a, <1>b, <1>1, CurFacts DEF MInv, MutexType, PcType
<1>3. CASE owner[m] = NoThread
  <2>1. k' = k /\ isr' = isr /\ clk' = clk /\ slice' = slice /\ pc' = pc
    BY <1>a, <1>b, <1>3 DEF lock_adjust
  <2>2. \A n \in Mutexes, t \in Threads :
          /\ Granted(t, n)' <=> Granted(t, n)
          /\ Releasing(t, n)' <=> Releasing(t, n)
          /\ HandingOver(t, n)' <=> HandingOver(t, n)
    BY <2>1 DEF Granted, Releasing, HandingOver
  <2>3. IInv' /\ ClockInv'
    BY <2>1 DEF MInv, IInv, TypeOK, ClockInv
  <2>4. MutexType' /\ PcInv' /\ WaitInv'
    BY <1>1, <2>1 DEF MInv, MutexType, PcInv, WaitInv
  <2>5. OwnerInv'
    BY <1>1, <2>2 DEF MInv, OwnerInv
  <2>6. ReleaseInv'
    BY <1>1, <2>1, <2>2 DEF MInv, ReleaseInv
  <2>7. FreeInv'
    BY <1>1, <2>1, <2>2 DEF MInv, FreeInv
  <2> QED BY <2>3, <2>4, <2>5, <2>6, <2>7 DEF MInv
<1>4. CASE owner[m] # NoThread
  <2>a. PICK kx : kx = adjust_owner_prio(k, owner[m], pc[c].arg)
    OBVIOUS
  <2>1. Call(unlock_sched(kx)) /\ Goto(Idling)
    BY <1>a, <1>b, <1>4, <2>a DEF lock_adjust
  <2>2. owner[m] \in Apps
    BY <1>2, <1>4, MutexFacts
  <2>3. /\ Live(kx) /\ kx.current = k.current /\ kx.locked = k.locked
        /\ kx.wq = k.wq /\ kx.state = k.state /\ kx.to = k.to
        /\ kx.handling = k.handling /\ kx.rv = k.rv
    BY <1>2, <2>a, <2>2, AdjustEffect
  <2>4. IInv' /\ Moves(c, Idling) /\ \A t \in Threads \ {c} : k'.rv[t] = k.rv[t]
    BY <1>a, <1>1, <2>1, <2>3, UnlockMoves
  <2>5. Idling.at = "idle"
    BY DEF Idling
  <2> QED BY <1>a, <1>1, <2>4, <2>5, SameMutexes, PointTypes
<1> QED BY <1>3, <1>4

\* k_mutex_lock() returns with the mutex it was given
LEMMA LockGotStays ==
    ASSUME MInv, lock_got
    PROVE  MInv'
<1>a. PICK c : c = cur
  OBVIOUS
<1>b. PICK m : m = pc[c].m
  OBVIOUS
<1>1. /\ InThread /\ pc[c].at = "wait" /\ k.rv[c] = "0"
      /\ owner' = owner /\ lock_count' = lock_count /\ orig_prio' = orig_prio
      /\ held' = [held EXCEPT ![c][m] = @ + 1]
      /\ Call(unlock_sched(k)) /\ Goto(Idling)
  BY <1>a, <1>b DEF lock_got, Running
<1>2. c \in Threads /\ m \in Mutexes /\ Live(k)
  BY <1>a, <1>b, <1>1, CurFacts DEF MInv, MutexType, PcType
<1>3. IInv' /\ Moves(c, Idling) /\ \A t \in Threads \ {c} : k'.rv[t] = k.rv[t]
  BY <1>a, <1>1, <1>2, UnlockMoves
<1>4. Idling.at = "idle"
  BY DEF Idling
<1>5. PcInv' /\ WaitInv' /\ ClockInv'
  BY <1>a, <1>1, <1>3, MovesStays
<1>6. /\ DOMAIN pc' = Threads /\ pc'[c] = Idling
      /\ \A t \in Threads \ {c} : pc'[t] = pc[t]
  BY <1>a, <1>1, <1>3, MovesStays
<1>7. ReleaseInv' /\ FreeInv'
  BY <1>a, <1>1, <1>3, <1>4, MovesRelease, MovesFree
<1>8. held \in [Threads -> [Mutexes -> Nat]] /\ lock_count \in [Mutexes -> Nat]
  BY MutexFacts
<1>9. MutexType'
  <2>1. held' \in [Threads -> [Mutexes -> Nat]]
    BY <1>1, <1>2, <1>8
  <2> QED BY <1>1, <1>6, <2>1, PointTypes DEF MInv, MutexType
<1>10. OwnerInv'
  <2>1. \A n \in Mutexes, t \in Threads :
              /\ held[t][n] > 0 => owner[n] = t /\ lock_count[n] = held[t][n]
              /\ Granted(t, n) => owner[n] = t /\ lock_count[n] = 1 /\ held[t][n] = 0
              /\ owner[n] = t => \/ Granted(t, n) \/ held[t][n] > 0
                                 \/ Releasing(t, n) \/ HandingOver(t, n)
    BY DEF MInv, OwnerInv
  <2>2. \A n \in Mutexes, t \in Threads \ {c} :
          /\ Granted(t, n)' <=> Granted(t, n)
          /\ Releasing(t, n)' <=> Releasing(t, n)
          /\ HandingOver(t, n)' <=> HandingOver(t, n)
    BY <1>3, <1>6 DEF Granted, Releasing, HandingOver
  <2>3. \A n \in Mutexes : /\ Granted(c, n) <=> n = m
                           /\ ~Releasing(c, n) /\ ~HandingOver(c, n) /\ ~Granted(c, n)'
    BY <1>b, <1>1, <1>4, <1>6 DEF Granted, Releasing, HandingOver
  <2>4. /\ held'[c][m] = held[c][m] + 1
        /\ \A n \in Mutexes \ {m} : held'[c][n] = held[c][n]
        /\ \A t \in Threads \ {c} : held'[t] = held[t]
    BY <1>1, <1>2, <1>8
  <2>5. owner[m] = c /\ lock_count[m] = 1 /\ held[c][m] = 0
    BY <1>2, <2>1, <2>3
  <2>6. ASSUME NEW n \in Mutexes, NEW t \in Threads
        PROVE  /\ held'[t][n] > 0 => owner[n] = t /\ lock_count[n] = held'[t][n]
               /\ Granted(t, n)' => owner[n] = t /\ lock_count[n] = 1 /\ held'[t][n] = 0
               /\ owner[n] = t => \/ Granted(t, n)' \/ held'[t][n] > 0
                                   \/ Releasing(t, n)' \/ HandingOver(t, n)'
    <3>1. CASE n = m /\ t = c
      BY <1>2, <2>3, <2>4, <2>5, <3>1
    <3>2. CASE n # m /\ t = c
      BY <2>1, <2>3, <2>4, <3>2
    <3>3. CASE t # c
      BY <2>1, <2>2, <2>4, <3>3
    <3> QED BY <3>1, <3>2, <3>3
  <2>7. \A n \in Mutexes : lock_count'[n] > 0 => owner'[n] \in Apps
    BY <1>1 DEF MInv, OwnerInv
  <2> QED BY <1>1, <2>6, <2>7 DEF OwnerInv
<1> QED BY <1>3, <1>5, <1>7, <1>9, <1>10 DEF MInv

\* k_mutex_unlock() of a mutex that stays locked
LEMMA NestedMoves ==
    ASSUME MInv, InThread, NEW c, c = cur, pc[c].at = "idle",
           Call(unlock_sched(sched_lock(k))), Goto(Idling)
    PROVE  /\ IInv' /\ Moves(c, Idling) /\ k'.prio = k.prio
           /\ \A t \in Threads \ {c} : k'.rv[t] = k.rv[t]
<1>1. c \in Threads /\ c \notin Pending(k) /\ k.locked[c] = 0 /\ slice \in SliceSettings
      /\ Live(k) /\ c = k.current
  BY CurFacts, InThreadFacts DEF MInv, cur
<1>a. PICK kx : kx = sched_lock(k)
  OBVIOUS
<1>2. k' = unlock_sched(kx) /\ isr' = isr /\ clk' = clk /\ slice' = slice
  BY <1>a DEF Call
<1>3. Live(kx) /\ kx.current = c /\ kx.locked[c] = 1
  BY <1>a, <1>1, LockEffect
<1>4. /\ kx.prio = k.prio /\ kx.state = k.state /\ kx.to = k.to
      /\ kx.wq = k.wq /\ kx.handling = k.handling /\ kx.rv = k.rv
      /\ \A t \in Threads \ {c} : kx.locked[t] = k.locked[t]
  BY <1>a, <1>1, LockEffect
<1>5. Live(k') /\ Settled(k')
  BY <1>2, <1>3, UnlockEffect
<1>6. /\ k'.prio = kx.prio /\ k'.state = kx.state /\ k'.to = kx.to
      /\ k'.wq = kx.wq /\ k'.handling = kx.handling
      /\ k'.locked[c] = kx.locked[c] - 1
      /\ \A t \in Threads \ {c} : k'.locked[t] = kx.locked[t] /\ k'.rv[t] = kx.rv[t]
  BY <1>2, <1>3, UnlockEffect
<1>7. IInv'
  BY <1>1, <1>2, <1>5, CallStays DEF MInv
<1>8. pc' = [pc EXCEPT ![c] = Idling] /\ Idling.at = "idle"
  BY DEF Goto, Idling
<1>9. \A t \in Pending(k) : t \in Threads \ {c} /\ k'.rv[t] = k.rv[t]
  BY <1>1, <1>4, <1>6 DEF Pending
<1>10. "idle" \notin Inside
  BY DEF Inside
<1>11. Moves(c, Idling)
  BY <1>1, <1>2, <1>3, <1>4, <1>6, <1>8, <1>9, <1>10 DEF Moves
<1> QED BY <1>4, <1>6, <1>7, <1>11

\* k_mutex_unlock() up to the test of the count
LEMMA UnlockStarts ==
    ASSUME MInv, NEW m \in Mutexes, k_mutex_unlock(m)
    PROVE  MInv'
<1>a. PICK c : c = cur
  OBVIOUS
<1>b. PICK p : p = IF lock_count[m] = 1 THEN At("release", m, "none") ELSE Idling
  OBVIOUS
<1>1. /\ InThread /\ pc[c].at = "idle" /\ owner[m] = c /\ lock_count[m] > 0
      /\ held' = [held EXCEPT ![c][m] = @ - 1]
      /\ lock_count' = [lock_count EXCEPT ![m] = @ - 1]
      /\ owner' = owner /\ orig_prio' = orig_prio
  BY <1>a DEF k_mutex_unlock, Running
<1>2. c \in Threads /\ c \in Apps /\ \A t \in Threads \ {c} : pc[t].at \notin Inside
  BY <1>a, <1>1, CurFacts
<1>3. /\ lock_count[m] = 1 => p.at = "release" /\ p.m = m
      /\ lock_count[m] # 1 => p = Idling /\ p.at = "idle"
  BY <1>b DEF At, Idling
<1>4. IInv' /\ Moves(c, p) /\ \A t \in Threads \ {c} : k'.rv[t] = k.rv[t]
  <2>1. CASE lock_count[m] = 1
    <3>1. Call(sched_lock(k)) /\ Goto(p)
      BY <1>b, <2>1 DEF k_mutex_unlock
    <3>2. p.at \in Inside
      BY <1>3, <2>1 DEF Inside
    <3> QED BY <1>a, <1>1, <3>1, <3>2, LockMoves
  <2>2. CASE lock_count[m] # 1
    <3>1. Call(unlock_sched(sched_lock(k))) /\ Goto(Idling)
      BY <2>2 DEF k_mutex_unlock
    <3> QED BY <1>a, <1>1, <1>3, <2>2, <3>1, NestedMoves
  <2> QED BY <2>1, <2>2
<1>5. /\ PcInv' /\ WaitInv' /\ ClockInv'
      /\ \A w \in WaitQs : Waiters(k', w) = Waiters(k, w)
  BY <1>a, <1>1, <1>4, MovesStays
<1>6. /\ DOMAIN pc' = Threads /\ pc'[c] = p
      /\ \A t \in Threads \ {c} : pc'[t] = pc[t]
  BY <1>a, <1>1, <1>4, MovesStays
<1>7. /\ held \in [Threads -> [Mutexes -> Nat]] /\ lock_count \in [Mutexes -> Nat]
      /\ Mutexes \in SUBSET WaitQs
  BY MutexFacts
<1>8. \A n \in Mutexes, t \in Threads :
              /\ held[t][n] > 0 => owner[n] = t /\ lock_count[n] = held[t][n]
              /\ Granted(t, n) => owner[n] = t /\ lock_count[n] = 1 /\ held[t][n] = 0
              /\ owner[n] = t => \/ Granted(t, n) \/ held[t][n] > 0
                                 \/ Releasing(t, n) \/ HandingOver(t, n)
  BY DEF MInv, OwnerInv
<1>9. \A n \in Mutexes, t \in Threads \ {c} :
          /\ Granted(t, n)' <=> Granted(t, n)
          /\ ~Releasing(t, n) /\ ~Releasing(t, n)'
          /\ ~HandingOver(t, n) /\ ~HandingOver(t, n)'
  BY <1>2, <1>4, <1>6 DEF Granted, Releasing, HandingOver, Inside
<1>10. \A n \in Mutexes : /\ ~Granted(c, n) /\ ~Granted(c, n)'
                          /\ ~Releasing(c, n) /\ ~HandingOver(c, n)
                          /\ ~HandingOver(c, n)'
                          /\ Releasing(c, n)' <=> n = m /\ lock_count[m] = 1
  BY <1>1, <1>3, <1>6 DEF Granted, Releasing, HandingOver
<1>11. held[c][m] = lock_count[m]
  BY <1>1, <1>2, <1>8, <1>10
<1>12. /\ held'[c][m] = held[c][m] - 1 /\ lock_count'[m] = lock_count[m] - 1
       /\ \A n \in Mutexes \ {m} : held'[c][n] = held[c][n] /\ lock_count'[n] = lock_count[n]
       /\ \A t \in Threads \ {c} : held'[t] = held[t]
  BY <1>1, <1>2, <1>7
<1>13. lock_count[m] \in Nat /\ lock_count'[m] \in Nat
       /\ (lock_count[m] = 1 <=> lock_count'[m] = 0)
  BY <1>1, <1>7, <1>12
<1>14. MutexType'
  <2>1. held' \in [Threads -> [Mutexes -> Nat]] /\ lock_count' \in [Mutexes -> Nat]
    <3>1. held[c][m] - 1 \in Nat /\ lock_count[m] - 1 \in Nat
      BY <1>1, <1>7, <1>11
    <3> QED BY <1>1, <1>2, <1>7, <3>1
  <2>2. \A t \in Threads : PcType(pc'[t]) /\ (pc'[t].at # "idle" => t # Idle)
    <3>1. PcType(p)
      <4>1. "release" \in Points
        BY DEF Points, Inside
      <4> QED BY <1>b, <4>1, PointTypes
    <3> QED BY <1>2, <1>6, <3>1 DEF MInv, MutexType, Apps
  <2> QED BY <1>1, <1>6, <2>1, <2>2 DEF MInv, MutexType
<1>15. OwnerInv'
  <2>1. ASSUME NEW n \in Mutexes, NEW t \in Threads
        PROVE  /\ held'[t][n] > 0 => owner[n] = t /\ lock_count'[n] = held'[t][n]
               /\ Granted(t, n)' => owner[n] = t /\ lock_count'[n] = 1 /\ held'[t][n] = 0
               /\ owner[n] = t => \/ Granted(t, n)' \/ held'[t][n] > 0
                                   \/ Releasing(t, n)' \/ HandingOver(t, n)'
    <3>1. CASE n = m /\ t = c
      BY <1>1, <1>10, <1>11, <1>12, <1>13, <3>1
    <3>2. CASE n # m /\ t = c
      BY <1>8, <1>10, <1>12, <3>2
    <3>3. CASE n = m /\ t # c
      <4>1. ~(held[t][m] > 0) /\ ~Granted(t, m)
        BY <1>1, <1>8, <3>3
      <4> QED BY <1>1, <1>9, <1>12, <3>3, <4>1
    <3>4. CASE n # m /\ t # c
      BY <1>8, <1>9, <1>12, <3>4
    <3> QED BY <3>1, <3>2, <3>3, <3>4
  <2>2. \A n \in Mutexes : lock_count'[n] > 0 => owner'[n] \in Apps
    BY <1>1, <1>2, <1>12 DEF MInv, OwnerInv
  <2> QED BY <1>1, <2>1, <2>2 DEF OwnerInv
<1>16. ReleaseInv'
  BY <1>1, <1>9, <1>10, <1>13 DEF ReleaseInv
<1>17. FreeInv'
  <2>1. \A n \in Mutexes : lock_count[n] > 0 \/ \A u \in Waiters(k, n) : k.to[u] = "EXPIRED"
    BY <1>9, <1>10 DEF MInv, FreeInv
  <2>2. k'.to = k.to
    BY <1>4 DEF Moves
  <2>3. ASSUME NEW n \in Mutexes
        PROVE  \/ lock_count'[n] > 0
               \/ \E t \in Threads : Releasing(t, n)'
               \/ \A u \in Waiters(k', n) : k'.to[u] = "EXPIRED"
    BY <1>2, <1>5, <1>7, <1>10, <1>12, <1>13, <2>1, <2>2
  <2> QED BY <2>3 DEF FreeInv
<1> QED BY <1>4, <1>5, <1>14, <1>15, <1>16, <1>17 DEF MInv

\* _set_thread_return_value() of a thread that waits for nothing any more
LEMMA ReturnValueSet ==
    ASSUME NEW kk, Live(kk), NEW t \in Threads, NEW k2, k2 = [kk EXCEPT !.rv[t] = "0"]
    PROVE  /\ Live(k2) /\ k2.current = kk.current /\ k2.locked = kk.locked
           /\ k2.prio = kk.prio
           /\ k2.wq = kk.wq /\ k2.state = kk.state /\ k2.to = kk.to
           /\ k2.handling = kk.handling /\ k2.rv[t] = "0"
           /\ \A u \in Threads \ {t} : k2.rv[u] = kk.rv[u]
<1>1. Good(kk) /\ kk \in KernelType /\ is_thread_ready(kk, kk.current)
  BY DEF Live, Good, Holds
<1>2. k2 \in KernelType
  BY <1>1 DEF KernelType, RetVals
<1>3. /\ k2.current = kk.current /\ k2.locked = kk.locked
      /\ k2.prio = kk.prio /\ k2.q = kk.q /\ k2.bmap = kk.bmap /\ k2.cache = kk.cache
      /\ k2.wq = kk.wq /\ k2.state = kk.state /\ k2.to = kk.to
      /\ k2.handling = kk.handling /\ k2.rv[t] = "0"
      /\ \A u \in Threads \ {t} : k2.rv[u] = kk.rv[u]
  BY <1>1 DEF KernelType
<1>4. Good(k2)
  BY <1>1, <1>2, <1>3, GoodFrame
<1>5. Live(k2)
  BY <1>1, <1>3, <1>4 DEF Live, is_thread_ready, is_thread_timeout_active
<1> QED BY <1>3, <1>5

\* what k_mutex_unlock() does when it records the new owner x
LEMMA HandoverEffect ==
    ASSUME MInv, unlock_handover, NEW c, c = cur, NEW m, m = pc[c].m,
           NEW x, x = pc[c].arg
    PROVE  /\ InThread /\ pc[c].at = "handover" /\ c \in Threads /\ m \in Mutexes
           /\ x \in Apps \cup {NoThread}
           /\ x # NoThread => /\ pc[x].at = "wait" /\ pc[x].m = m
                              /\ x \notin Pending(k) /\ k.rv[x] = "EAGAIN"
           /\ IInv' /\ Moves(c, Idling) /\ k'.prio = k.prio
           /\ owner[m] = c /\ lock_count[m] = 0
           /\ owner' = [owner EXCEPT ![m] = x] /\ held' = held
           /\ \A t \in Threads \ {c, x} : k'.rv[t] = k.rv[t]
           /\ x # NoThread =>
                /\ k'.rv[x] = "0"
                /\ lock_count' = [lock_count EXCEPT ![m] = @ + 1]
                /\ orig_prio' = [orig_prio EXCEPT ![m] = k.prio[x]]
           /\ x = NoThread => lock_count' = lock_count /\ orig_prio' = orig_prio
<1>1. /\ InThread /\ pc[c].at = "handover" /\ Goto(Idling)
      /\ owner' = [owner EXCEPT ![m] = x] /\ held' = held
      /\ x = NoThread =>
            Call(unlock_sched(k)) /\ lock_count' = lock_count /\ orig_prio' = orig_prio
      /\ x # NoThread =>
            /\ lock_count' = [lock_count EXCEPT ![m] = @ + 1]
            /\ orig_prio' = [orig_prio EXCEPT ![m] = k.prio[x]]
            /\ Call(unlock_sched([k EXCEPT !.rv[x] = "0"]))
  BY DEF unlock_handover, Running
<1>2. c \in Threads /\ Live(k)
  BY <1>1, CurFacts
<1>3. m \in Mutexes /\ x \in Apps \cup {NoThread}
  BY <1>1, <1>2 DEF MInv, MutexType, PcType
<1>4. HandingOver(c, m)
  BY <1>1 DEF HandingOver
<1>5. /\ owner[m] = c /\ lock_count[m] = 0
      /\ x # NoThread => /\ pc[x].at = "wait" /\ pc[x].m = m
                         /\ x \notin Pending(k) /\ k.rv[x] = "EAGAIN"
  BY <1>2, <1>3, <1>4 DEF MInv, ReleaseInv
<1>6. CASE x = NoThread
  <2>1. /\ IInv' /\ Moves(c, Idling) /\ k'.prio = k.prio
        /\ \A t \in Threads \ {c} : k'.rv[t] = k.rv[t]
    BY <1>1, <1>2, <1>6, UnlockMoves
  <2> QED BY <1>1, <1>2, <1>3, <1>5, <1>6, <2>1
<1>7. CASE x # NoThread
  <2>a. PICK kx : kx = [k EXCEPT !.rv[x] = "0"]
    OBVIOUS
  <2>1. x \in Threads /\ x # c /\ Call(unlock_sched(kx))
    BY <1>1, <1>3, <1>5, <1>7, <2>a DEF Apps
  <2>2. /\ Live(kx) /\ kx.current = k.current /\ kx.locked = k.locked
        /\ kx.prio = k.prio
        /\ kx.wq = k.wq /\ kx.state = k.state /\ kx.to = k.to
        /\ kx.handling = k.handling /\ kx.rv[x] = "0"
        /\ \A u \in Threads \ {x} : kx.rv[u] = k.rv[u]
    <3>1. Live(k) /\ x \in Threads
      BY <1>2, <2>1
    <3>2. Live(kx)
      BY ONLY <3>1, <2>a, ReturnValueSet
    <3>4. kx.current = k.current /\ kx.locked = k.locked /\ kx.prio = k.prio
      BY ONLY <3>1, <2>a, ReturnValueSet
    <3>5. /\ kx.wq = k.wq /\ kx.state = k.state /\ kx.to = k.to
          /\ kx.handling = k.handling
      BY ONLY <3>1, <2>a, ReturnValueSet
    <3>6. kx.rv[x] = "0"
      <4>1. k \in KernelType
        BY <3>1 DEF Live, Good, Holds
      <4> QED BY <3>1, <4>1, <2>a DEF KernelType
    <3>3. \A u \in Threads \ {x} : kx.rv[u] = k.rv[u]
      BY ONLY <3>1, <2>a, ReturnValueSet
    <3> QED BY <3>2, <3>3, <3>4, <3>5, <3>6
  <2>3. \A t \in Pending(k) : kx.rv[t] = k.rv[t]
    BY <1>5, <1>7, <2>2 DEF Pending
  <2>4. /\ IInv' /\ Moves(c, Idling) /\ k'.prio = kx.prio
        /\ \A t \in Threads \ {c} : k'.rv[t] = kx.rv[t]
    BY <1>1, <2>1, <2>2, <2>3, UnlockMoves
  <2>5. k'.prio = k.prio /\ k'.rv[x] = "0" /\ \A t \in Threads \ {c, x} : k'.rv[t] = k.rv[t]
    BY <2>1, <2>2, <2>4
  <2> QED BY <1>1, <1>2, <1>3, <1>5, <1>7, <2>4, <2>5
<1> QED BY <1>6, <1>7

\* it keeps the invariant
LEMMA HandoverStays ==
    ASSUME MInv, unlock_handover
    PROVE  MInv'
<1>a. PICK c : c = cur
  OBVIOUS
<1>b. PICK m : m = pc[c].m
  OBVIOUS
<1>c. PICK x : x = pc[c].arg
  OBVIOUS
<1>1. /\ InThread /\ pc[c].at = "handover" /\ c \in Threads /\ m \in Mutexes
      /\ x \in Apps \cup {NoThread}
      /\ x # NoThread => pc[x].at = "wait" /\ pc[x].m = m /\ k.rv[x] = "EAGAIN"
  BY <1>a, <1>b, <1>c, HandoverEffect
<1>2. IInv' /\ Moves(c, Idling) /\ owner[m] = c /\ lock_count[m] = 0
  BY <1>a, <1>b, <1>c, HandoverEffect
<1>3. /\ owner' = [owner EXCEPT ![m] = x] /\ held' = held
      /\ \A t \in Threads \ {c, x} : k'.rv[t] = k.rv[t]
      /\ x # NoThread =>
           /\ k'.rv[x] = "0"
           /\ lock_count' = [lock_count EXCEPT ![m] = @ + 1]
           /\ orig_prio' = [orig_prio EXCEPT ![m] = k.prio[x]]
      /\ x = NoThread => lock_count' = lock_count /\ orig_prio' = orig_prio
  BY <1>a, <1>b, <1>c, HandoverEffect
<1>4. \A t \in Threads \ {c} : pc[t].at \notin Inside
  BY <1>a, <1>1, CurFacts
<1>5. /\ PcInv' /\ WaitInv' /\ ClockInv'
      /\ \A w \in WaitQs : Waiters(k', w) = Waiters(k, w)
  BY <1>a, <1>1, <1>2, MovesStays
<1>6. /\ DOMAIN pc' = Threads /\ pc'[c] = Idling
      /\ \A t \in Threads \ {c} : pc'[t] = pc[t]
  BY <1>a, <1>1, <1>2, MovesStays
<1>7. /\ held \in [Threads -> [Mutexes -> Nat]] /\ lock_count \in [Mutexes -> Nat]
      /\ owner \in [Mutexes -> Apps \cup {NoThread}] /\ orig_prio \in [Mutexes -> Prios]
      /\ Mutexes \in SUBSET WaitQs /\ Apps \in SUBSET Threads /\ NoThread \notin Threads
  BY MutexFacts
<1>8. Idling.at = "idle"
  BY DEF Idling
<1>9. MutexType'
  <2>1. \A t \in Threads : PcType(pc'[t]) /\ (pc'[t].at # "idle" => t # Idle)
    BY <1>6, PointTypes DEF MInv, MutexType
  <2>2. owner' \in [Mutexes -> Apps \cup {NoThread}] /\ lock_count' \in [Mutexes -> Nat]
    BY <1>1, <1>3, <1>7
  <2>3. orig_prio' \in [Mutexes -> Prios]
    <3>1. x # NoThread => k.prio[x] \in Prios
      BY <1>1, <1>7 DEF MInv, IInv, TypeOK, KernelType
    <3> QED BY <1>1, <1>3, <1>7, <3>1
  <2> QED BY <1>3, <1>6, <1>7, <2>1, <2>2, <2>3 DEF MutexType
<1>10. \A n \in Mutexes, t \in Threads :
              /\ held[t][n] > 0 => owner[n] = t /\ lock_count[n] = held[t][n]
              /\ Granted(t, n) => owner[n] = t /\ lock_count[n] = 1 /\ held[t][n] = 0
              /\ owner[n] = t => \/ Granted(t, n) \/ held[t][n] > 0
                                 \/ Releasing(t, n) \/ HandingOver(t, n)
  BY DEF MInv, OwnerInv
<1>11. \A n \in Mutexes, t \in Threads :
          /\ ~Releasing(t, n) /\ ~Releasing(t, n)' /\ ~HandingOver(t, n)'
          /\ HandingOver(t, n) <=> t = c /\ n = m
  BY <1>b, <1>1, <1>4, <1>6, <1>8 DEF Releasing, HandingOver, Inside
<1>12. /\ \A n \in Mutexes : ~Granted(c, n) /\ ~Granted(c, n)'
       /\ \A n \in Mutexes, t \in Threads \ {c, x} : Granted(t, n)' <=> Granted(t, n)
       /\ x # NoThread => \A n \in Mutexes : ~Granted(x, n) /\ (Granted(x, n)' <=> n = m)
  BY <1>1, <1>3, <1>6, <1>7, <1>8 DEF Granted
<1>13. \A t \in Threads : held[t][m] = 0 /\ ~Granted(t, m)
  BY <1>1, <1>2, <1>7, <1>10
<1>14. /\ owner'[m] = x
       /\ x # NoThread => lock_count'[m] = 1
       /\ \A n \in Mutexes \ {m} : owner'[n] = owner[n] /\ lock_count'[n] = lock_count[n]
       /\ x = NoThread => lock_count'[m] = 0
  BY <1>1, <1>2, <1>3, <1>7
<1>15. OwnerInv'
  <2>1. ASSUME NEW n \in Mutexes, NEW t \in Threads
        PROVE  /\ held[t][n] > 0 => owner'[n] = t /\ lock_count'[n] = held[t][n]
               /\ Granted(t, n)' => owner'[n] = t /\ lock_count'[n] = 1 /\ held[t][n] = 0
               /\ owner'[n] = t => \/ Granted(t, n)' \/ held[t][n] > 0
                                   \/ Releasing(t, n)' \/ HandingOver(t, n)'
    <3>1. CASE n = m
      <4>1. held[t][n] = 0
        BY <1>13, <3>1
      <4>2. Granted(t, n)' => t = x /\ x # NoThread
        BY <1>7, <1>12, <1>13, <3>1
      <4>3. owner'[n] = t => t = x /\ x # NoThread
        BY <1>1, <1>3, <1>7, <3>1
      <4>4. x # NoThread => owner'[n] = x /\ lock_count'[n] = 1 /\ Granted(x, n)'
        BY <1>1, <1>3, <1>7, <1>12, <1>14, <3>1
      <4> QED BY <4>1, <4>2, <4>3, <4>4
    <3>2. CASE n # m /\ t # x
      BY <1>10, <1>11, <1>12, <1>14, <3>2
    <3>3. CASE n # m /\ t = x
      BY <1>7, <1>10, <1>11, <1>12, <1>14, <3>3
    <3> QED BY <3>1, <3>2, <3>3
  <2>2. \A n \in Mutexes : lock_count'[n] > 0 => owner'[n] \in Apps
    <3>1. \A n \in Mutexes : lock_count[n] > 0 => owner[n] \in Apps
      BY DEF MInv, OwnerInv
    <3>2. owner'[m] = x
      BY <1>1, <1>3, <1>7
    <3> QED BY <1>1, <1>14, <3>1, <3>2
  <2> QED BY <1>3, <2>1, <2>2 DEF OwnerInv
<1>16. ReleaseInv'
  BY <1>11 DEF ReleaseInv
<1>17. FreeInv'
  <2>1. \A n \in Mutexes : (x # NoThread /\ n = m) \/ lock_count[n] > 0
                           \/ \A u \in Waiters(k, n) : k.to[u] = "EXPIRED"
    BY <1>c, <1>11 DEF MInv, FreeInv
  <2>2. k'.to = k.to
    BY <1>2 DEF Moves
  <2>3. ASSUME NEW n \in Mutexes
        PROVE  \/ lock_count'[n] > 0
               \/ \A u \in Waiters(k', n) : k'.to[u] = "EXPIRED"
    <3>1. n \in WaitQs
      BY <1>7
    <3>2. CASE n = m
      BY <1>2, <1>5, <1>14, <2>1, <2>2, <3>1, <3>2
    <3>3. CASE n # m
      BY <1>5, <1>14, <2>1, <2>2, <3>1, <3>3
    <3> QED BY <3>2, <3>3
  <2> QED BY <2>3 DEF FreeInv
<1> QED BY <1>2, <1>5, <1>9, <1>15, <1>16, <1>17 DEF MInv

(***************************************************************************)
(* k_mutex_unlock() gives its priority back and takes the next owner x off *)
(* the wait queue: the first waiter, at position i, that has not timed     *)
(* out.                                                                    *)
(***************************************************************************)
FirstToServe(m, x) ==
    \E i \in 1..Len(k.wq[m]) :
        /\ k.wq[m][i] = x /\ k.to[x] # "EXPIRED"
        /\ \A j \in 1..Len(k.wq[m]) : k.to[k.wq[m][j]] # "EXPIRED" => i <= j

\* what the step does, x being the next owner or NoThread
LEMMA ReleaseEffect ==
    ASSUME MInv, unlock_release, NEW c, c = cur, NEW m, m = pc[c].m
    PROVE  /\ InThread /\ pc[c].at = "release" /\ m \in Mutexes
           /\ owner[m] = c /\ lock_count[m] = 0
           /\ owner' = owner /\ lock_count' = lock_count /\ orig_prio' = orig_prio
           /\ held' = held /\ clk' = clk /\ isr' = isr /\ slice' = slice
           /\ Live(k') /\ k'.current = c /\ k'.locked = k.locked
           /\ k'.rv = k.rv /\ k'.handling = k.handling /\ WaitsExact(k')
           /\ k'.prio[c] = orig_prio[m]
           /\ \A t \in Threads \ {c} : k'.prio[t] = k.prio[t]
           /\ \E x \in Apps \cup {NoThread} :
                /\ pc' = [pc EXCEPT ![c] = At("handover", m, x)]
                /\ x = NoThread =>
                     /\ \A u \in Waiters(k, m) : k.to[u] = "EXPIRED"
                     /\ k'.wq = k.wq /\ k'.to = k.to /\ Pending(k') = Pending(k)
                /\ x # NoThread =>
                     /\ x \in Waiters(k, m) /\ x \in Pending(k) /\ FirstToServe(m, x)
                     /\ Pending(k') = Pending(k) \ {x}
                     /\ \A w \in WaitQs : /\ Waiters(k', w) = Waiters(k, w) \ {x}
                                          /\ k'.wq[w] = dlist_remove(k.wq[w], x)
                     /\ k'.to[x] = "INACTIVE"
                     /\ \A u \in Threads \ {x} : k'.to[u] = k.to[u]
<1>a. PICK k1 : k1 = adjust_owner_prio(k, owner[m], orig_prio[m])
  OBVIOUS
<1>b. PICK x : x = find_first_thread_to_unpend(k1, m)
  OBVIOUS
<1>1. /\ InThread /\ pc[c].at = "release"
      /\ owner' = owner /\ lock_count' = lock_count /\ orig_prio' = orig_prio
      /\ held' = held /\ clk' = clk /\ isr' = isr /\ slice' = slice
      /\ pc' = [pc EXCEPT ![c] = At("handover", m, x)]
      /\ x = NoThread => k' = k1
      /\ x # NoThread => k' = Woken(k1, x)
  BY <1>a, <1>b DEF unlock_release, Running, Call, Goto, Woken
<1>2. /\ c \in Threads /\ c \in Apps /\ Live(k) /\ WaitsExact(k) /\ k \in KernelType
      /\ c = k.current
  BY <1>1, CurFacts DEF cur
<1>3. m \in Mutexes /\ m \in WaitQs /\ orig_prio[m] \in Prios
  BY <1>1, <1>2, MutexFacts DEF MInv, MutexType, PcType
<1>4. owner[m] = c /\ lock_count[m] = 0
  BY <1>1, <1>2, <1>3 DEF MInv, ReleaseInv, Releasing
<1>c. k1 = adjust_owner_prio(k, c, orig_prio[m])
  BY <1>a, <1>4
<1>d. Live(k) /\ c \in Apps /\ orig_prio[m] \in Prios
  BY <1>2, <1>3
<1>5. /\ Live(k1)
      /\ k1.current = k.current /\ k1.locked = k.locked
      /\ k1.state = k.state /\ k1.to = k.to /\ k1.wq = k.wq
      /\ k1.rv = k.rv /\ k1.handling = k.handling
      /\ k1.prio[c] = orig_prio[m]
      /\ \A t \in Threads \ {c} : k1.prio[t] = k.prio[t]
  BY ONLY <1>c, <1>d, AdjustEffect
<1>6. /\ WaitsExact(k1) /\ Pending(k1) = Pending(k)
      /\ \A w \in WaitQs : Waiters(k1, w) = Waiters(k, w)
  BY <1>2, <1>5, WaitsFrame
<1>7. k1 \in KernelType
  BY <1>5 DEF Live, Good, Holds
<1>8. \A u \in Threads : TimedOut(k1, u) <=> k.to[u] = "EXPIRED"
  BY <1>5 DEF MInv, ClockInv, TimedOut
<1>9. \A i \in 1..Len(k.wq[m]) : k.wq[m][i] \in Threads
  BY <1>2, <1>3 DEF KernelType
<1>10. CASE x = NoThread
  <2>1. \A u \in Waiters(k1, m) : TimedOut(k1, u)
    BY <1>b, <1>3, <1>7, <1>10, FirstWaiter
  <2>2. \A u \in Waiters(k, m) : u \in Threads
    BY <1>2, <1>3 DEF WaitsExact, Pending
  <2>3. \A u \in Waiters(k, m) : k.to[u] = "EXPIRED"
    BY <1>3, <1>6, <1>8, <2>1, <2>2
  <2> QED BY <1>1, <1>2, <1>3, <1>4, <1>5, <1>6, <1>10, <2>3
<1>11. CASE x # NoThread
  <2>1. PICK i \in 1..Len(k1.wq[m]) :
              /\ k1.wq[m][i] = x /\ ~TimedOut(k1, x)
              /\ x \in Waiters(k1, m) /\ x \in Threads
              /\ \A j \in 1..Len(k1.wq[m]) : ~TimedOut(k1, k1.wq[m][j]) => i <= j
    BY <1>b, <1>3, <1>7, <1>11, FirstWaiter
  <2>2. x \in Waiters(k, m) /\ x \in Pending(k1) /\ x \in Pending(k)
    BY <1>2, <1>3, <1>6, <2>1 DEF WaitsExact
  <2>3. FirstToServe(m, x)
    BY <1>5, <1>8, <1>9, <2>1 DEF FirstToServe
  <2>4. k' = Woken(k1, x)
    BY <1>1, <1>11
  <2>5. /\ Live(k') /\ x \in Threads \ {Idle}
        /\ WaitsExact(k') /\ Pending(k') = Pending(k1) \ {x}
        /\ k'.current = k1.current /\ k'.prio = k1.prio
        /\ k'.locked = k1.locked /\ k'.handling = k1.handling
        /\ k'.rv = k1.rv /\ k'.to[x] = "INACTIVE"
    BY <1>5, <1>6, <2>2, <2>4, WokenLive
  <2>6. /\ \A w \in WaitQs : /\ Waiters(k', w) = Waiters(k1, w) \ {x}
                             /\ k'.wq[w] = dlist_remove(k1.wq[w], x)
        /\ \A u \in Threads \ {x} : k'.to[u] = k1.to[u]
    BY <1>5, <1>6, <2>2, <2>4, WokenLive
  <2>7. /\ \A w \in WaitQs : /\ Waiters(k', w) = Waiters(k, w) \ {x}
                             /\ k'.wq[w] = dlist_remove(k.wq[w], x)
        /\ \A u \in Threads \ {x} : k'.to[u] = k.to[u]
        /\ Pending(k') = Pending(k) \ {x}
    BY <1>5, <1>6, <2>5, <2>6
  <2>8. x \in Apps
    BY <2>5 DEF Apps
  <2> QED BY <1>1, <1>2, <1>3, <1>4, <1>5, <1>11, <2>2, <2>3, <2>5, <2>7, <2>8
<1> QED BY <1>10, <1>11

\* it keeps the invariant
LEMMA ReleaseStays ==
    ASSUME MInv, unlock_release
    PROVE  MInv'
<1>a. PICK c : c = cur
  OBVIOUS
<1>b. PICK m : m = pc[c].m
  OBVIOUS
<1>1. /\ InThread /\ pc[c].at = "release" /\ m \in Mutexes
      /\ owner[m] = c /\ lock_count[m] = 0
      /\ owner' = owner /\ lock_count' = lock_count /\ orig_prio' = orig_prio
      /\ held' = held /\ clk' = clk /\ isr' = isr /\ slice' = slice
  BY <1>a, <1>b, ReleaseEffect
<1>2. /\ Live(k') /\ k'.current = c /\ k'.locked = k.locked
      /\ k'.rv = k.rv /\ k'.handling = k.handling /\ WaitsExact(k')
  BY <1>a, <1>b, ReleaseEffect
<1>3. PICK x \in Apps \cup {NoThread} :
                /\ pc' = [pc EXCEPT ![c] = At("handover", m, x)]
                /\ x = NoThread =>
                     /\ \A u \in Waiters(k, m) : k.to[u] = "EXPIRED"
                     /\ k'.wq = k.wq /\ k'.to = k.to /\ Pending(k') = Pending(k)
                /\ x # NoThread =>
                     /\ x \in Waiters(k, m) /\ x \in Pending(k)
                     /\ Pending(k') = Pending(k) \ {x}
                     /\ \A w \in WaitQs : Waiters(k', w) = Waiters(k, w) \ {x}
                     /\ k'.to[x] = "INACTIVE"
                     /\ \A u \in Threads \ {x} : k'.to[u] = k.to[u]
  BY <1>a, <1>b, ReleaseEffect
<1>4. /\ c \in Threads /\ c \in Apps /\ c # Idle /\ k.locked[c] = 1
      /\ c \notin Pending(k) /\ \A w \in WaitQs : c \notin Waiters(k, w)
      /\ \A t \in Threads \ {c} : pc[t].at \notin Inside
      /\ WaitsExact(k) /\ slice \in SliceSettings /\ c = k.current
  BY <1>a, <1>1, CurFacts, InThreadFacts DEF MInv, cur
<1>5. Mutexes \in SUBSET WaitQs /\ Apps \in SUBSET Threads /\ NoThread \notin Threads
      /\ DOMAIN pc = Threads
  BY MutexFacts
<1>6. IInv'
  <2>1. Settled(k')
    BY <1>2, <1>4 DEF Settled, is_preempt
  <2> QED BY <1>1, <1>2, <1>4, <2>1, CallStays DEF MInv
<1>7. ClockInv'
  BY <1>1, <1>2, <1>3 DEF MInv, ClockInv
<1>8. /\ DOMAIN pc' = Threads /\ pc'[c] = At("handover", m, x)
      /\ \A t \in Threads \ {c} : pc'[t] = pc[t]
  BY <1>3, <1>4, <1>5
<1>9. pc'[c].at = "handover" /\ pc'[c].m = m /\ pc'[c].arg = x
  BY <1>8 DEF At
<1>10. MutexType'
  <2>1. "handover" \in Points
    BY DEF Points, Inside
  <2>2. PcType(pc'[c])
    BY <1>1, <1>3, <1>8, <2>1, PointTypes
  <2> QED BY <1>1, <1>4, <1>8, <2>2 DEF MInv, MutexType
<1>11. PcInv'
  BY <1>2, <1>4, <1>8, <1>9 DEF MInv, PcInv
<1>12. \A w \in WaitQs : Waiters(k', w) \in SUBSET Waiters(k, w)
  BY <1>3 DEF Waiters
<1>13. WaitInv'
  BY <1>2, <1>4, <1>8, <1>12 DEF MInv, WaitInv
<1>14. \A n \in Mutexes, t \in Threads :
         /\ ~Releasing(t, n)' /\ ~HandingOver(t, n)
         /\ Releasing(t, n) <=> t = c /\ n = m
         /\ HandingOver(t, n)' <=> t = c /\ n = m
  BY <1>b, <1>1, <1>4, <1>8, <1>9 DEF Releasing, HandingOver, Inside
<1>15. OwnerInv'
  <2>1. \A n \in Mutexes : ~Granted(c, n) /\ ~Granted(c, n)'
    BY <1>1, <1>9 DEF Granted
  <2> QED BY <1>1, <1>2, <1>4, <1>8, <1>14, <2>1, OwnerSame
<1>16. ReleaseInv'
  <2>1. x # NoThread => /\ x # c /\ x \in Threads
                        /\ pc[x].at = "wait" /\ pc[x].m = m /\ k.rv[x] = "EAGAIN"
    BY <1>1, <1>3, <1>4, <1>5 DEF MInv, WaitInv
  <2>2. x # NoThread => /\ pc'[x].at = "wait" /\ pc'[x].m = m /\ k'.rv[x] = "EAGAIN"
                        /\ x \notin Pending(k')
    BY <1>2, <1>3, <1>8, <2>1
  <2> QED BY <1>1, <1>9, <1>14, <2>2 DEF ReleaseInv
<1>17. FreeInv'
  <2>1. \A n \in Mutexes : n = m \/ lock_count[n] > 0
                           \/ \A u \in Waiters(k, n) : k.to[u] = "EXPIRED"
    BY <1>14 DEF MInv, FreeInv
  <2>2. ASSUME NEW n \in Mutexes
        PROVE  \/ lock_count'[n] > 0
               \/ \E t \in Threads : \/ Releasing(t, n)'
                                     \/ HandingOver(t, n)' /\ pc'[t].arg # NoThread
               \/ \A u \in Waiters(k', n) : k'.to[u] = "EXPIRED"
    <3>1. CASE n = m /\ x # NoThread
      BY <1>4, <1>9, <1>14, <3>1
    <3>2. CASE x = NoThread
      BY <1>1, <1>3, <2>1, <3>2 DEF Waiters
    <3>3. CASE n # m /\ x # NoThread
      <4>1. \A u \in Waiters(k', n) : u \in Waiters(k, n) /\ u # x /\ u \in Threads
        BY <1>3, <1>4, <1>5, <3>3 DEF WaitsExact, Pending
      <4> QED BY <1>1, <1>3, <2>1, <3>3, <4>1
    <3> QED BY <3>1, <3>2, <3>3
  <2> QED BY <2>2 DEF FreeInv
<1> QED BY <1>6, <1>7, <1>10, <1>11, <1>13, <1>15, <1>16, <1>17 DEF MInv

\* k_mutex_lock() lends its priority to the owner: kx is the record after that
LEMMA BoostEffect ==
    ASSUME MInv, lock_wait, NEW c, c = cur, NEW m, m = pc[c].m
    PROVE  /\ InThread /\ pc[c].at = "lock" /\ m \in Mutexes
           /\ c \in Threads /\ owner[m] \in Apps /\ owner[m] # c /\ lock_count[m] > 0
           /\ owner' = owner /\ lock_count' = lock_count /\ orig_prio' = orig_prio
           /\ held' = held /\ clk' = clk /\ isr' = isr /\ slice' = slice
           /\ pc' = [pc EXCEPT ![c] = [pc[c] EXCEPT !.at = "wait"]]
           /\ \E kx :
                /\ k' = PendedForever(kx, m) \/ k' = PendedTimed(kx, m)
                /\ Live(kx) /\ kx.current = c /\ kx.locked = k.locked
                /\ kx.state = k.state /\ kx.to = k.to /\ kx.wq = k.wq
                /\ kx.rv = k.rv /\ kx.handling = k.handling
                /\ \A t \in Threads \ {owner[m]} : kx.prio[t] = k.prio[t]
                /\ kx.prio[owner[m]] <= k.prio[owner[m]]
                /\ \/ kx.prio[owner[m]] <= Ceiling
                   \/ kx.prio[owner[m]] <= k.prio[c]
<1>a. PICK o : o = owner[m]
  OBVIOUS
<1>b. PICK np : np = new_prio_for_inheritance(k.prio[c], k.prio[o])
  OBVIOUS
<1>c. PICK kx : kx = IF is_prio_higher(np, k.prio[o])
                     THEN adjust_owner_prio(k, o, np) ELSE k
  OBVIOUS
<1>1. /\ InThread /\ pc[c].at = "lock"
      /\ lock_count[m] # 0 /\ o # c
      /\ owner' = owner /\ lock_count' = lock_count /\ orig_prio' = orig_prio
      /\ held' = held /\ clk' = clk /\ isr' = isr /\ slice' = slice
      /\ pc' = [pc EXCEPT ![c] = [pc[c] EXCEPT !.at = "wait"]]
      /\ k' = swap(pend_current_thread(kx, m, pc[c].arg = "TIMED"))
  BY <1>a, <1>b, <1>c DEF lock_wait, Running, Conflict, Call, Goto
<1>2. /\ c \in Threads /\ Live(k) /\ k \in KernelType /\ c = k.current
  BY <1>1, CurFacts DEF cur
<1>3. m \in Mutexes
  BY <1>1, <1>2 DEF MInv, MutexType, PcType
<1>4. lock_count[m] > 0 /\ o \in Apps /\ o \in Threads
  <2>1. lock_count[m] \in Nat
    BY <1>3, MutexFacts
  <2>2. lock_count[m] > 0
    BY <1>1, <2>1
  <2> QED BY <1>a, <1>3, <2>2 DEF MInv, OwnerInv, Apps
<1>5. k' = PendedForever(kx, m) \/ k' = PendedTimed(kx, m)
  <2>1. CASE pc[c].arg = "TIMED"
    BY <1>1, <2>1 DEF PendedTimed, pend_current_thread, pend_thread, Linked
  <2>2. CASE pc[c].arg # "TIMED"
    BY <1>1, <2>2 DEF PendedForever, pend_current_thread, pend_thread, Linked
  <2> QED BY <2>1, <2>2
<1>6. /\ k.prio[c] \in Prios /\ k.prio[o] \in Prios
  BY <1>2, <1>4 DEF KernelType
<1>7. /\ np \in Prios /\ np >= Ceiling
      /\ np = Ceiling \/ (np <= k.prio[c] /\ np <= k.prio[o])
  BY <1>b, <1>6, InheritIs
<1>8. /\ Live(kx) /\ kx.current = c /\ kx.locked = k.locked
      /\ kx.state = k.state /\ kx.to = k.to /\ kx.wq = k.wq
      /\ kx.rv = k.rv /\ kx.handling = k.handling
      /\ \A t \in Threads \ {o} : kx.prio[t] = k.prio[t]
      /\ kx.prio[o] <= k.prio[o]
      /\ kx.prio[o] <= Ceiling \/ kx.prio[o] <= k.prio[c]
  <2>0. Ceiling \in Int /\ np \in Int /\ k.prio[c] \in Int /\ k.prio[o] \in Int
    BY <1>6, <1>7, MutexAssumption DEF Prios
  <2>1. CASE is_prio_higher(np, k.prio[o])
    <3>1. kx = adjust_owner_prio(k, o, np)
      BY <1>c, <2>1
    <3>2. /\ Live(kx)
          /\ kx.current = k.current /\ kx.locked = k.locked
          /\ kx.state = k.state /\ kx.to = k.to /\ kx.wq = k.wq
          /\ kx.rv = k.rv /\ kx.handling = k.handling
          /\ kx.prio[o] = np
          /\ \A t \in Threads \ {o} : kx.prio[t] = k.prio[t]
      BY <1>2, <1>4, <1>7, <3>1, AdjustEffect
    <3>3. np <= k.prio[o]
      BY <2>0, <2>1 DEF is_prio_higher
    <3>4. np <= Ceiling \/ np <= k.prio[c]
      BY <1>7, <2>0
    <3> QED BY <1>2, <3>2, <3>3, <3>4
  <2>2. CASE ~is_prio_higher(np, k.prio[o])
    <3>1. kx = k
      BY <1>c, <2>2
    <3>2. k.prio[o] <= np
      BY <2>0, <2>2 DEF is_prio_higher
    <3>3. k.prio[o] <= Ceiling \/ k.prio[o] <= k.prio[c]
      BY <1>7, <2>0, <3>2
    <3> QED BY <1>2, <2>0, <3>1, <3>3
  <2> QED BY <2>1, <2>2
<1> QED BY <1>a, <1>1, <1>2, <1>3, <1>4, <1>5, <1>8

\* ... and waits for the mutex
LEMMA LockWaitEffect ==
    ASSUME MInv, lock_wait, NEW c, c = cur, NEW m, m = pc[c].m
    PROVE  /\ InThread /\ pc[c].at = "lock" /\ m \in Mutexes
           /\ c \in Threads /\ owner[m] \in Apps /\ owner[m] # c /\ lock_count[m] > 0
           /\ owner' = owner /\ lock_count' = lock_count /\ orig_prio' = orig_prio
           /\ held' = held /\ clk' = clk /\ isr' = isr /\ slice' = slice
           /\ pc' = [pc EXCEPT ![c] = [pc[c] EXCEPT !.at = "wait"]]
           /\ IInv' /\ WaitsExact(k')
           /\ k'.locked = k.locked /\ k'.handling = k.handling
           /\ Pending(k') = Pending(k) \cup {c}
           /\ Waiters(k', m) = Waiters(k, m) \cup {c}
           /\ \A v \in WaitQs \ {m} : k'.wq[v] = k.wq[v]
           /\ k'.rv[c] = "EAGAIN" /\ k'.to[c] # "EXPIRED"
           /\ \A u \in Threads \ {c} : k'.to[u] = k.to[u] /\ k'.rv[u] = k.rv[u]
           /\ \A t \in Threads \ {owner[m]} : k'.prio[t] = k.prio[t]
           /\ k'.prio[owner[m]] <= k.prio[owner[m]]
           /\ \/ k'.prio[owner[m]] <= Ceiling
              \/ k'.prio[owner[m]] <= k.prio[c]
           /\ \E kx \in KernelType :
                 /\ kx.wq[m] = k.wq[m] /\ kx.prio = k'.prio
                 /\ k'.wq[m] = InsertAt(k.wq[m], pend_position(kx, c, m), c)
<1>1. /\ InThread /\ pc[c].at = "lock" /\ m \in Mutexes
      /\ c \in Threads /\ owner[m] \in Apps /\ owner[m] # c /\ lock_count[m] > 0
      /\ owner' = owner /\ lock_count' = lock_count /\ orig_prio' = orig_prio
      /\ held' = held /\ clk' = clk /\ isr' = isr /\ slice' = slice
      /\ pc' = [pc EXCEPT ![c] = [pc[c] EXCEPT !.at = "wait"]]
  BY BoostEffect
<1>2. PICK kx :
        /\ k' = PendedForever(kx, m) \/ k' = PendedTimed(kx, m)
        /\ Live(kx) /\ kx.current = c /\ kx.locked = k.locked
        /\ kx.state = k.state /\ kx.to = k.to /\ kx.wq = k.wq
        /\ kx.rv = k.rv /\ kx.handling = k.handling
        /\ \A t \in Threads \ {owner[m]} : kx.prio[t] = k.prio[t]
        /\ kx.prio[owner[m]] <= k.prio[owner[m]]
        /\ \/ kx.prio[owner[m]] <= Ceiling
           \/ kx.prio[owner[m]] <= k.prio[c]
  BY BoostEffect
<1>3. WaitsExact(k) /\ c # Idle /\ slice \in SliceSettings
  BY <1>1, CurFacts, InThreadFacts DEF MInv
<1>4. /\ WaitsExact(kx) /\ Pending(kx) = Pending(k)
      /\ \A w \in WaitQs : Waiters(kx, w) = Waiters(k, w)
  BY <1>2, <1>3, WaitsFrame
<1>5. Good(kx) /\ is_thread_ready(kx, c) /\ c = kx.current /\ m \in WaitQs
      /\ kx \in KernelType
  BY <1>1, <1>2, MutexAssumption DEF Live, Good, Holds
<1>6. Live(k') /\ Settled(k') /\ WaitsExact(k')
  BY <1>2, <1>3, <1>4, <1>5, PendSettled
<1>7. /\ Pending(k') = Pending(kx) \cup {c}
      /\ Waiters(k', m) = Waiters(kx, m) \cup {c}
  BY <1>2, <1>3, <1>4, <1>5, PendSettled
<1>8. /\ k'.wq[m] = InsertAt(kx.wq[m], pend_position(kx, c, m), c)
      /\ \A v \in WaitQs \ {m} : k'.wq[v] = kx.wq[v]
  BY <1>2, <1>3, <1>4, <1>5, PendSettled
<1>9. /\ k'.prio = kx.prio /\ k'.handling = kx.handling
      /\ k'.locked = kx.locked /\ k'.rv[c] = "EAGAIN"
  BY <1>2, <1>3, <1>4, <1>5, PendSettled
<1>10. \A u \in Threads \ {c} : k'.to[u] = kx.to[u] /\ k'.rv[u] = kx.rv[u]
  BY <1>2, <1>3, <1>4, <1>5, PendSettled
<1>11. k'.to[c] # "EXPIRED"
  <2>1. /\ k' = PendedForever(kx, m) => k'.to[c] = "INACTIVE"
        /\ k' = PendedTimed(kx, m) => k'.to[c] = "ACTIVE"
    BY <1>2, <1>3, <1>4, <1>5, PendSettled
  <2> QED BY <1>2, <2>1
<1>12. IInv'
  BY <1>1, <1>3, <1>6, CallStays DEF MInv
<1>13. /\ k'.locked = k.locked /\ k'.handling = k.handling
       /\ Pending(k') = Pending(k) \cup {c}
       /\ Waiters(k', m) = Waiters(k, m) \cup {c}
       /\ \A v \in WaitQs \ {m} : k'.wq[v] = k.wq[v]
       /\ k'.rv[c] = "EAGAIN"
       /\ \A u \in Threads \ {c} : k'.to[u] = k.to[u] /\ k'.rv[u] = k.rv[u]
  BY <1>2, <1>4, <1>5, <1>7, <1>8, <1>9, <1>10
<1>14. /\ \A t \in Threads \ {owner[m]} : k'.prio[t] = k.prio[t]
       /\ k'.prio[owner[m]] <= k.prio[owner[m]]
       /\ \/ k'.prio[owner[m]] <= Ceiling
          \/ k'.prio[owner[m]] <= k.prio[c]
  BY <1>2, <1>9
<1>15. /\ kx.wq[m] = k.wq[m] /\ kx.prio = k'.prio
       /\ k'.wq[m] = InsertAt(k.wq[m], pend_position(kx, c, m), c)
  BY <1>2, <1>8, <1>9
<1> QED BY <1>1, <1>5, <1>6, <1>11, <1>12, <1>13, <1>14, <1>15

\* it keeps the invariant
LEMMA LockWaitStays ==
    ASSUME MInv, lock_wait
    PROVE  MInv'
<1>a. PICK c : c = cur
  OBVIOUS
<1>b. PICK m : m = pc[c].m
  OBVIOUS
<1>1. /\ InThread /\ pc[c].at = "lock" /\ m \in Mutexes /\ c \in Threads
      /\ lock_count[m] > 0
      /\ owner' = owner /\ lock_count' = lock_count /\ orig_prio' = orig_prio
      /\ held' = held /\ clk' = clk /\ isr' = isr /\ slice' = slice
      /\ pc' = [pc EXCEPT ![c] = [pc[c] EXCEPT !.at = "wait"]]
  BY <1>a, <1>b, LockWaitEffect
<1>2. /\ IInv' /\ WaitsExact(k')
      /\ k'.locked = k.locked /\ k'.handling = k.handling
      /\ Pending(k') = Pending(k) \cup {c}
  BY <1>a, <1>b, LockWaitEffect
<1>3. /\ Waiters(k', m) = Waiters(k, m) \cup {c}
      /\ \A v \in WaitQs \ {m} : k'.wq[v] = k.wq[v]
      /\ k'.rv[c] = "EAGAIN" /\ k'.to[c] # "EXPIRED"
      /\ \A u \in Threads \ {c} : k'.to[u] = k.to[u] /\ k'.rv[u] = k.rv[u]
  BY <1>a, <1>b, LockWaitEffect
<1>4. /\ c # Idle /\ k.locked[c] = 1
      /\ \A w \in WaitQs : c \notin Waiters(k, w)
      /\ \A t \in Threads \ {c} : pc[t].at \notin Inside
  BY <1>a, <1>1, CurFacts
<1>5. Mutexes \in SUBSET WaitQs /\ DOMAIN pc = Threads
  BY MutexFacts
<1>6. /\ DOMAIN pc' = Threads /\ pc'[c] = [pc[c] EXCEPT !.at = "wait"]
      /\ \A t \in Threads \ {c} : pc'[t] = pc[t]
  BY <1>1, <1>5
<1>7. pc'[c] = At("wait", m, pc[c].arg)
  <2>1. pc[c] = At("lock", m, pc[c].arg)
    BY <1>b, <1>1 DEF MInv, MutexType, PcType
  <2> QED BY <1>6, <2>1 DEF At
<1>8. pc'[c].at = "wait" /\ pc'[c].m = m
  BY <1>7 DEF At
<1>9. ClockInv'
  BY <1>1, <1>2, <1>3 DEF MInv, ClockInv
<1>10. MutexType'
  <2>1. "wait" \in Points
    BY DEF Points
  <2>2. PcType(pc'[c])
    BY <1>1, <1>7, <2>1, PointTypes
  <2> QED BY <1>1, <1>4, <1>6, <2>2 DEF MInv, MutexType
<1>11. PcInv'
  BY <1>2, <1>4, <1>6, <1>8 DEF MInv, PcInv, Inside
<1>12. \A v \in WaitQs \ {m} : Waiters(k', v) = Waiters(k, v)
  BY <1>3 DEF Waiters
<1>13. WaitInv'
  <2>1. ASSUME NEW w \in WaitQs, NEW t \in Threads, t \in Waiters(k', w)
        PROVE  /\ w \in Mutexes /\ pc'[t].at = "wait"
               /\ pc'[t].m = w /\ k'.rv[t] = "EAGAIN"
    <3>1. CASE t = c
      <4>1. w = m
        BY <1>4, <1>12, <2>1, <3>1
      <4> QED BY <1>1, <1>3, <1>8, <3>1, <4>1
    <3>2. CASE t # c
      <4>1. t \in Waiters(k, w)
        BY <1>3, <1>12, <2>1, <3>2
      <4> QED BY <1>3, <1>6, <3>2, <4>1 DEF MInv, WaitInv
    <3> QED BY <3>1, <3>2
  <2> QED BY <1>2, <2>1 DEF WaitInv
<1>14. \A n \in Mutexes, t \in Threads :
         /\ ~Releasing(t, n)' /\ ~HandingOver(t, n)'
         /\ ~Releasing(t, n) /\ ~HandingOver(t, n)
  BY <1>1, <1>4, <1>6, <1>8 DEF Releasing, HandingOver, Inside
<1>15. OwnerInv'
  <2>1. \A n \in Mutexes : ~Granted(c, n) /\ ~Granted(c, n)'
    BY <1>1, <1>3 DEF Granted
  <2> QED BY <1>1, <1>3, <1>6, <1>14, <2>1, OwnerSame
<1>16. ReleaseInv'
  BY <1>14 DEF ReleaseInv
<1>17. FreeInv'
  <2>1. \A n \in Mutexes : lock_count[n] > 0
                           \/ \A u \in Waiters(k, n) : k.to[u] = "EXPIRED"
    BY <1>14 DEF MInv, FreeInv
  <2>2. ASSUME NEW n \in Mutexes, n # m
        PROVE  Waiters(k', n) = Waiters(k, n) /\ \A u \in Waiters(k, n) : u \in Threads \ {c}
    <3>1. \A u \in Waiters(k, n) : u \in Threads
      BY <1>5 DEF MInv, WaitInv, WaitsExact, Pending
    <3> QED BY <1>4, <1>5, <1>12, <2>2, <3>1
  <2> QED BY <1>1, <1>3, <2>1, <2>2 DEF FreeInv
<1> QED BY <1>2, <1>9, <1>10, <1>11, <1>13, <1>15, <1>16, <1>17 DEF MInv

(***************************************************************************)
(* The other calls and the interrupts.  None of them locks the scheduler,  *)
(* and an interrupt neither switches away from a thread that has locked it *)
(* nor touches the value that such a thread's _Swap() returned.            *)
(***************************************************************************)
LEMMA CallsLocked ==
    ASSUME IInv, ThreadCalls
    PROVE  k'.locked = k.locked
<1>0. InThread
  BY DEF ThreadCalls, Running
<1>1. k \in KernelType /\ k.current \in Threads \ {Idle} /\ Good(k)
      /\ is_thread_ready(k, k.current)
  BY <1>0, InThreadFacts
<1>2. CASE k_sleep
  <2> DEFINE c  == k.current
             k1 == remove_thread_from_ready_q(k, c)
             k2 == [k1 EXCEPT !.to[c] = "ACTIVE"]
  <2>1. k' = swap(k2)
    BY <1>2 DEF k_sleep, add_thread_timeout, Call
  <2>2. SameThreads(k, k1) /\ k1 \in KernelType
    BY <1>1, OffRemoved DEF Off, Holds
  <2> HIDE DEF k1
  <2>3. k2.locked = k1.locked
    BY <2>2 DEF KernelType
  <2>4. k2 \in KernelType
    BY <1>1, <2>2 DEF KernelType, AllTimeouts, TimeoutStates
  <2> HIDE DEF k2
  <2> QED BY <2>1, <2>2, <2>3, <2>4, SwapSwitched DEF Switched, SameThreads
<1>3. ASSUME NEW t \in Apps, k_thread_start(t) PROVE k'.locked = k.locked
  <2> DEFINE k1 == [k EXCEPT !.state[t] = @ \ {"PRESTART"}]
             k2 == add_thread_to_ready_q(k1, t)
  <2>1. k' = start(k, t) /\ t \in Threads
    BY <1>3 DEF k_thread_start, Call, Apps
  <2>2. k1 \in KernelType /\ k1.locked = k.locked
    BY <1>1, <2>1 DEF KernelType
  <2>3. k' = k \/ k' = k1 \/ k' = reschedule_threads(k2)
    BY <2>1 DEF start
  <2> HIDE DEF k1
  <2>4. k2 \in KernelType /\ SameThreads(k1, k2)
    BY <2>1, <2>2, AddType, QueueOpsSame
  <2> HIDE DEF k2
  <2> QED BY <2>2, <2>3, <2>4, RescheduleSwitched DEF Switched, SameThreads
<1>4. ASSUME NEW t \in Apps, NEW p \in NewPrios, k_thread_priority_set(t, p)
      PROVE  k'.locked = k.locked
  <2> DEFINE k1 == [k EXCEPT !.prio[t] = p]
             k2 == thread_priority_set(k, t, p)
  <2>1. t \in Threads \ {Idle} /\ k' = reschedule_threads(k2)
    BY <1>4 DEF k_thread_priority_set, Call, Apps
  <2>2. p \in Prios
    BY SchedAssumption, PriosAssumption DEF AppPrios, Prios
  <2>3. Good(k2) /\ SameThreads(k1, k2)
    BY <1>1, <2>1, <2>2, GoodPrioSet
  <2>4. k1.locked = k.locked
    BY <1>1 DEF KernelType
  <2> HIDE DEF k1, k2
  <2> QED BY <2>1, <2>3, <2>4, RescheduleSwitched DEF Switched, SameThreads, Good, Holds
<1> QED BY <1>2, <1>3, <1>4 DEF ThreadCalls

\* the interrupts
SparesLocked(kk, k2) ==
    /\ k2.locked = kk.locked
    /\ kk.locked[kk.current] # 0 => k2.current = kk.current /\ k2.rv = kk.rv

\* none of their steps takes anything from a thread with the scheduler locked
LEMMA InterruptSpares ==
    ASSUME IInv, Clock \/ Device
    PROVE  SparesLocked(k, k')
<1>0. k \in KernelType
  BY DEF IInv, TypeOK
<1>1. ASSUME NEW k1 \in KernelType, k1.current = k.current, k1.locked = k.locked,
             k1.rv = k.rv, IsrExit(k1)
      PROVE  SparesLocked(k, k')
  <2>1. k' = k1 \/ k' = isr_exit_swap(k1)
    BY <1>1 DEF IsrExit
  <2>2. isr_exit_swap(k1).locked = k1.locked
    BY <1>1, IsrExitSwitched DEF Switched
  <2>3. k1.locked[k1.current] # 0 => isr_exit_swap(k1) = k1
    BY DEF isr_exit_swap, is_preempt
  <2> QED BY <1>1, <2>1, <2>2, <2>3 DEF SparesLocked
<1>2. CASE DevEnter \/ DevExit \/ ClockExpired
  BY <1>0, <1>1, <1>2 DEF DevEnter, DevExit, ClockExpired, SparesLocked
<1>3. ASSUME NEW t \in Apps, isr_wakeup(t) PROVE SparesLocked(k, k')
  <2> DEFINE k1 == abort_thread_timeout(k, t)
  <2>1. t \in Threads /\ k' = ready_thread(k1, t)
    BY <1>3 DEF isr_wakeup, Apps, wakeup
  <2>2. k1 \in KernelType /\ k1.current = k.current /\ k1.locked = k.locked /\ k1.rv = k.rv
    BY <1>0, <2>1 DEF KernelType, abort_thread_timeout, AllTimeouts, TimeoutStates
  <2> HIDE DEF k1
  <2> QED BY <2>1, <2>2, ReadyThreadEffect DEF SparesLocked
<1>4. CASE ClockEnter \/ \E t \in AllTimeouts : ClockExpire(t)
  BY <1>0, <1>4 DEF ClockEnter, ClockExpire, SparesLocked, KernelType
<1>5. ASSUME NEW t \in Threads, ClockHandle(t) PROVE SparesLocked(k, k')
  <2> DEFINE k1 == [k EXCEPT !.to[t] = "INACTIVE"]
             k2 == IF "PENDING" \in k1.state[t] THEN unpend_thread(k1, t) ELSE k1
  <2>1. k' = ready_thread(k2, t)
    BY <1>5 DEF ClockHandle, handle_one_expired_timeout
  <2>2. k1 \in KernelType /\ k1.current = k.current /\ k1.locked = k.locked /\ k1.rv = k.rv
    BY <1>0 DEF KernelType, AllTimeouts, TimeoutStates
  <2> HIDE DEF k1
  <2>3. k2 \in KernelType /\ k2.current = k.current /\ k2.locked = k.locked /\ k2.rv = k.rv
    BY <2>2, UnpendEffect
  <2> HIDE DEF k2
  <2> QED BY <2>1, <2>3, ReadyThreadEffect DEF SparesLocked
<1>6. CASE ClockExit
  <2> DEFINE k1 == [k EXCEPT !.handling = FALSE]
             k2 == handle_time_slicing(k1, slice[1], slice[2])
  <2>1. IsrExit(k2)
    BY <1>6 DEF ClockExit
  <2>2. /\ Live(k1) /\ k1 \in KernelType
        /\ k1.current = k.current /\ k1.locked = k.locked /\ k1.rv = k.rv
    BY <1>0, HandlingSet DEF IInv, KernelType
  <2> HIDE DEF k1
  <2>3. Live(k2)
    <3>1. slice[1] \in Nat
      BY SchedAssumption DEF IInv, TypeOK
    <3> QED BY <2>2, <3>1, SlicingLive
  <2>4. k2.current = k1.current
    <3> DEFINE k3 == [k1 EXCEPT !.elapsed = 0]
    <3>1. k3 \in KernelType /\ k3.current = k1.current
      BY <2>2 DEF KernelType
    <3>2. move_thread_to_end_of_prio_q(k3, k1.current).current = k3.current
      <4>1. k1.current \in Threads
        BY <2>2 DEF KernelType
      <4> HIDE DEF k3
      <4> QED BY <3>1, <4>1, QueueOpsSame DEF SameThreads
    <3>3. [k1 EXCEPT !.elapsed = @ + 1].current = k1.current
      BY <2>2 DEF KernelType
    <3> QED BY <3>1, <3>2, <3>3 DEF handle_time_slicing
  <2>5. k2.locked = k1.locked /\ k2.rv = k1.rv
    BY <2>2, SlicingEffect DEF Switched
  <2> HIDE DEF k2
  <2>6. k2 \in KernelType
    BY <2>3 DEF Live, Good, Holds
  <2> QED BY <1>1, <2>1, <2>2, <2>4, <2>5, <2>6
<1> QED BY <1>2, <1>3, <1>4, <1>5, <1>6 DEF Clock, Device

(***************************************************************************)
(* The kinds of steps that are not the mutexes' own: one that concerns no  *)
(* waiter, a waiter's timeout expiring, and one being handled.             *)
(***************************************************************************)
Quiet ==
    /\ Undisturbed(k, k')
    /\ k'.locked = k.locked
    /\ pc[cur].at # "idle" => k'.current = k.current /\ k'.rv = k.rv

OtherStep ==
    /\ UNCHANGED mtxVars
    /\ \/ Quiet
       \/ \E t \in Threads : Expired(k, k', t) \/ Handled(k, k', t)

\* the calls of a thread that is in no mutex call
LEMMA CallsQuiet ==
    ASSUME MInv, ThreadCalls, UNCHANGED mtxVars
    PROVE  IInv' /\ ClockInv' /\ OtherStep
<1>0. IInv /\ ClockInv /\ pc[cur].at = "idle" /\ k'.locked = k.locked
  BY CallsLocked DEF MInv, ThreadCalls, Running
<1>1. ASSUME Calm(k, k'), clk' = clk
      PROVE  ClockInv' /\ OtherStep
  BY <1>0, <1>1 DEF ClockInv, Calm, Undisturbed, Quiet, OtherStep
<1>2. clk' = clk
  BY DEF ThreadCalls, k_sleep, k_thread_start, k_thread_priority_set, Call
<1>3. CASE k_sleep
  BY <1>0, <1>1, <1>2, <1>3, SleepStays, SleepCalm
<1>4. ASSUME NEW t \in Apps, k_thread_start(t) PROVE IInv' /\ ClockInv' /\ OtherStep
  BY <1>0, <1>1, <1>2, <1>4, ThreadStartStays, StartCalm
<1>5. ASSUME NEW t \in Apps, NEW p \in NewPrios, k_thread_priority_set(t, p)
      PROVE  IInv' /\ ClockInv' /\ OtherStep
  BY <1>0, <1>1, <1>2, <1>5, PrioritySetStays, PrioritySetCalm
<1> QED BY <1>3, <1>4, <1>5 DEF ThreadCalls

\* the running thread, in an interrupt too
LEMMA CurrentFacts ==
    ASSUME MInv
    PROVE  /\ k.current \in Threads /\ k.current \notin Pending(k)
           /\ k.locked[k.current] = IF pc[k.current].at = "idle" THEN 0 ELSE 1
BY DEF MInv, IInv, TypeOK, Live, KernelType, is_thread_ready, PcInv, Pending

\* interrupts
LEMMA InterruptsQuiet ==
    ASSUME MInv, Clock \/ Device, UNCHANGED mtxVars
    PROVE  IInv' /\ ClockInv' /\ OtherStep
<1>0. IInv /\ ClockInv /\ WaitsExact(k)
  BY DEF MInv, WaitInv
<1>1. Passed(k, k') => Quiet
  <2>1. SparesLocked(k, k')
    BY <1>0, InterruptSpares
  <2> QED BY <2>1, CurrentFacts DEF Passed, Quiet, SparesLocked, cur
<1>2. CASE Clock
  BY <1>0, <1>1, <1>2, ClockStays, ClockEffect DEF OtherStep
<1>3. CASE Device
  BY <1>0, <1>1, <1>3, DeviceStays, DevicePassed DEF OtherStep
<1> QED BY <1>2, <1>3

\* A step after which threads stand where they stood, of those that waited
\* some may have stopped, and the others' timeouts can only have expired.
LEMMA StandStill ==
    ASSUME MInv, IInv', ClockInv', UNCHANGED mtxVars, WaitsExact(k'),
           k'.locked = k.locked,
           pc[cur].at # "idle" => k'.current = k.current,
           \A t \in Threads : pc[t].at # "idle" => k'.rv[t] = k.rv[t],
           Pending(k') \in SUBSET Pending(k),
           \A w \in WaitQs : Waiters(k', w) \in SUBSET Waiters(k, w),
           \A t \in Pending(k') : k'.to[t] = k.to[t] \/ k'.to[t] = "EXPIRED"
    PROVE  MInv'
<1>1. /\ owner' = owner /\ lock_count' = lock_count /\ orig_prio' = orig_prio
      /\ pc' = pc /\ held' = held
  BY DEF mtxVars
<1>2. MutexType'
  BY <1>1 DEF MInv, MutexType
<1>3. PcInv'
  <2>1. \A t \in Threads : pc[t].at \in Inside => t = k.current /\ pc[t].at # "idle"
    BY DEF MInv, PcInv, Inside
  <2>2. \A t \in Threads : pc[t].at \in Inside => t = k'.current
    BY <2>1 DEF cur
  <2> QED BY <1>1, <2>2 DEF MInv, PcInv
<1>4. WaitInv'
  BY <1>1 DEF MInv, WaitInv
<1>5. \A n \in Mutexes, t \in Threads :
        /\ Granted(t, n)' <=> Granted(t, n)
        /\ Releasing(t, n)' <=> Releasing(t, n)
        /\ HandingOver(t, n)' <=> HandingOver(t, n)
  BY <1>1 DEF Granted, Releasing, HandingOver
<1>6. OwnerInv'
  BY <1>1, <1>5 DEF MInv, OwnerInv
<1>7. ReleaseInv'
  <2>1. ASSUME NEW n \in Mutexes, NEW t \in Threads, HandingOver(t, n), pc[t].arg # NoThread
        PROVE  /\ pc[pc[t].arg].at = "wait" /\ pc[pc[t].arg].m = n
               /\ pc[t].arg \notin Pending(k') /\ k'.rv[pc[t].arg] = "EAGAIN"
    <3>1. /\ pc[pc[t].arg].at = "wait" /\ pc[pc[t].arg].m = n
          /\ pc[t].arg \notin Pending(k) /\ k.rv[pc[t].arg] = "EAGAIN"
      BY <2>1 DEF MInv, ReleaseInv
    <3>2. pc[t].arg \in Threads
      BY <2>1 DEF MInv, MutexType, PcType, HandingOver, Apps
    <3> QED BY <3>1, <3>2
  <2>2. \A n \in Mutexes, t \in Threads :
          Releasing(t, n) \/ HandingOver(t, n) => owner[n] = t /\ lock_count[n] = 0
    BY DEF MInv, ReleaseInv
  <2> QED BY <1>1, <1>5, <2>1, <2>2 DEF ReleaseInv
<1>8. FreeInv'
  <2>1. Mutexes \in SUBSET WaitQs
    BY MutexFacts
  <2>2. ASSUME NEW n \in Mutexes, \A u \in Waiters(k, n) : k.to[u] = "EXPIRED"
        PROVE  \A u \in Waiters(k', n) : k'.to[u] = "EXPIRED"
    <3>1. \A u \in Waiters(k', n) : u \in Waiters(k, n) /\ u \in Pending(k')
      BY <2>1 DEF WaitsExact
    <3> QED BY <2>2, <3>1
  <2>3. \A n \in Mutexes :
          \/ lock_count[n] > 0
          \/ \E t \in Threads : \/ Releasing(t, n)
                                \/ HandingOver(t, n) /\ pc[t].arg # NoThread
          \/ \A u \in Waiters(k, n) : k.to[u] = "EXPIRED"
    BY DEF MInv, FreeInv
  <2> QED BY <1>1, <1>5, <2>2, <2>3 DEF FreeInv
<1> QED BY <1>2, <1>3, <1>4, <1>6, <1>7, <1>8 DEF MInv

\* none of these steps breaks the invariant
LEMMA OtherStays ==
    ASSUME MInv, IInv', ClockInv', OtherStep
    PROVE  MInv'
<1>0. WaitsExact(k) /\ UNCHANGED mtxVars
  BY DEF MInv, WaitInv, OtherStep
<1>1. CASE Quiet
  <2>1. Undisturbed(k, k') /\ k'.locked = k.locked
        /\ (pc[cur].at # "idle" => k'.current = k.current /\ k'.rv = k.rv)
    BY <1>1 DEF Quiet
  <2>2. /\ k'.wq = k.wq
        /\ \A t \in Threads :
            /\ "PENDING" \in k'.state[t] <=> "PENDING" \in k.state[t]
            /\ \/ k'.to[t] = k.to[t]
               \/ "PENDING" \notin k.state[t]
               \/ t = k.current
            /\ k'.rv[t] = k.rv[t] \/ t = k.current
    BY <2>1 DEF Undisturbed
  <2>3. /\ WaitsExact(k') /\ Pending(k') = Pending(k)
        /\ \A w \in WaitQs : Waiters(k', w) = Waiters(k, w)
    BY <1>0, <2>2, WaitsFrame
  <2>4. \A t \in Threads : pc[t].at # "idle" => k'.rv[t] = k.rv[t]
    BY <2>1, <2>2 DEF cur
  <2>5. \A t \in Pending(k') : k'.to[t] = k.to[t]
    BY <2>2, <2>3, CurrentFacts DEF Pending
  <2> QED BY <1>0, <2>1, <2>3, <2>4, <2>5, StandStill
<1>2. ASSUME NEW x \in Threads, Expired(k, k', x) PROVE MInv'
  <2>1. /\ k'.to[x] = "EXPIRED" /\ \A u \in Threads \ {x} : k'.to[u] = k.to[u]
        /\ k'.wq = k.wq /\ k'.state = k.state /\ k'.rv = k.rv
        /\ k'.current = k.current /\ k'.locked = k.locked
    BY <1>2 DEF Expired
  <2>2. /\ WaitsExact(k') /\ Pending(k') = Pending(k)
        /\ \A w \in WaitQs : Waiters(k', w) = Waiters(k, w)
    BY <1>0, <2>1, WaitsFrame
  <2>3. \A t \in Pending(k') : k'.to[t] = k.to[t] \/ k'.to[t] = "EXPIRED"
    BY <2>1 DEF Pending
  <2> QED BY <1>0, <2>1, <2>2, <2>3, StandStill
<1>3. ASSUME NEW x \in Threads, Handled(k, k', x) PROVE MInv'
  <2>1. /\ WaitsExact(k') /\ Pending(k') = Pending(k) \ {x}
        /\ \A w \in WaitQs : Waiters(k', w) = Waiters(k, w) \ {x}
        /\ k'.rv = k.rv /\ k'.current = k.current /\ k'.locked = k.locked
        /\ \A t \in Threads \ {x} : k'.to[t] = k.to[t]
    BY <1>3 DEF Handled
  <2>2. \A t \in Pending(k') : t \in Threads \ {x}
    BY <2>1 DEF Pending
  <2>3. \A t \in Pending(k') : k'.to[t] = k.to[t]
    BY <2>1, <2>2
  <2>4. \A w \in WaitQs : Waiters(k', w) \in SUBSET Waiters(k, w)
    BY <2>1
  <2>5. Pending(k') \in SUBSET Pending(k)
    BY <2>1
  <2> QED BY <1>0, <2>1, <2>3, <2>4, <2>5, StandStill
<1> QED BY <1>1, <1>2, <1>3 DEF OtherStep

(***************************************************************************)
(* The invariant holds throughout.                                         *)
(***************************************************************************)
LEMMA MutexInit == Init => MInv
<1> SUFFICES ASSUME Init PROVE MInv
  OBVIOUS
<1>1. IInv
  BY InitInv DEF Init
<1>2. /\ owner = [m \in Mutexes |-> NoThread] /\ lock_count = [m \in Mutexes |-> 0]
      /\ orig_prio = [m \in Mutexes |-> 0] /\ pc = [t \in Threads |-> Idling]
      /\ held = [t \in Threads |-> [m \in Mutexes |-> 0]]
  BY DEF Init
<1>3. /\ clk = "off" /\ k.wq = [w \in WaitQs |-> <<>>]
      /\ \A t \in Threads : /\ k.to[t] # "EXPIRED" /\ k.locked[t] = 0
                            /\ "PENDING" \notin k.state[t]
  BY DEF Init, SchedInit, AllTimeouts
<1>4. ClockInv
  BY <1>3 DEF ClockInv
<1>5. WaitsExact(k) /\ \A w \in WaitQs : Waiters(k, w) = {}
  <2>1. \A w \in WaitQs : k.wq[w] = <<>>
    BY <1>3
  <2>2. \A w \in WaitQs : Waiters(k, w) = {} /\ IsInjective(k.wq[w])
    BY <2>1 DEF Waiters, ToSet, IsInjective
  <2>3. Pending(k) = {}
    BY <1>3 DEF Pending
  <2> QED BY <2>2, <2>3 DEF WaitsExact
<1>6. \A t \in Threads : pc[t] = Idling /\ pc[t].at = "idle"
  BY <1>2 DEF Idling
<1>7. WaitInv /\ FreeInv
  BY <1>5, MutexAssumption DEF WaitInv, FreeInv
<1>8. PcInv
  BY <1>3, <1>6 DEF PcInv, Inside
<1>9. MutexType
  <2>1. 0 \in Prios
    BY PriosAssumption DEF Prios
  <2> QED BY <1>2, <1>6, <2>1, PointTypes DEF MutexType
<1>10. OwnerInv /\ ReleaseInv
  BY <1>2, <1>6, ThreadsAssumption
     DEF OwnerInv, ReleaseInv, Granted, Releasing, HandingOver
<1> QED BY <1>1, <1>4, <1>7, <1>8, <1>9, <1>10 DEF MInv

\* a step in which nothing changes
LEMMA MutexStutter ==
    ASSUME MInv, UNCHANGED vars
    PROVE  MInv'
<1>1. /\ k' = k /\ isr' = isr /\ clk' = clk /\ slice' = slice /\ UNCHANGED mtxVars
  BY DEF vars, mtxVars
<1>2. IInv' /\ ClockInv'
  BY <1>1 DEF MInv, IInv, TypeOK, ClockInv
<1>3. WaitsExact(k')
  BY <1>1 DEF MInv, WaitInv
<1> QED BY <1>1, <1>2, <1>3, StandStill

\* every step
LEMMA MutexNext == MInv /\ [Next]_vars => MInv'
<1> SUFFICES ASSUME MInv, [Next]_vars PROVE MInv'
  OBVIOUS
<1>1. CASE Progress
  BY <1>1, LockFreeStays, LockBusyStays, LockWaitStays, LockGotStays, TimedOutStays,
     AdjustStays, ReleaseStays, HandoverStays, UnlockStarts DEF Progress
<1>2. ASSUME NEW m \in Mutexes, NEW timeout \in Timeouts, k_mutex_lock(m, timeout)
      PROVE  MInv'
  BY <1>2, LockStarts
<1>3. CASE ThreadCalls /\ UNCHANGED mtxVars
  BY <1>3, CallsQuiet, OtherStays
<1>4. CASE (Clock \/ Device) /\ UNCHANGED mtxVars
  BY <1>4, InterruptsQuiet, OtherStays
<1>5. CASE UNCHANGED vars
  BY <1>5, MutexStutter
<1> QED BY <1>1, <1>2, <1>3, <1>4, <1>5 DEF Next

(***************************************************************************)
(* The inductive invariant of the mutexes.                                 *)
(***************************************************************************)
THEOREM MutexInvariant == Spec => []MInv
BY MutexInit, MutexNext, PTL DEF Spec

(***************************************************************************)
(* A thread that k_mutex_lock() told it has the mutex owns it, with the    *)
(* lock count as its nesting depth, whatever timed out in the middle of a  *)
(* lock, an unlock or a hand-over.                                         *)
(***************************************************************************)
THEOREM MutualExclusion == Spec => []Exclusive
<1>1. MInv => Exclusive
  BY DEF MInv, OwnerInv, Exclusive
<1> QED BY <1>1, MutexInvariant, PTL

(***************************************************************************)
(* A mutex that nobody is handing over is not free while a thread whose    *)
(* timeout has not expired waits for it.                                   *)
(***************************************************************************)
THEOREM NobodyStranded == Spec => []NoStrandedWaiter
<1>1. MInv => NoStrandedWaiter
  <2> SUFFICES ASSUME MInv, NEW m \in Mutexes, lock_count[m] = 0,
                      \A t \in Threads : pc[t].at # "release",
                      \A t \in Threads : pc[t].at # "handover",
                      NEW t \in Threads
               PROVE  ~Waiting(t, m)
    BY DEF NoStrandedWaiter
  <2>1. \A u \in Waiters(k, m) : k.to[u] = "EXPIRED"
    BY DEF MInv, FreeInv, Releasing, HandingOver
  <2> QED BY <2>1 DEF Waiting, Waiters, Contains, ToSet
<1> QED BY <1>1, MutexInvariant, PTL

(***************************************************************************)
(* Priority inheritance.  It "is recommended that a thread lock only a     *)
(* single mutex at a time" (mutexes.rst): a thread in the middle of a call *)
(* for one mutex owns no other.  The results below are about programs that *)
(* keep to it and that leave priorities to the kernel (NewPrios = {}).     *)
(***************************************************************************)
OneAtATime ==
    \A t \in Threads, m \in Mutexes :
        owner[m] = t /\ pc[t].at # "idle" => pc[t].m = m

\* p is as urgent as q, if not as CONFIG_PRIORITY_CEILING
Reaches(p, q) == p <= Ceiling \/ p <= q

\* the threads to reckon with: those in the queue whose timeout is not over
Candidates(m) == {u \in Waiters(k, m) : k.to[u] # "EXPIRED"}

SortInv == \A m \in Mutexes : Sorted(k, k.wq[m])

\* a thread owns one mutex, and none while it waits
SingleInv ==
    /\ \A m, n \in Mutexes : owner[m] = owner[n] /\ owner[m] # NoThread => m = n
    /\ \A t \in Threads : pc[t].at = "wait" /\ owner[pc[t].m] = t => k.rv[t] = "0"

\* the priority that a thread had when it became the owner is its own
OrigInv ==
    \A m \in Mutexes : owner[m] # NoThread => orig_prio[m] = InitPrio[owner[m]]

\* the owner is raised, and never lowered
RaisedInv ==
    \A m \in Mutexes : lock_count[m] > 0 =>
        /\ Reaches(k.prio[owner[m]], orig_prio[m])
        /\ \A u \in Candidates(m) : Reaches(k.prio[owner[m]], k.prio[u])

\* the owner that hands over has its own priority again and chose well
HandInv ==
    \A m \in Mutexes, t \in Threads : HandingOver(t, m) =>
        /\ k.prio[t] = InitPrio[t]
        /\ pc[t].arg # NoThread =>
              \A u \in Candidates(m) : k.prio[pc[t].arg] <= k.prio[u]

\* the priority that a thread that gave up is about to give the owner
AdjustInv ==
    \A m \in Mutexes, t \in Threads : pc[t].at = "adjust" /\ pc[t].m = m =>
        /\ Reaches(pc[t].arg, orig_prio[m])
        /\ \A u \in Candidates(m) : Reaches(pc[t].arg, k.prio[u])

PInv ==
    /\ SortInv
    /\ SingleInv
    /\ PriorityRestored
    /\ OrigInv
    /\ RaisedInv
    /\ HandInv
    /\ AdjustInv

\* a thread in a wait queue owns nothing
LEMMA WaiterOwnsNothing ==
    ASSUME MInv, SingleInv, OneAtATime, NEW w \in WaitQs, NEW t \in Waiters(k, w),
           NEW m \in Mutexes
    PROVE  owner[m] # t /\ t \in Threads
<1>1. t \in Threads
  BY DEF MInv, WaitInv, WaitsExact, Pending
<1>2. pc[t].at = "wait" /\ k.rv[t] = "EAGAIN"
  BY <1>1 DEF MInv, WaitInv
<1> QED BY <1>1, <1>2 DEF SingleInv, OneAtATime

\* priorities are numbers
LEMMA PrioNumbers ==
    ASSUME MInv
    PROVE  /\ Ceiling \in Int
           /\ \A t \in Threads : k.prio[t] \in Int
           /\ \A m \in Mutexes : orig_prio[m] \in Int
<1>1. k.prio \in [Threads -> Prios] /\ orig_prio \in [Mutexes -> Prios]
  BY MutexFacts DEF MInv, IInv, TypeOK, KernelType
<1>2. \A p \in Prios : p \in Int
  BY PriosAssumption DEF Prios
<1> QED BY <1>1, <1>2, MutexAssumption

\* A step that changes no priority and no owner, and that makes nobody wait.
LEMMA PrioritiesStay ==
    ASSUME MInv, PInv, owner' = owner, orig_prio' = orig_prio, k'.prio = k.prio,
           \A n \in Mutexes : lock_count'[n] > 0 => lock_count[n] > 0,
           \A n \in Mutexes : \/ k'.wq[n] = k.wq[n]
                              \/ \E x : k'.wq[n] = dlist_remove(k.wq[n], x),
           \A n \in Mutexes : Candidates(n)' \in SUBSET Candidates(n),
           \A t \in Threads : \/ pc'[t].at \in {"idle", "lock", "release"}
                              \/ pc'[t] = pc[t] /\ k'.rv[t] = k.rv[t]
    PROVE  PInv'
<1>1. SortInv'
  <2> SUFFICES ASSUME NEW n \in Mutexes PROVE Sorted(k', k'.wq[n])
    BY DEF SortInv
  <2>1. k \in KernelType /\ k.wq[n] \in Seq(Threads) /\ Sorted(k, k.wq[n])
    BY MutexFacts DEF MInv, IInv, TypeOK, KernelType, PInv, SortInv
  <2>2. Sorted(k, k'.wq[n])
    BY <2>1, SortedRemoved
  <2> QED BY <2>2 DEF Sorted
<1>2. SingleInv'
  BY DEF PInv, SingleInv
<1>3. PriorityRestored' /\ OrigInv'
  BY DEF PInv, PriorityRestored, OrigInv
<1>4. RaisedInv'
  BY DEF PInv, RaisedInv
<1>5. HandInv'
  BY DEF PInv, HandInv, HandingOver
<1>6. AdjustInv'
  BY DEF PInv, AdjustInv
<1> QED BY <1>1, <1>2, <1>3, <1>4, <1>5, <1>6 DEF PInv

\* such a step of the running thread
LEMMA MovesPriorities ==
    ASSUME MInv, PInv, InThread, NEW c, c = cur, NEW p, Moves(c, p),
           p.at \in {"idle", "lock", "release"},
           owner' = owner, orig_prio' = orig_prio, k'.prio = k.prio,
           \A n \in Mutexes : lock_count'[n] > 0 => lock_count[n] > 0,
           \A t \in Threads \ {c} : k'.rv[t] = k.rv[t]
    PROVE  PInv'
<1>1. /\ pc'[c] = p /\ \A t \in Threads \ {c} : pc'[t] = pc[t]
      /\ \A w \in WaitQs : Waiters(k', w) = Waiters(k, w)
  BY MovesStays
<1>2. \A t \in Threads : \/ pc'[t].at \in {"idle", "lock", "release"}
                         \/ pc'[t] = pc[t] /\ k'.rv[t] = k.rv[t]
  BY <1>1
<1>3. k'.wq = k.wq /\ k'.to = k.to
  BY DEF Moves
<1>4. \A n \in Mutexes : Candidates(n)' \in SUBSET Candidates(n)
  BY <1>1, <1>3, MutexFacts DEF Candidates
<1> QED BY <1>2, <1>3, <1>4, PrioritiesStay

\* the steps that leave priorities and owners alone
LEMMA PlainStays ==
    ASSUME MInv, PInv,
           \/ lock_busy \/ lock_got
           \/ \E m \in Mutexes : k_mutex_unlock(m)
           \/ \E m \in Mutexes, timeout \in Timeouts : k_mutex_lock(m, timeout)
    PROVE  PInv'
<1>a. PICK c : c = cur
  OBVIOUS
<1>b. Idling.at = "idle"
  BY DEF Idling
<1>c. InThread
  BY DEF lock_busy, lock_got, k_mutex_lock, k_mutex_unlock, Running
<1>d. Live(k) /\ c \in Threads
  BY <1>a, <1>c, CurFacts
<1>1. CASE lock_busy \/ lock_got
  <2>1. /\ pc[c].at # "idle" /\ Call(unlock_sched(k)) /\ Goto(Idling)
        /\ owner' = owner /\ lock_count' = lock_count /\ orig_prio' = orig_prio
    BY <1>a, <1>1 DEF lock_busy, lock_got, Running
  <2>2. /\ Moves(c, Idling) /\ k'.prio = k.prio
        /\ \A t \in Threads \ {c} : k'.rv[t] = k.rv[t]
    BY <1>a, <1>c, <1>d, <2>1, UnlockMoves
  <2> QED BY <1>a, <1>b, <1>c, <2>1, <2>2, MovesPriorities
<1>2. ASSUME NEW m \in Mutexes, k_mutex_unlock(m) PROVE PInv'
  <2>1. /\ pc[c].at = "idle" /\ lock_count[m] > 0 /\ owner' = owner
        /\ orig_prio' = orig_prio /\ lock_count' = [lock_count EXCEPT ![m] = @ - 1]
    BY <1>a, <1>2 DEF k_mutex_unlock, Running
  <2>2. \A n \in Mutexes : lock_count'[n] > 0 => lock_count[n] > 0
    BY <2>1, MutexFacts
  <2>3. CASE lock_count[m] = 1
    <3>a. PICK p : p = At("release", m, "none")
      OBVIOUS
    <3>1. Call(sched_lock(k)) /\ Goto(p) /\ p.at = "release" /\ p.at \in Inside
      BY <1>2, <2>3, <3>a DEF k_mutex_unlock, At, Inside
    <3>2. Moves(c, p) /\ k'.rv = k.rv /\ k'.prio = k.prio
      BY <1>a, <1>c, <2>1, <3>1, LockMoves
    <3> QED BY <1>a, <1>c, <2>1, <2>2, <3>1, <3>2, MovesPriorities
  <2>4. CASE lock_count[m] # 1
    <3>1. Call(unlock_sched(sched_lock(k))) /\ Goto(Idling)
      BY <1>2, <2>4 DEF k_mutex_unlock
    <3>2. /\ Moves(c, Idling) /\ k'.prio = k.prio
          /\ \A t \in Threads \ {c} : k'.rv[t] = k.rv[t]
      BY <1>a, <1>c, <2>1, <3>1, NestedMoves
    <3> QED BY <1>a, <1>b, <1>c, <2>1, <2>2, <3>2, MovesPriorities
  <2> QED BY <2>3, <2>4
<1>3. ASSUME NEW m \in Mutexes, NEW timeout \in Timeouts, k_mutex_lock(m, timeout)
      PROVE  PInv'
  <2>a. PICK p : p = At("lock", m, timeout)
    OBVIOUS
  <2>1. /\ pc[c].at = "idle" /\ Call(sched_lock(k)) /\ Goto(p)
        /\ owner' = owner /\ lock_count' = lock_count /\ orig_prio' = orig_prio
        /\ p.at = "lock" /\ p.at \in Inside
    BY <1>a, <1>3, <2>a DEF k_mutex_lock, Running, At, Inside
  <2>2. Moves(c, p) /\ k'.rv = k.rv /\ k'.prio = k.prio
    BY <1>a, <1>c, <2>1, LockMoves
  <2> QED BY <1>a, <1>c, <2>1, <2>2, MovesPriorities
<1> QED BY <1>1, <1>2, <1>3

\* the other calls and the interrupts
LEMMA OtherPriorities ==
    ASSUME NewPrios = {}, MInv, PInv, OtherStep
    PROVE  PInv'
<1>1. /\ owner' = owner /\ lock_count' = lock_count /\ orig_prio' = orig_prio /\ pc' = pc
  BY DEF OtherStep, mtxVars
<1>2. /\ Mutexes \in SUBSET WaitQs /\ WaitsExact(k)
      /\ \A w \in WaitQs : \A u \in Waiters(k, w) : u \in Threads /\ u \in Pending(k)
  BY MutexFacts DEF MInv, WaitInv, WaitsExact, Pending
<1>3. CASE Quiet
  <2>1. /\ k'.wq = k.wq /\ k'.prio = k.prio
        /\ pc[cur].at # "idle" => k'.rv = k.rv
        /\ \A t \in Threads :
              /\ \/ k'.to[t] = k.to[t]
                 \/ "PENDING" \notin k.state[t] /\ k'.to[t] = "INACTIVE"
                 \/ t = k.current /\ k'.to[t] = "ACTIVE"
              /\ k'.rv[t] = k.rv[t] \/ t = k.current
    BY <1>3 DEF Quiet, Undisturbed
  <2>2. \A t \in Pending(k) : k'.to[t] = k.to[t]
    BY <2>1, CurrentFacts DEF Pending
  <2>3. \A n \in Mutexes : Candidates(n)' \in SUBSET Candidates(n)
    BY <1>2, <2>1, <2>2 DEF Candidates, Waiters
  <2>4. \A t \in Threads : pc[t].at = "idle" \/ k'.rv[t] = k.rv[t]
    BY <2>1 DEF cur
  <2> QED BY <1>1, <2>1, <2>3, <2>4, PrioritiesStay
<1>4. ASSUME NEW x \in Threads, Expired(k, k', x) PROVE PInv'
  <2>1. /\ k'.wq = k.wq /\ k'.prio = k.prio /\ k'.rv = k.rv
        /\ k'.to[x] = "EXPIRED" /\ \A u \in Threads \ {x} : k'.to[u] = k.to[u]
    BY <1>4 DEF Expired
  <2>2. \A n \in Mutexes : Candidates(n)' \in SUBSET Candidates(n)
    BY <1>2, <2>1 DEF Candidates, Waiters
  <2> QED BY <1>1, <2>1, <2>2, PrioritiesStay
<1>5. ASSUME NEW x \in Threads, Handled(k, k', x) PROVE PInv'
  <2>1. /\ k'.prio = k.prio /\ k'.rv = k.rv
        /\ \A w \in WaitQs : /\ Waiters(k', w) = Waiters(k, w) \ {x}
                             /\ \/ k'.wq[w] = k.wq[w]
                                \/ k'.wq[w] = dlist_remove(k.wq[w], x)
        /\ \A u \in Threads \ {x} : k'.to[u] = k.to[u]
    BY <1>5 DEF Handled
  <2>2. \A n \in Mutexes : Candidates(n)' \in SUBSET Candidates(n)
    BY <1>2, <2>1 DEF Candidates
  <2>3. \A n \in Mutexes : \/ k'.wq[n] = k.wq[n]
                           \/ \E y : k'.wq[n] = dlist_remove(k.wq[n], y)
    BY <1>2, <2>1
  <2> QED BY <1>1, <2>1, <2>2, <2>3, PrioritiesStay
<1> QED BY <1>3, <1>4, <1>5 DEF OtherStep

\* k_mutex_lock() takes a mutex that nobody owns or that is its own
LEMMA LockFreeEffect ==
    ASSUME MInv, lock_free, NEW c, c = cur, NEW m, m = pc[c].m
    PROVE  /\ InThread /\ pc[c].at = "lock" /\ m \in Mutexes /\ c \in Threads
           /\ c # NoThread
           /\ owner[m] = c \/ owner[m] = NoThread
           /\ owner'[m] = c /\ \A n \in Mutexes \ {m} : owner'[n] = owner[n]
           /\ \A n \in Mutexes \ {m} : /\ lock_count'[n] = lock_count[n]
                                       /\ orig_prio'[n] = orig_prio[n]
           /\ owner[m] = c => lock_count[m] > 0 /\ orig_prio'[m] = orig_prio[m]
           /\ owner[m] = NoThread =>
                 orig_prio'[m] = k.prio[c] /\ Candidates(m) = {}
           /\ k'.prio = k.prio /\ k'.wq = k.wq /\ k'.to = k.to
           /\ \A w \in WaitQs : Waiters(k', w) = Waiters(k, w)
           /\ pc'[c] = Idling
           /\ \A t \in Threads \ {c} : pc'[t] = pc[t] /\ k'.rv[t] = k.rv[t]
<1>1. /\ InThread /\ pc[c].at = "lock"
      /\ lock_count[m] = 0 \/ owner[m] = c
      /\ orig_prio' = [orig_prio EXCEPT ![m] =
                           IF lock_count[m] = 0 THEN k.prio[c] ELSE @]
      /\ lock_count' = [lock_count EXCEPT ![m] = @ + 1]
      /\ owner' = [owner EXCEPT ![m] = c]
      /\ Call(unlock_sched(k)) /\ Goto(Idling)
  BY DEF lock_free, Running
<1>2. /\ c \in Threads /\ c # NoThread /\ Live(k)
      /\ \A t \in Threads \ {c} : pc[t].at \notin Inside
  BY <1>1, CurFacts
<1>3. m \in Mutexes
  BY <1>1, <1>2 DEF MInv, MutexType, PcType
<1>4. /\ Moves(c, Idling) /\ k'.prio = k.prio
      /\ \A t \in Threads \ {c} : k'.rv[t] = k.rv[t]
  BY <1>1, <1>2, UnlockMoves
<1>5. /\ \A w \in WaitQs : Waiters(k', w) = Waiters(k, w)
      /\ pc'[c] = Idling /\ \A t \in Threads \ {c} : pc'[t] = pc[t]
  BY <1>1, <1>4, MovesStays
<1>6. k'.wq = k.wq /\ k'.to = k.to
  BY <1>4 DEF Moves
<1>7. /\ owner \in [Mutexes -> Apps \cup {NoThread}] /\ lock_count \in [Mutexes -> Nat]
      /\ orig_prio \in [Mutexes -> Prios] /\ Apps \in SUBSET Threads
  BY MutexFacts
<1>8. \A t \in Threads : ~Releasing(t, m) /\ ~HandingOver(t, m)
  BY <1>1, <1>2 DEF Releasing, HandingOver, Inside
<1>9. ~Granted(c, m)
  BY <1>1 DEF Granted
<1>10. /\ \A t \in Threads : owner[m] = t => lock_count[m] > 0
       /\ lock_count[m] > 0 => owner[m] # NoThread
  <2>1. \A t \in Threads :
          /\ held[t][m] > 0 => lock_count[m] = held[t][m]
          /\ Granted(t, m) => lock_count[m] = 1
          /\ owner[m] = t => \/ Granted(t, m) \/ held[t][m] > 0
                             \/ Releasing(t, m) \/ HandingOver(t, m)
    BY <1>3 DEF MInv, OwnerInv
  <2>2. lock_count[m] > 0 => owner[m] \in Threads
    BY <1>3, <1>7 DEF MInv, OwnerInv
  <2> QED BY <1>8, <2>1, <2>2, MutexFacts
<1>11. owner[m] = c \/ owner[m] = NoThread
  BY <1>1, <1>3, <1>7, <1>10
<1>12. lock_count[m] = 0 => Candidates(m) = {}
  BY <1>3, <1>7, <1>8 DEF MInv, FreeInv, Candidates
<1>13. owner[m] = NoThread => lock_count[m] = 0
  BY <1>1, <1>2
<1>14. /\ owner'[m] = c /\ \A n \in Mutexes \ {m} : owner'[n] = owner[n]
       /\ \A n \in Mutexes \ {m} : /\ lock_count'[n] = lock_count[n]
                                   /\ orig_prio'[n] = orig_prio[n]
       /\ lock_count[m] = 0 => orig_prio'[m] = k.prio[c]
       /\ lock_count[m] > 0 => orig_prio'[m] = orig_prio[m]
  BY <1>1, <1>3, <1>7
<1> QED BY <1>1, <1>2, <1>3, <1>4, <1>5, <1>6, <1>10, <1>11, <1>12, <1>13, <1>14

\* so the owner is at its own priority, and nobody has waited for it yet
LEMMA LockFreePriorities ==
    ASSUME MInv, PInv, OneAtATime, lock_free
    PROVE  PInv'
<1>a. PICK c : c = cur
  OBVIOUS
<1>b. PICK m : m = pc[c].m
  OBVIOUS
<1>1. /\ InThread /\ pc[c].at = "lock" /\ m \in Mutexes /\ c \in Threads /\ c # NoThread
      /\ owner[m] = c \/ owner[m] = NoThread
      /\ owner'[m] = c /\ \A n \in Mutexes \ {m} : owner'[n] = owner[n]
      /\ \A n \in Mutexes \ {m} : /\ lock_count'[n] = lock_count[n]
                                  /\ orig_prio'[n] = orig_prio[n]
  BY <1>a, <1>b, LockFreeEffect
<1>2. /\ owner[m] = c => lock_count[m] > 0 /\ orig_prio'[m] = orig_prio[m]
      /\ owner[m] = NoThread => orig_prio'[m] = k.prio[c] /\ Candidates(m) = {}
  BY <1>a, <1>b, LockFreeEffect
<1>3. /\ k'.prio = k.prio /\ k'.wq = k.wq /\ k'.to = k.to
      /\ pc'[c].at = "idle"
      /\ \A t \in Threads \ {c} : pc'[t] = pc[t] /\ k'.rv[t] = k.rv[t]
  BY <1>a, <1>b, LockFreeEffect DEF Idling
<1>4. \A n \in Mutexes : Candidates(n)' = Candidates(n)
  BY <1>3 DEF Candidates, Waiters
<1>5. \A n \in Mutexes \ {m} : owner[n] # c
  BY <1>b, <1>1 DEF OneAtATime
<1>6. \A t \in Threads : pc'[t].at \notin {"adjust", "handover"}
  <2>1. \A t \in Threads \ {c} : pc[t].at \notin Inside
    BY <1>a, <1>1, CurFacts
  <2> QED BY <1>3, <2>1 DEF Inside
<1>7. SortInv'
  BY <1>3 DEF PInv, SortInv, Sorted
<1>8. SingleInv'
  <2>1. \A n, l \in Mutexes : owner'[n] = owner'[l] /\ owner'[n] # NoThread => n = l
    BY <1>1, <1>5 DEF PInv, SingleInv
  <2>2. ASSUME NEW t \in Threads, pc'[t].at = "wait", owner'[pc'[t].m] = t
        PROVE  k'.rv[t] = "0"
    <3>1. t # c /\ pc'[t] = pc[t] /\ k'.rv[t] = k.rv[t]
      BY <1>3, <2>2
    <3>2. pc[t].m \in Mutexes
      BY <2>2, <3>1 DEF MInv, MutexType, PcType
    <3>3. owner[pc[t].m] = t
      BY <1>1, <2>2, <3>1, <3>2
    <3> QED BY <2>2, <3>1, <3>3 DEF PInv, SingleInv
  <2> QED BY <2>1, <2>2 DEF SingleInv
<1>9. PriorityRestored'
  <2> SUFFICES ASSUME NEW t \in Threads, \A n \in Mutexes : owner'[n] # t
               PROVE  k'.prio[t] = InitPrio[t]
    BY DEF PriorityRestored
  <2>1. \A n \in Mutexes : owner[n] # t
    BY <1>1, MutexFacts
  <2> QED BY <1>3, <2>1 DEF PInv, PriorityRestored
<1>10. OrigInv'
  <2>1. owner[m] = NoThread => k.prio[c] = InitPrio[c]
    BY <1>1, <1>5 DEF PInv, PriorityRestored
  <2>2. orig_prio'[m] = InitPrio[c]
    BY <1>1, <1>2, <2>1 DEF PInv, OrigInv
  <2> QED BY <1>1, <2>2 DEF PInv, OrigInv
<1>11. RaisedInv'
  <2>1. ASSUME NEW n \in Mutexes, lock_count'[n] > 0
        PROVE  /\ Reaches(k.prio[owner'[n]], orig_prio'[n])
               /\ \A u \in Candidates(n) : Reaches(k.prio[owner'[n]], k.prio[u])
    <3>1. CASE n # m \/ owner[m] = c
      BY <1>1, <1>2, <2>1, <3>1 DEF PInv, RaisedInv
    <3>2. CASE n = m /\ owner[m] = NoThread
      BY <1>1, <1>2, <3>2, PrioNumbers DEF Reaches
    <3> QED BY <1>1, <3>1, <3>2
  <2> QED BY <1>3, <1>4, <2>1 DEF RaisedInv
<1>12. HandInv' /\ AdjustInv'
  BY <1>6 DEF HandInv, HandingOver, AdjustInv
<1> QED BY <1>7, <1>8, <1>9, <1>10, <1>11, <1>12 DEF PInv

\* what k_mutex_lock() computes when it has timed out is enough for the others
LEMMA TimedOutReaches ==
    ASSUME MInv, PInv, NEW m \in Mutexes, NEW p, p = TimedOutPrio(m)
    PROVE  Reaches(p, orig_prio[m]) /\ \A u \in Candidates(m) : Reaches(p, k.prio[u])
<1>1. /\ orig_prio[m] \in Prios /\ m \in WaitQs /\ k \in KernelType
      /\ k.wq[m] \in Seq(Threads)
  BY MutexFacts DEF MInv, IInv, TypeOK, KernelType
<1>2. CASE k.wq[m] = <<>>
  <2>1. p = orig_prio[m] /\ Candidates(m) = {}
    BY <1>2 DEF TimedOutPrio, Candidates, Waiters, ToSet
  <2> QED BY <2>1, PrioNumbers DEF Reaches
<1>3. CASE k.wq[m] # <<>>
  <2>a. PICK h : h = Head(k.wq[m])
    OBVIOUS
  <2>1. h \in Threads /\ h = k.wq[m][1] /\ Len(k.wq[m]) \in Nat /\ Len(k.wq[m]) >= 1
    BY <1>1, <1>3, <2>a
  <2>2. k.prio[h] \in Prios
    BY <1>1, <2>1 DEF KernelType
  <2>3. p = new_prio_for_inheritance(k.prio[h], orig_prio[m])
    BY <1>3, <2>a DEF TimedOutPrio
  <2>4. p \in Prios /\ (p = Ceiling \/ (p <= k.prio[h] /\ p <= orig_prio[m]))
    BY <1>1, <2>2, <2>3, InheritIs
  <2>5. Ceiling \in Int /\ p \in Int /\ k.prio[h] \in Int
    BY <2>2, <2>4, PrioNumbers, PriosAssumption DEF Prios
  <2>6. ASSUME NEW u \in Candidates(m) PROVE Reaches(p, k.prio[u])
    <3>1. PICK i \in 1..Len(k.wq[m]) : k.wq[m][i] = u
      BY <1>1, <2>6 DEF Candidates, Waiters, ToSet
    <3>2. u \in Threads /\ k.prio[u] \in Int
      BY <1>1, <3>1, PrioNumbers
    <3>3. k.prio[h] <= k.prio[u]
      BY <2>1, <2>5, <3>1, <3>2 DEF PInv, SortInv, Sorted
    <3> QED BY <2>4, <2>5, <3>2, <3>3 DEF Reaches
  <2> QED BY <2>4, <2>5, <2>6 DEF Reaches
<1> QED BY <1>2, <1>3

\* k_mutex_lock() has timed out
LEMMA TimedOutPriorities ==
    ASSUME MInv, PInv, lock_timed_out
    PROVE  PInv'
<1>a. PICK c : c = cur
  OBVIOUS
<1>b. PICK m : m = pc[c].m
  OBVIOUS
<1>c. PICK p : p = TimedOutPrio(m)
  OBVIOUS
<1>1. /\ InThread /\ pc[c].at = "wait" /\ pc' = [pc EXCEPT ![c] = At("adjust", m, p)]
      /\ owner' = owner /\ lock_count' = lock_count /\ orig_prio' = orig_prio
      /\ k' = k
  BY <1>a, <1>b, <1>c DEF lock_timed_out, Running, Goto, TimedOutPrio
<1>2. c \in Threads /\ m \in Mutexes
  BY <1>a, <1>b, <1>1, CurFacts DEF MInv, MutexType, PcType
<1>3. /\ pc'[c] = At("adjust", m, p) /\ \A t \in Threads \ {c} : pc'[t] = pc[t]
  BY <1>1, <1>2, MutexFacts
<1>4. pc'[c].at = "adjust" /\ pc'[c].m = m /\ pc'[c].arg = p
  BY <1>3 DEF At
<1>5. \A n \in Mutexes : Candidates(n)' = Candidates(n)
  BY <1>1 DEF Candidates
<1>6. SortInv' /\ PriorityRestored' /\ OrigInv'
  BY <1>1 DEF PInv, SortInv, PriorityRestored, OrigInv
<1>7. SingleInv'
  BY <1>1, <1>3, <1>4 DEF PInv, SingleInv
<1>8. RaisedInv'
  BY <1>1, <1>5 DEF PInv, RaisedInv
<1>9. HandInv'
  BY <1>1, <1>3, <1>4, <1>5 DEF PInv, HandInv, HandingOver
<1>10. AdjustInv'
  <2>1. Reaches(p, orig_prio[m]) /\ \A u \in Candidates(m) : Reaches(p, k.prio[u])
    BY <1>c, <1>2, TimedOutReaches
  <2> QED BY <1>1, <1>3, <1>4, <1>5, <2>1 DEF PInv, AdjustInv
<1> QED BY <1>6, <1>7, <1>8, <1>9, <1>10 DEF PInv

\* A queue stays sorted when the priority of an owner changes.
LEMMA StaysSorted ==
    ASSUME MInv, PInv, OneAtATime, NEW m \in Mutexes, NEW n \in Mutexes, NEW kx,
           \A t \in Threads \ {owner[m]} : kx.prio[t] = k.prio[t]
    PROVE  Sorted(kx, k.wq[n])
<1>1. k.wq[n] \in Seq(Threads) /\ n \in WaitQs
  BY MutexFacts DEF MInv, IInv, TypeOK, KernelType
<1>2. ASSUME NEW i \in 1..Len(k.wq[n]) PROVE kx.prio[k.wq[n][i]] = k.prio[k.wq[n][i]]
  <2>1. k.wq[n][i] \in Waiters(k, n)
    BY <1>1 DEF Waiters, ToSet
  <2>2. k.wq[n][i] \in Threads /\ k.wq[n][i] # owner[m]
    BY <1>1, <2>1, WaiterOwnsNothing DEF PInv
  <2> QED BY <2>2
<1> QED BY <1>2 DEF PInv, SortInv, Sorted

\* k_mutex_lock() gives the owner its new priority
LEMMA AdjustPriorities ==
    ASSUME MInv, PInv, OneAtATime, lock_adjust
    PROVE  PInv'
<1>a. PICK c : c = cur
  OBVIOUS
<1>b. PICK m : m = pc[c].m
  OBVIOUS
<1>c. PICK o : o = owner[m]
  OBVIOUS
<1>1. /\ InThread /\ pc[c].at = "adjust"
      /\ owner' = owner /\ lock_count' = lock_count /\ orig_prio' = orig_prio
  BY <1>a DEF lock_adjust, Running
<1>2. c \in Threads /\ m \in Mutexes /\ pc[c].arg \in Prios /\ Live(k)
  BY <1>a, <1>b, <1>1, CurFacts DEF MInv, MutexType, PcType
<1>3. CASE o = NoThread
  <2>1. k' = k /\ pc' = pc
    BY <1>a, <1>b, <1>c, <1>3 DEF lock_adjust
  <2>2. \A n \in Mutexes : Candidates(n)' = Candidates(n)
    BY <2>1 DEF Candidates
  <2> QED BY <1>1, <2>1, <2>2, PrioritiesStay
<1>4. CASE o # NoThread
  <2>a. PICK kx : kx = adjust_owner_prio(k, o, pc[c].arg)
    OBVIOUS
  <2>1. Call(unlock_sched(kx)) /\ Goto(Idling)
    BY <1>a, <1>b, <1>c, <1>4, <2>a DEF lock_adjust
  <2>2. o \in Apps /\ o \in Threads
    BY <1>c, <1>2, <1>4, MutexFacts
  <2>3. /\ Live(kx) /\ kx.current = k.current /\ kx.locked = k.locked
        /\ kx.wq = k.wq /\ kx.state = k.state /\ kx.to = k.to
        /\ kx.handling = k.handling /\ kx.rv = k.rv
        /\ kx.prio[o] = pc[c].arg
        /\ \A t \in Threads \ {o} : kx.prio[t] = k.prio[t]
    BY <1>2, <2>a, <2>2, AdjustEffect
  <2>4. /\ Moves(c, Idling) /\ k'.prio = kx.prio
        /\ \A t \in Threads \ {c} : k'.rv[t] = k.rv[t]
    BY <1>a, <1>1, <2>1, <2>3, UnlockMoves
  <2>5. /\ k'.wq = k.wq /\ k'.to = k.to /\ k'.prio[o] = pc[c].arg
        /\ \A t \in Threads \ {o} : k'.prio[t] = k.prio[t]
    BY <2>3, <2>4 DEF Moves
  <2>6. pc'[c].at = "idle" /\ \A t \in Threads \ {c} : pc'[t] = pc[t]
    BY <1>a, <1>1, <2>4, MovesStays DEF Idling
  <2>7. \A t \in Threads : pc'[t].at \notin {"adjust", "handover"}
    <3>1. \A t \in Threads \ {c} : pc[t].at \notin Inside
      BY <1>a, <1>1, CurFacts
    <3> QED BY <2>6, <3>1 DEF Inside
  <2>8. \A n \in Mutexes : /\ Candidates(n)' = Candidates(n)
                           /\ \A u \in Candidates(n) : u \in Threads /\ u # o
    <3>1. \A n \in Mutexes : Candidates(n)' = Candidates(n)
      BY <2>5 DEF Candidates, Waiters
    <3>2. ASSUME NEW n \in Mutexes, NEW u \in Candidates(n)
          PROVE  u \in Threads /\ u # o
      <4>1. u \in Waiters(k, n) /\ n \in WaitQs
        BY <3>2, MutexFacts DEF Candidates
      <4> QED BY <1>c, <1>2, <4>1, WaiterOwnsNothing DEF PInv
    <3> QED BY <3>1, <3>2
  <2>9. SortInv'
    BY <1>c, <1>2, <2>5, StaysSorted DEF SortInv
  <2>10. SingleInv'
    BY <1>1, <2>4, <2>6 DEF PInv, SingleInv
  <2>11. PriorityRestored'
    BY <1>c, <1>1, <1>2, <2>5 DEF PInv, PriorityRestored
  <2>12. OrigInv'
    BY <1>1 DEF PInv, OrigInv
  <2>13. RaisedInv'
    <3>1. /\ Reaches(pc[c].arg, orig_prio[m])
          /\ \A u \in Candidates(m) : Reaches(pc[c].arg, k.prio[u])
      BY <1>b, <1>1, <1>2 DEF PInv, AdjustInv
    <3>2. ASSUME NEW n \in Mutexes, lock_count[n] > 0
          PROVE  /\ Reaches(k'.prio[owner[n]], orig_prio[n])
                 /\ \A u \in Candidates(n) : Reaches(k'.prio[owner[n]], k'.prio[u])
      <4>1. CASE n = m
        BY <1>c, <2>5, <2>8, <3>1, <4>1
      <4>2. CASE n # m
        <5>1. owner[n] \in Threads /\ owner[n] # o
          BY <1>c, <1>2, <1>4, <3>2, <4>2, MutexFacts DEF PInv, SingleInv, MInv, OwnerInv
        <5> QED BY <2>5, <2>8, <3>2, <5>1 DEF PInv, RaisedInv
      <4> QED BY <4>1, <4>2
    <3> QED BY <1>1, <2>8, <3>2 DEF RaisedInv
  <2>14. HandInv' /\ AdjustInv'
    BY <2>7 DEF HandInv, HandingOver, AdjustInv
  <2> QED BY <2>9, <2>10, <2>11, <2>12, <2>13, <2>14 DEF PInv
<1> QED BY <1>3, <1>4

\* k_mutex_lock() raises the owner and waits
LEMMA LockWaitPriorities ==
    ASSUME MInv, PInv, OneAtATime, lock_wait
    PROVE  PInv'
<1>a. PICK c : c = cur
  OBVIOUS
<1>b. PICK m : m = pc[c].m
  OBVIOUS
<1>c. PICK o : o = owner[m]
  OBVIOUS
<1>1. /\ InThread /\ pc[c].at = "lock" /\ m \in Mutexes
      /\ c \in Threads /\ o \in Apps /\ o # c /\ lock_count[m] > 0
      /\ owner' = owner /\ lock_count' = lock_count /\ orig_prio' = orig_prio
      /\ pc' = [pc EXCEPT ![c] = [pc[c] EXCEPT !.at = "wait"]]
  BY <1>a, <1>b, <1>c, LockWaitEffect
<1>2. /\ Waiters(k', m) = Waiters(k, m) \cup {c}
      /\ \A v \in WaitQs \ {m} : k'.wq[v] = k.wq[v]
      /\ \A u \in Threads \ {c} : k'.to[u] = k.to[u] /\ k'.rv[u] = k.rv[u]
  BY <1>a, <1>b, LockWaitEffect
<1>3. /\ \A t \in Threads \ {o} : k'.prio[t] = k.prio[t]
      /\ k'.prio[o] <= k.prio[o]
      /\ k'.prio[o] <= Ceiling \/ k'.prio[o] <= k.prio[c]
  BY <1>a, <1>b, <1>c, LockWaitEffect
<1>4. PICK kx \in KernelType :
         /\ kx.wq[m] = k.wq[m] /\ kx.prio = k'.prio
         /\ k'.wq[m] = InsertAt(k.wq[m], pend_position(kx, c, m), c)
  BY <1>a, <1>b, LockWaitEffect
<1>5. o \in Threads /\ Mutexes \in SUBSET WaitQs
  BY <1>1, MutexFacts
<1>6. /\ pc'[c].at = "wait" /\ pc'[c].m = m
      /\ \A t \in Threads \ {c} : pc'[t] = pc[t]
  <2>1. pc[c] = At("lock", m, pc[c].arg)
    BY <1>b, <1>1 DEF MInv, MutexType, PcType
  <2>2. pc'[c] = [pc[c] EXCEPT !.at = "wait"] /\ \A t \in Threads \ {c} : pc'[t] = pc[t]
    BY <1>1, MutexFacts
  <2> QED BY <2>1, <2>2 DEF At
<1>7. \A t \in Threads : pc'[t].at \notin {"adjust", "handover"}
  <2>1. \A t \in Threads \ {c} : pc[t].at \notin Inside
    BY <1>a, <1>1, CurFacts
  <2> QED BY <1>6, <2>1 DEF Inside
<1>8. \A n \in Mutexes : \A u \in Candidates(n) : u \in Threads /\ u # o /\ u # c
  <2> SUFFICES ASSUME NEW n \in Mutexes, NEW u \in Candidates(n)
               PROVE  u \in Threads /\ u # o /\ u # c
    OBVIOUS
  <2>1. u \in Waiters(k, n) /\ n \in WaitQs
    BY <1>5 DEF Candidates
  <2>2. u \in Threads /\ u # o
    BY <1>c, <1>1, <2>1, WaiterOwnsNothing DEF PInv
  <2> QED BY <1>a, <1>1, <2>1, <2>2, CurFacts
<1>9. /\ \A u \in Candidates(m)' : u = c \/ u \in Candidates(m)
      /\ \A n \in Mutexes \ {m} : \A u \in Candidates(n)' : u \in Candidates(n)
  <2>1. ASSUME NEW n \in Mutexes, NEW u, u \in Candidates(n)', u # c \/ n # m
        PROVE  u \in Candidates(n)
    <3>1. u \in Waiters(k', n) /\ k'.to[u] # "EXPIRED"
      BY <2>1 DEF Candidates
    <3>2. u \in Waiters(k, n)
      BY <1>2, <1>5, <2>1, <3>1 DEF Waiters
    <3>3. u \in Threads /\ u # c
      BY <1>a, <1>1, <1>5, <3>2, CurFacts DEF WaitsExact, Pending
    <3> QED BY <1>2, <3>1, <3>2, <3>3 DEF Candidates
  <2> QED BY <1>1, <2>1
<1>10. SortInv'
  <2>1. Sorted(k', k'.wq[m])
    <3>1. Sorted(kx, kx.wq[m])
      BY <1>c, <1>1, <1>3, <1>4, StaysSorted
    <3>2. Sorted(kx, k'.wq[m])
      BY <1>1, <1>4, <1>5, <3>1, SortedInserted
    <3> QED BY <1>4, <3>2 DEF Sorted
  <2>2. ASSUME NEW n \in Mutexes, n # m PROVE Sorted(k', k'.wq[n])
    BY <1>c, <1>1, <1>2, <1>3, <1>5, <2>2, StaysSorted
  <2> QED BY <2>1, <2>2 DEF SortInv
<1>11. SingleInv'
  BY <1>c, <1>1, <1>2, <1>6 DEF PInv, SingleInv
<1>12. PriorityRestored'
  BY <1>c, <1>1, <1>3 DEF PInv, PriorityRestored
<1>13. OrigInv'
  BY <1>1 DEF PInv, OrigInv
<1>14. RaisedInv'
  <2>1. /\ k'.prio[o] \in Int /\ k.prio[o] \in Int /\ Ceiling \in Int
        /\ \A t \in Threads : k.prio[t] \in Int
        /\ \A n \in Mutexes : orig_prio[n] \in Int
    BY <1>4, <1>5, PrioNumbers, PriosAssumption DEF KernelType, Prios
  <2>2. \A q \in Int : Reaches(k.prio[o], q) => Reaches(k'.prio[o], q)
    BY <1>3, <2>1 DEF Reaches
  <2>3. Reaches(k'.prio[o], k'.prio[c])
    BY <1>1, <1>3 DEF Reaches
  <2>4. /\ Reaches(k'.prio[o], orig_prio[m])
        /\ \A u \in Candidates(m) : Reaches(k'.prio[o], k'.prio[u])
    <3>1. /\ Reaches(k.prio[o], orig_prio[m])
          /\ \A u \in Candidates(m) : Reaches(k.prio[o], k.prio[u])
      BY <1>c, <1>1 DEF PInv, RaisedInv
    <3> QED BY <1>1, <1>3, <1>8, <2>1, <2>2, <3>1
  <2>5. ASSUME NEW n \in Mutexes, lock_count[n] > 0, n # m
        PROVE  /\ Reaches(k'.prio[owner[n]], orig_prio[n])
               /\ \A u \in Candidates(n) : Reaches(k'.prio[owner[n]], k'.prio[u])
    <3>1. owner[n] \in Threads /\ owner[n] # o
      BY <1>c, <1>1, <2>5, MutexFacts DEF PInv, SingleInv, MInv, OwnerInv
    <3> QED BY <1>3, <1>8, <2>5, <3>1 DEF PInv, RaisedInv
  <2>6. ASSUME NEW n \in Mutexes, lock_count[n] > 0
        PROVE  /\ Reaches(k'.prio[owner[n]], orig_prio[n])
               /\ \A u \in Candidates(n)' : Reaches(k'.prio[owner[n]], k'.prio[u])
    <3>1. CASE n = m
      BY <1>c, <1>9, <2>3, <2>4, <3>1
    <3>2. CASE n # m
      BY <1>9, <2>5, <2>6, <3>2
    <3> QED BY <3>1, <3>2
  <2> QED BY <1>1, <2>6 DEF RaisedInv
<1>15. HandInv' /\ AdjustInv'
  BY <1>7 DEF HandInv, HandingOver, AdjustInv
<1> QED BY <1>10, <1>11, <1>12, <1>13, <1>14, <1>15 DEF PInv

\* k_mutex_unlock() gives the priority back and picks the next owner
LEMMA ReleasePriorities ==
    ASSUME MInv, PInv, OneAtATime, unlock_release
    PROVE  PInv'
<1>a. PICK c : c = cur
  OBVIOUS
<1>b. PICK m : m = pc[c].m
  OBVIOUS
<1>1. /\ InThread /\ pc[c].at = "release" /\ m \in Mutexes
      /\ owner[m] = c /\ lock_count[m] = 0
      /\ owner' = owner /\ lock_count' = lock_count /\ orig_prio' = orig_prio
      /\ Live(k') /\ k'.rv = k.rv
  BY <1>a, <1>b, ReleaseEffect
<1>2. /\ k'.prio[c] = orig_prio[m]
      /\ \A t \in Threads \ {c} : k'.prio[t] = k.prio[t]
  BY <1>a, <1>b, ReleaseEffect
<1>3. PICK x \in Apps \cup {NoThread} :
         /\ pc' = [pc EXCEPT ![c] = At("handover", m, x)]
         /\ x = NoThread => k'.wq = k.wq /\ k'.to = k.to
         /\ x # NoThread =>
              /\ x \in Waiters(k, m) /\ FirstToServe(m, x)
              /\ \A w \in WaitQs : /\ Waiters(k', w) = Waiters(k, w) \ {x}
                                   /\ k'.wq[w] = dlist_remove(k.wq[w], x)
              /\ \A u \in Threads \ {x} : k'.to[u] = k.to[u]
  BY <1>a, <1>b, ReleaseEffect
<1>4. /\ c \in Threads /\ c # NoThread /\ Mutexes \in SUBSET WaitQs
      /\ \A t \in Threads \ {c} : pc[t].at \notin Inside
  BY <1>a, <1>1, CurFacts, MutexFacts
<1>5. /\ pc'[c].at = "handover" /\ pc'[c].m = m /\ pc'[c].arg = x
      /\ \A t \in Threads \ {c} : pc'[t] = pc[t]
  BY <1>3, <1>4, MutexFacts DEF At
<1>6. \A n \in Mutexes : \A u \in Candidates(n) : u \in Threads /\ u # c
  <2> SUFFICES ASSUME NEW n \in Mutexes, NEW u \in Candidates(n)
               PROVE  u \in Threads /\ u # c
    OBVIOUS
  <2>1. u \in Waiters(k, n) /\ n \in WaitQs
    BY <1>4 DEF Candidates
  <2> QED BY <1>1, <2>1, WaiterOwnsNothing DEF PInv
<1>7. \A n \in Mutexes : Candidates(n)' \in SUBSET Candidates(n)
  <2>1. CASE x = NoThread
    BY <1>3, <2>1 DEF Candidates, Waiters
  <2>2. CASE x # NoThread
    <3> SUFFICES ASSUME NEW n \in Mutexes, NEW u, u \in Candidates(n)'
                 PROVE  u \in Candidates(n)
      OBVIOUS
    <3>1. u \in Waiters(k, n) /\ u # x /\ k'.to[u] # "EXPIRED" /\ n \in WaitQs
      BY <1>3, <1>4, <2>2 DEF Candidates
    <3>2. u \in Threads
      BY <3>1 DEF MInv, WaitInv, WaitsExact, Pending
    <3> QED BY <1>3, <2>2, <3>1, <3>2 DEF Candidates
  <2> QED BY <2>1, <2>2
<1>8. SortInv'
  <2> SUFFICES ASSUME NEW n \in Mutexes PROVE Sorted(k', k'.wq[n])
    BY DEF SortInv
  <2>1. Sorted(k', k.wq[n])
    BY <1>1, <1>2, StaysSorted
  <2>2. k' \in KernelType /\ k.wq[n] \in Seq(Threads)
    BY <1>1, <1>4 DEF Live, Good, Holds, MInv, IInv, TypeOK, KernelType
  <2>3. k'.wq[n] = k.wq[n] \/ k'.wq[n] = dlist_remove(k.wq[n], x)
    BY <1>3, <1>4
  <2> QED BY <2>1, <2>2, <2>3, SortedRemoved
<1>9. SingleInv'
  BY <1>1, <1>5 DEF PInv, SingleInv
<1>10. PriorityRestored' /\ OrigInv'
  BY <1>1, <1>2 DEF PInv, PriorityRestored, OrigInv
<1>11. RaisedInv'
  <2>1. ASSUME NEW n \in Mutexes, lock_count[n] > 0
        PROVE  /\ Reaches(k'.prio[owner[n]], orig_prio[n])
               /\ \A u \in Candidates(n) : Reaches(k'.prio[owner[n]], k'.prio[u])
    <3>1. n # m /\ owner[n] \in Threads /\ owner[n] # c
      BY <1>1, <1>4, <2>1, MutexFacts DEF PInv, SingleInv, MInv, OwnerInv
    <3> QED BY <1>2, <1>6, <2>1, <3>1 DEF PInv, RaisedInv
  <2> QED BY <1>1, <1>7, <2>1 DEF RaisedInv
<1>12. HandInv'
  <2>1. k'.prio[c] = InitPrio[c]
    BY <1>1, <1>2, <1>4 DEF PInv, OrigInv
  <2>2. ASSUME x # NoThread, NEW u \in Candidates(m) PROVE k'.prio[x] <= k'.prio[u]
    <3>1. PICK i \in 1..Len(k.wq[m]) :
             /\ k.wq[m][i] = x /\ k.to[x] # "EXPIRED"
             /\ \A j \in 1..Len(k.wq[m]) : k.to[k.wq[m][j]] # "EXPIRED" => i <= j
      BY <1>3, <2>2 DEF FirstToServe
    <3>2. PICK j \in 1..Len(k.wq[m]) : k.wq[m][j] = u
      BY <1>1, <1>4, <2>2 DEF Candidates, Waiters, ToSet, MInv, IInv, TypeOK, KernelType
    <3>3. i <= j
      BY <2>2, <3>1, <3>2 DEF Candidates
    <3>4. x \in Candidates(m)
      BY <1>3, <2>2, <3>1 DEF Candidates
    <3>5. x \in Threads /\ x # c /\ u \in Threads /\ u # c
      BY <1>1, <1>6, <2>2, <3>4
    <3>6. k.prio[x] \in Int /\ k.prio[u] \in Int
      BY <3>5, PrioNumbers
    <3>7. i = j \/ i < j
      BY <3>3
    <3>8. k.prio[x] <= k.prio[u]
      BY <1>1, <3>1, <3>2, <3>6, <3>7 DEF PInv, SortInv, Sorted
    <3> QED BY <1>2, <3>5, <3>8
  <2>3. \A n \in Mutexes, t \in Threads : HandingOver(t, n)' => t = c /\ n = m
    BY <1>4, <1>5 DEF HandingOver, Inside
  <2> QED BY <1>5, <1>7, <2>1, <2>2, <2>3 DEF HandInv
<1>13. AdjustInv'
  BY <1>4, <1>5 DEF AdjustInv, Inside
<1> QED BY <1>8, <1>9, <1>10, <1>11, <1>12, <1>13 DEF PInv

\* k_mutex_unlock() hands over
LEMMA HandoverPriorities ==
    ASSUME MInv, PInv, OneAtATime, unlock_handover
    PROVE  PInv'
<1>a. PICK c : c = cur
  OBVIOUS
<1>b. PICK m : m = pc[c].m
  OBVIOUS
<1>c. PICK x : x = pc[c].arg
  OBVIOUS
<1>1. /\ InThread /\ pc[c].at = "handover" /\ c \in Threads /\ m \in Mutexes
      /\ x \in Apps \cup {NoThread}
      /\ x # NoThread => pc[x].at = "wait" /\ pc[x].m = m
      /\ Moves(c, Idling) /\ k'.prio = k.prio
      /\ owner[m] = c /\ lock_count[m] = 0
  BY <1>a, <1>b, <1>c, HandoverEffect
<1>2. /\ owner' = [owner EXCEPT ![m] = x]
      /\ \A t \in Threads \ {c, x} : k'.rv[t] = k.rv[t]
      /\ x # NoThread => /\ k'.rv[x] = "0"
                         /\ lock_count' = [lock_count EXCEPT ![m] = @ + 1]
                         /\ orig_prio' = [orig_prio EXCEPT ![m] = k.prio[x]]
      /\ x = NoThread => lock_count' = lock_count /\ orig_prio' = orig_prio
  BY <1>a, <1>b, <1>c, HandoverEffect
<1>3. /\ owner'[m] = x /\ \A n \in Mutexes \ {m} : /\ owner'[n] = owner[n]
                                                   /\ lock_count'[n] = lock_count[n]
                                                   /\ orig_prio'[n] = orig_prio[n]
      /\ x # NoThread => orig_prio'[m] = k.prio[x] /\ x \in Threads /\ x # c
      /\ x = NoThread => lock_count'[m] = 0
  BY <1>1, <1>2, MutexFacts
<1>4. /\ pc'[c].at = "idle" /\ \A t \in Threads \ {c} : pc'[t] = pc[t]
      /\ k'.wq = k.wq /\ k'.to = k.to
  BY <1>a, <1>1, MovesStays DEF Moves, Idling
<1>5. \A n \in Mutexes : Candidates(n)' = Candidates(n)
  BY <1>4 DEF Candidates, Waiters
<1>6. /\ k.prio[c] = InitPrio[c]
      /\ x # NoThread => \A u \in Candidates(m) : k.prio[x] <= k.prio[u]
  BY <1>b, <1>c, <1>1 DEF PInv, HandInv, HandingOver
<1>7. ASSUME x # NoThread, NEW n \in Mutexes PROVE owner[n] # x
  BY <1>1, <1>3, <1>7 DEF OneAtATime
<1>8. \A t \in Threads : pc'[t].at \notin {"adjust", "handover"}
  <2>1. \A t \in Threads \ {c} : pc[t].at \notin Inside
    BY <1>a, <1>1, CurFacts
  <2> QED BY <1>4, <2>1 DEF Inside
<1>9. SortInv'
  BY <1>1, <1>4 DEF PInv, SortInv, Sorted
<1>10. SingleInv'
  <2>1. \A n, l \in Mutexes : owner'[n] = owner'[l] /\ owner'[n] # NoThread => n = l
    BY <1>3, <1>7 DEF PInv, SingleInv
  <2>2. ASSUME NEW t \in Threads, pc'[t].at = "wait", owner'[pc'[t].m] = t
        PROVE  k'.rv[t] = "0"
    <3>1. t # c /\ pc'[t] = pc[t]
      BY <1>4, <2>2
    <3>2. pc[t].m \in Mutexes
      BY <2>2, <3>1 DEF MInv, MutexType, PcType
    <3>3. CASE t = x
      BY <1>2, <3>3, ThreadsAssumption
    <3>4. CASE t # x
      <4>1. owner[pc[t].m] = t
        BY <1>3, <2>2, <3>1, <3>2, <3>4
      <4> QED BY <1>2, <2>2, <3>1, <3>4, <4>1 DEF PInv, SingleInv
    <3> QED BY <3>3, <3>4
  <2> QED BY <2>1, <2>2 DEF SingleInv
<1>11. PriorityRestored'
  <2> SUFFICES ASSUME NEW t \in Threads, \A n \in Mutexes : owner'[n] # t, t # c
               PROVE  k.prio[t] = InitPrio[t]
    BY <1>1, <1>6 DEF PriorityRestored
  <2>1. \A n \in Mutexes : owner[n] # t
    BY <1>1, <1>3
  <2> QED BY <2>1 DEF PInv, PriorityRestored
<1>12. OrigInv'
  <2>1. x # NoThread => k.prio[x] = InitPrio[x]
    BY <1>3, <1>7 DEF PInv, PriorityRestored
  <2> QED BY <1>3, <2>1 DEF PInv, OrigInv
<1>13. RaisedInv'
  <2>1. ASSUME NEW n \in Mutexes, lock_count'[n] > 0
        PROVE  /\ Reaches(k.prio[owner'[n]], orig_prio'[n])
               /\ \A u \in Candidates(n) : Reaches(k.prio[owner'[n]], k.prio[u])
    <3>1. CASE n # m
      BY <1>3, <2>1, <3>1 DEF PInv, RaisedInv
    <3>2. CASE n = m
      <4>1. x # NoThread
        BY <1>3, <2>1, <3>2
      <4> QED BY <1>3, <1>6, <3>2, <4>1, PrioNumbers DEF Reaches
    <3> QED BY <3>1, <3>2
  <2> QED BY <1>1, <1>5, <2>1 DEF RaisedInv
<1>14. HandInv' /\ AdjustInv'
  BY <1>8 DEF HandInv, HandingOver, AdjustInv
<1> QED BY <1>9, <1>10, <1>11, <1>12, <1>13, <1>14 DEF PInv

\* every step
LEMMA PriorityNext ==
    ASSUME NewPrios = {}
    PROVE  MInv /\ PInv /\ OneAtATime /\ [Next]_vars => PInv'
<1> SUFFICES ASSUME MInv, PInv, OneAtATime, [Next]_vars PROVE PInv'
  OBVIOUS
<1>1. CASE Progress
  BY <1>1, PlainStays, LockFreePriorities, LockWaitPriorities, TimedOutPriorities,
     AdjustPriorities, ReleasePriorities, HandoverPriorities DEF Progress
<1>2. ASSUME NEW m \in Mutexes, NEW timeout \in Timeouts, k_mutex_lock(m, timeout)
      PROVE  PInv'
  BY <1>2, PlainStays
<1>3. CASE ThreadCalls /\ UNCHANGED mtxVars
  BY <1>3, CallsQuiet, OtherPriorities
<1>4. CASE (Clock \/ Device) /\ UNCHANGED mtxVars
  BY <1>4, InterruptsQuiet, OtherPriorities
<1>5. CASE UNCHANGED vars
  <2>1. k' = k /\ owner' = owner /\ lock_count' = lock_count /\ orig_prio' = orig_prio
        /\ pc' = pc
    BY <1>5 DEF vars
  <2>2. \A n \in Mutexes : Candidates(n)' = Candidates(n)
    BY <2>1 DEF Candidates
  <2> QED BY <2>1, <2>2, PrioritiesStay
<1> QED BY <1>1, <1>2, <1>3, <1>4, <1>5 DEF Next

\* at first every thread is at its own priority
LEMMA PriorityInit == Init => PInv
<1> SUFFICES ASSUME Init PROVE PInv
  OBVIOUS
<1>1. /\ owner = [m \in Mutexes |-> NoThread] /\ lock_count = [m \in Mutexes |-> 0]
      /\ pc = [t \in Threads |-> Idling] /\ Mutexes \subseteq WaitQs
  BY MutexAssumption DEF Init
<1>2. /\ k.wq = [w \in WaitQs |-> <<>>] /\ \A t \in Threads : k.prio[t] = InitPrio[t]
  BY DEF Init, SchedInit
<1>3. \A t \in Threads : pc[t].at = "idle"
  BY <1>1 DEF Idling
<1>4. SortInv
  BY <1>1, <1>2 DEF SortInv, Sorted
<1>5. SingleInv /\ OrigInv
  BY <1>1, <1>3 DEF SingleInv, OrigInv
<1>6. PriorityRestored /\ RaisedInv
  BY <1>1, <1>2 DEF PriorityRestored, RaisedInv
<1>7. HandInv /\ AdjustInv
  BY <1>3 DEF HandInv, HandingOver, AdjustInv
<1> QED BY <1>4, <1>5, <1>6, <1>7 DEF PInv

(***************************************************************************)
(* The inductive invariant of priority inheritance.                        *)
(***************************************************************************)
THEOREM PriorityInvariant ==
    ASSUME NewPrios = {}
    PROVE  Spec /\ []OneAtATime => []PInv
<1>1. MInv /\ PInv /\ OneAtATime /\ [Next]_vars => PInv'
  BY PriorityNext
<1> QED BY <1>1, PriorityInit, MutexInvariant, PTL DEF Spec

\* the threads that wait, as the properties put it
LEMMA WaitingAre ==
    ASSUME MInv, NEW m \in Mutexes, NEW t \in Threads, Waiting(t, m)
    PROVE  t \in Candidates(m)
<1>1. k.wq[m] \in Seq(Threads)
  BY MutexFacts DEF MInv, IInv, TypeOK, KernelType
<1> QED BY <1>1 DEF Waiting, Contains, Candidates, Waiters, ToSet

(***************************************************************************)
(* Priority inheritance works, whatever timeouts expire between the steps  *)
(* of a lock: the owner is as urgent as every thread that waits for the    *)
(* mutex, up to CONFIG_PRIORITY_CEILING.                                   *)
(***************************************************************************)
THEOREM InheritanceWorks ==
    ASSUME NewPrios = {}
    PROVE  Spec /\ []OneAtATime => []Inherited
<1>1. MInv /\ PInv => Inherited
  <2> SUFFICES ASSUME MInv, PInv, NEW m \in Mutexes, NEW t \in Threads,
                      lock_count[m] > 0, Waiting(t, m)
               PROVE  k.prio[owner[m]] <= new_prio_for_inheritance(k.prio[t], k.prio[t])
    BY DEF Inherited
  <2>1. Reaches(k.prio[owner[m]], k.prio[t])
    BY WaitingAre DEF PInv, RaisedInv
  <2>2. owner[m] \in Threads
    BY MutexFacts DEF MInv, OwnerInv
  <2>3. k.prio[owner[m]] \in Int /\ k.prio[t] \in Int /\ Ceiling \in Int
    BY <2>2, PrioNumbers
  <2> QED BY <2>1, <2>3 DEF Reaches, new_prio_for_inheritance, is_prio_higher,
                            is_under_prio_ceiling
<1> QED BY <1>1, PriorityInvariant, MutexInvariant, PTL

(***************************************************************************)
(* A thread that owns no mutex runs at its own priority again, whichever   *)
(* waiters came, timed out or were served while it had one.                *)
(***************************************************************************)
THEOREM PriorityComesBack ==
    ASSUME NewPrios = {}
    PROVE  Spec /\ []OneAtATime => []PriorityRestored
<1>1. PInv => PriorityRestored
  BY DEF PInv
<1> QED BY <1>1, PriorityInvariant, PTL

(***************************************************************************)
(* A waiter that gives up never costs the owner more than what the waiters *)
(* lent it: it stays as urgent as when it locked the mutex, up to          *)
(* CONFIG_PRIORITY_CEILING.                                                *)
(***************************************************************************)
THEOREM OwnerKeepsPriority ==
    ASSUME NewPrios = {}
    PROVE  Spec /\ []OneAtATime => []OwnerNeverDemoted
<1>1. MInv /\ PInv => OwnerNeverDemoted
  <2> SUFFICES ASSUME MInv, PInv, NEW m \in Mutexes, lock_count[m] > 0
               PROVE  k.prio[owner[m]] <= IF is_under_prio_ceiling(orig_prio[m])
                                          THEN orig_prio[m] ELSE Ceiling
    BY DEF OwnerNeverDemoted
  <2>1. Reaches(k.prio[owner[m]], orig_prio[m])
    BY DEF PInv, RaisedInv
  <2>2. owner[m] \in Threads
    BY MutexFacts DEF MInv, OwnerInv
  <2>3. k.prio[owner[m]] \in Int /\ orig_prio[m] \in Int /\ Ceiling \in Int
    BY <2>2, PrioNumbers
  <2> QED BY <2>1, <2>3 DEF Reaches, is_under_prio_ceiling
<1> QED BY <1>1, PriorityInvariant, MutexInvariant, PTL

(***************************************************************************)
(* The new owner is as urgent as every thread that goes on waiting, so the *)
(* hand-over need not raise it: the comment in k_mutex_unlock() is right.  *)
(***************************************************************************)
THEOREM MostUrgentServed ==
    ASSUME NewPrios = {}
    PROVE  Spec /\ []OneAtATime => NewOwnerMostUrgent
<1> DEFINE A == \A m \in Mutexes, t \in Threads :
         owner'[m] # owner[m] /\ owner'[m] # NoThread
         /\ Contains(k'.wq[m], t) /\ k'.to[t] # "EXPIRED"
         => k'.prio[owner'[m]] <= k'.prio[t]
<1>1. MInv /\ PInv /\ [Next]_vars => [A]_vars
  <2> SUFFICES ASSUME MInv, PInv, Next,
                      NEW m \in Mutexes, NEW t \in Threads,
                      owner'[m] # owner[m], owner'[m] # NoThread,
                      Contains(k'.wq[m], t), k'.to[t] # "EXPIRED"
               PROVE  k'.prio[owner'[m]] <= k'.prio[t]
    BY DEF vars
  <2>a. PICK c : c = cur
    OBVIOUS
  <2>b. PICK n : n = pc[c].m
    OBVIOUS
  <2>1. lock_free \/ unlock_handover
    BY DEF Next, Progress, k_mutex_lock, k_mutex_unlock, lock_busy, lock_wait, lock_got,
           lock_timed_out, lock_adjust, unlock_release, mtxVars, vars
  <2>2. ASSUME k'.wq = k.wq, k'.to = k.to PROVE t \in Candidates(m)
    BY <2>2, WaitingAre DEF Waiting
  <2>3. CASE lock_free
    <3>1. /\ \A l \in Mutexes \ {n} : owner'[l] = owner[l]
          /\ owner[n] = c \/ owner[n] = NoThread
          /\ owner'[n] = c
          /\ owner[n] = NoThread => Candidates(n) = {}
          /\ k'.wq = k.wq /\ k'.to = k.to
      BY <2>a, <2>b, <2>3, LockFreeEffect
    <3> QED BY <2>2, <3>1
  <2>4. CASE unlock_handover
    <3>a. PICK x : x = pc[c].arg
      OBVIOUS
    <3>1. /\ pc[c].at = "handover" /\ c \in Threads /\ n \in Mutexes
          /\ owner' = [owner EXCEPT ![n] = x] /\ Moves(c, Idling) /\ k'.prio = k.prio
      BY <2>a, <2>b, <2>4, <3>a, HandoverEffect
    <3>2. m = n /\ owner'[m] = x
      BY <3>1, MutexFacts
    <3>3. t \in Candidates(m)
      BY <2>2, <3>1 DEF Moves
    <3> QED BY <2>b, <3>a, <3>1, <3>2, <3>3 DEF PInv, HandInv, HandingOver
  <2> QED BY <2>1, <2>3, <2>4
<1> QED BY <1>1, PriorityInvariant, MutexInvariant, PTL DEF Spec, NewOwnerMostUrgent
=============================================================================
