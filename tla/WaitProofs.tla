----------------------------- MODULE WaitProofs -----------------------------
(***************************************************************************)
(* Lemmas about wait queues, for any kernel object: what pending, waking   *)
(* and timing out do to the lists of waiting threads, and what the thread  *)
(* API and the interrupts leave alone.  They continue SchedProofs, whose   *)
(* invariant the operations on wait queues preserve as well.               *)
(***************************************************************************)
EXTENDS SchedProofs, FiniteSetTheorems

(***************************************************************************)
(* sys_dlist_insert_at() of a thread that is not on the list.              *)
(***************************************************************************)
LEMMA ListInsert ==
    ASSUME NEW S, NEW s, IsList(s, S), NEW t \in Threads, t \notin S,
           NEW i \in 1..(Len(s) + 1)
    PROVE  IsList(InsertAt(s, i, t), S \cup {t})
<1> DEFINE r == InsertAt(s, i, t)
           n == Len(s)
<1>1. s \in Seq(Threads) /\ S = {s[x] : x \in DOMAIN s} /\ IsInjective(s)
  BY DEF IsList, ToSet
<1>2. n \in Nat /\ DOMAIN s = 1..n
  BY <1>1, LenProperties
<1>3. /\ r \in Seq(Threads) /\ Len(r) = n + 1
      /\ \A j \in 1..(n + 1) :
            r[j] = IF j < i THEN s[j] ELSE IF j = i THEN t ELSE s[j - 1]
  BY <1>1, InsertAtProps
<1> HIDE DEF r
<1>4. DOMAIN r = 1..(n + 1)
  BY <1>3, LenProperties
<1>5. \A x, y \in 1..n : s[x] = s[y] => x = y
  BY <1>1, <1>2 DEF IsInjective
<1>6. \A x \in 1..n : s[x] # t
  BY <1>1, <1>2
<1> HIDE DEF n
<1>7. i \in 1..(n + 1)
  BY DEF n
<1>8. ASSUME NEW j \in 1..(n + 1), j # i
      PROVE  \E x \in 1..n : r[j] = s[x] /\ x = IF j < i THEN j ELSE j - 1
  BY <1>2, <1>3, <1>7, <1>8
<1>9. IsInjective(r)
  <2> SUFFICES ASSUME NEW x \in 1..(n + 1), NEW y \in 1..(n + 1), r[x] = r[y]
               PROVE  x = y
    BY <1>4 DEF IsInjective
  <2>1. CASE x = i /\ y = i
    BY <2>1
  <2>2. CASE (x = i /\ y # i) \/ (x # i /\ y = i)
    <3>1. r[i] = t
      BY <1>3, <1>7
    <3> QED BY <1>6, <1>8, <2>2, <3>1
  <2>3. CASE x # i /\ y # i
    <3>1. PICK x1 \in 1..n : r[x] = s[x1] /\ x1 = IF x < i THEN x ELSE x - 1
      BY <1>8, <2>3
    <3>2. PICK y1 \in 1..n : r[y] = s[y1] /\ y1 = IF y < i THEN y ELSE y - 1
      BY <1>8, <2>3
    <3>3. x1 = y1
      BY <1>5, <3>1, <3>2
    <3> QED BY <1>2, <1>7, <2>3, <3>1, <3>2, <3>3
  <2> QED BY <2>1, <2>2, <2>3
<1>10. ToSet(r) = S \cup {t}
  <2>1. ASSUME NEW j \in 1..(n + 1) PROVE r[j] \in S \cup {t}
    <3>1. CASE j = i
      BY <1>3, <3>1
    <3>2. CASE j # i
      BY <1>1, <1>2, <1>8, <3>2
    <3> QED BY <3>1, <3>2
  <2>2. r[i] = t
    BY <1>3, <1>7
  <2>3. ASSUME NEW u \in S PROVE \E j \in 1..(n + 1) : r[j] = u
    <3>1. PICK x \in 1..n : s[x] = u
      BY <1>1, <1>2
    <3>2. CASE x < i
      BY <1>2, <1>3, <3>1, <3>2
    <3>3. CASE ~(x < i)
      <4>1. x + 1 \in 1..(n + 1) /\ ~(x + 1 < i) /\ x + 1 # i /\ (x + 1) - 1 = x
        BY <1>2, <1>7, <3>3
      <4>2. r[x + 1] = s[(x + 1) - 1]
        BY <1>3, <4>1
      <4> QED BY <3>1, <4>1, <4>2
    <3> QED BY <3>2, <3>3
  <2> QED BY <1>4, <1>7, <2>1, <2>2, <2>3 DEF ToSet
<1> QED BY <1>3, <1>9, <1>10 DEF IsList, r

(***************************************************************************)
(* sys_dlist_remove(), whether the thread is on the list or not.           *)
(***************************************************************************)
LEMMA ListWithout ==
    ASSUME NEW S, NEW s, IsList(s, S), NEW t
    PROVE  IsList(dlist_remove(s, t), S \ {t})
<1>1. CASE t \in S
  BY <1>1, ListRemove
<1>2. CASE t \notin S
  <2>1. s \in Seq(Threads) /\ S = {s[i] : i \in DOMAIN s}
    BY DEF IsList, ToSet
  <2>2. DOMAIN s = 1..Len(s)
    BY <2>1, LenProperties
  <2>3. dlist_remove(s, t) = s
    BY <1>2, <2>1, <2>2 DEF dlist_remove
  <2>4. S \ {t} = S
    BY <1>2
  <2> QED BY <2>3, <2>4
<1> QED BY <1>1, <1>2

(***************************************************************************)
(* The threads marked as waiting, those linked into wait queue w, and the  *)
(* agreement of the two: each waiting thread is linked once, into one      *)
(* queue.                                                                  *)
(***************************************************************************)
Pending(kk) == {t \in Threads : "PENDING" \in kk.state[t]}
Waiters(kk, w) == ToSet(kk.wq[w])
WaitsExact(kk) ==
    /\ \A w \in WaitQs : IsInjective(kk.wq[w])
    /\ \A w \in WaitQs : Waiters(kk, w) \in SUBSET Pending(kk)
    /\ \A t \in Pending(kk) : \E w \in WaitQs : t \in Waiters(kk, w)
    /\ \A v, w \in WaitQs : v # w => Waiters(kk, v) \cap Waiters(kk, w) = {}

(***************************************************************************)
(* It is a matter of the wait queues and of the flag PENDING only.         *)
(***************************************************************************)
LEMMA WaitsFrame ==
    ASSUME NEW kk, WaitsExact(kk), NEW k2, k2.wq = kk.wq,
           \A t \in Threads : "PENDING" \in k2.state[t] <=> "PENDING" \in kk.state[t]
    PROVE  /\ WaitsExact(k2)
           /\ Pending(k2) = Pending(kk)
           /\ \A w \in WaitQs : Waiters(k2, w) = Waiters(kk, w)
<1>1. Pending(k2) = Pending(kk)
  BY DEF Pending
<1>2. \A w \in WaitQs : Waiters(k2, w) = Waiters(kk, w)
  BY DEF Waiters
<1> QED BY <1>1, <1>2 DEF WaitsExact

\* a wait queue lists its waiters, each once
LEMMA WaitersList ==
    ASSUME NEW kk \in KernelType, WaitsExact(kk), NEW w \in WaitQs
    PROVE  IsList(kk.wq[w], Waiters(kk, w))
BY DEF WaitsExact, Waiters, IsList, KernelType

(***************************************************************************)
(* Where _pend_thread() links a thread.                                    *)
(***************************************************************************)
LEMMA PendPosition ==
    ASSUME NEW kk \in KernelType, NEW t \in Threads, NEW w \in WaitQs
    PROVE  LET n == pend_position(kk, t, w)
               s == kk.wq[w]
           IN  /\ n \in 1..(Len(s) + 1)
               /\ \A i \in 1..Len(s) : i < n => ~(kk.prio[t] < kk.prio[s[i]])
               /\ n <= Len(s) => kk.prio[t] < kk.prio[s[n]]
<1> DEFINE s == kk.wq[w]
           lower == {i \in 1..Len(s) : kk.prio[t] < kk.prio[s[i]]}
           n == pend_position(kk, t, w)
<1>1. s \in Seq(Threads)
  BY DEF KernelType
<1>2. Len(s) \in Nat
  BY <1>1, LenProperties
<1>3. n = IF lower = {} THEN Len(s) + 1 ELSE Min(lower)
  BY DEF pend_position, is_prio_higher
<1> HIDE DEF n, s
<1>4. CASE lower = {}
  BY <1>2, <1>3, <1>4 DEF n, s
<1>5. CASE lower # {}
  <2>1. lower \in SUBSET Nat
    OBVIOUS
  <2>2. Min(lower) \in lower /\ \A i \in lower : Min(lower) <= i
    BY <1>5, <2>1, MinNat
  <2>3. n \in lower /\ \A i \in lower : n <= i
    BY <1>3, <1>5, <2>2
  <2>4. \A i \in 1..Len(s) : i < n => ~(kk.prio[t] < kk.prio[s[i]])
    BY <1>2, <2>3
  <2> QED BY <1>2, <2>3, <2>4 DEF n, s
<1> QED BY <1>4, <1>5

(***************************************************************************)
(* _pend_thread() up to the timeout: the thread is linked into w and       *)
(* marked.                                                                 *)
(***************************************************************************)
Linked(kk, t, w) ==
    [kk EXCEPT !.wq[w] = InsertAt(@, pend_position(kk, t, w), t),
               !.state[t] = @ \cup {"PENDING"}]

\* what that changes, and that nothing else does
LEMMA LinkedEffect ==
    ASSUME NEW kk \in KernelType, NEW t \in Threads, NEW w \in WaitQs,
           NEW k2, k2 = Linked(kk, t, w)
    PROVE  /\ k2 \in KernelType
           /\ k2.q = kk.q /\ k2.bmap = kk.bmap /\ k2.cache = kk.cache
           /\ k2.current = kk.current /\ k2.prio = kk.prio
           /\ k2.locked = kk.locked /\ k2.rv = kk.rv /\ k2.to = kk.to
           /\ k2.handling = kk.handling /\ k2.elapsed = kk.elapsed
           /\ k2.state[t] = kk.state[t] \cup {"PENDING"}
           /\ \A u \in Threads \ {t} : k2.state[u] = kk.state[u]
           /\ k2.wq[w] = InsertAt(kk.wq[w], pend_position(kk, t, w), t)
           /\ \A v \in WaitQs \ {w} : k2.wq[v] = kk.wq[v]
<1> DEFINE ins == InsertAt(kk.wq[w], pend_position(kk, t, w), t)
<1>1. ins \in Seq(Threads)
  <2>1. kk.wq[w] \in Seq(Threads) /\ pend_position(kk, t, w) \in 1..(Len(kk.wq[w]) + 1)
    BY PendPosition DEF KernelType
  <2> QED BY <2>1, InsertAtProps
<1> DEFINE W  == [kk.wq EXCEPT ![w] = ins]
           st == [kk.state EXCEPT ![t] = @ \cup {"PENDING"}]
<1>2. k2 = [kk EXCEPT !.wq = W, !.state = st]
  BY DEF Linked
<1> HIDE DEF ins
<1>3. /\ W \in [WaitQs -> Seq(Threads)] /\ st \in [Threads -> SUBSET StateFlags]
      /\ W[w] = ins /\ \A v \in WaitQs \ {w} : W[v] = kk.wq[v]
      /\ st[t] = kk.state[t] \cup {"PENDING"}
      /\ \A u \in Threads \ {t} : st[u] = kk.state[u]
  BY <1>1 DEF KernelType, StateFlags
<1> HIDE DEF W, st
<1>4. /\ k2 \in KernelType
      /\ k2.q = kk.q /\ k2.bmap = kk.bmap /\ k2.cache = kk.cache
      /\ k2.current = kk.current /\ k2.prio = kk.prio
      /\ k2.locked = kk.locked /\ k2.rv = kk.rv /\ k2.to = kk.to
      /\ k2.handling = kk.handling /\ k2.elapsed = kk.elapsed
      /\ k2.state = st /\ k2.wq = W
  BY <1>2, <1>3 DEF KernelType
<1> QED BY <1>3, <1>4 DEF ins

(***************************************************************************)
(* Linking a thread that waits for nothing.                                *)
(***************************************************************************)
LEMMA WaitsPended ==
    ASSUME NEW kk \in KernelType, WaitsExact(kk), NEW t \in Threads,
           t \notin Pending(kk), NEW w \in WaitQs,
           NEW k2, k2 = Linked(kk, t, w)
    PROVE  /\ WaitsExact(k2)
           /\ Pending(k2) = Pending(kk) \cup {t}
           /\ Waiters(k2, w) = Waiters(kk, w) \cup {t}
           /\ \A v \in WaitQs \ {w} : k2.wq[v] = kk.wq[v]
<1> DEFINE ins == InsertAt(kk.wq[w], pend_position(kk, t, w), t)
<1>1. /\ kk.wq \in [WaitQs -> Seq(Threads)]
      /\ kk.state \in [Threads -> SUBSET StateFlags]
  BY DEF KernelType
<1>2. k2.wq[w] = ins /\ \A v \in WaitQs \ {w} : k2.wq[v] = kk.wq[v]
  BY LinkedEffect
<1>3. Pending(k2) = Pending(kk) \cup {t}
  <2>1. /\ k2.state[t] = kk.state[t] \cup {"PENDING"}
        /\ \A u \in Threads \ {t} : k2.state[u] = kk.state[u]
    BY LinkedEffect
  <2> QED BY <1>1, <2>1 DEF Pending
<1>4. t \notin Waiters(kk, w) /\ \A v \in WaitQs : t \notin Waiters(kk, v)
  BY DEF WaitsExact
<1>5. IsList(ins, Waiters(kk, w) \cup {t})
  <2>1. pend_position(kk, t, w) \in 1..(Len(kk.wq[w]) + 1)
    BY PendPosition
  <2> QED BY <1>4, <2>1, WaitersList, ListInsert
<1> HIDE DEF ins
<1>6. Waiters(k2, w) = Waiters(kk, w) \cup {t} /\ IsInjective(k2.wq[w])
  BY <1>2, <1>5 DEF IsList, Waiters
<1>7. \A v \in WaitQs \ {w} : Waiters(k2, v) = Waiters(kk, v) /\ IsInjective(k2.wq[v])
  BY <1>2 DEF Waiters, WaitsExact
<1>8. ASSUME NEW v \in WaitQs, NEW u \in WaitQs, v # u
      PROVE  Waiters(k2, v) \cap Waiters(k2, u) = {}
  <2>1. Waiters(kk, v) \cap Waiters(kk, u) = {}
    BY <1>8 DEF WaitsExact
  <2> QED BY <1>4, <1>6, <1>7, <1>8, <2>1
<1>9. \A v \in WaitQs : Waiters(k2, v) \in SUBSET Pending(k2)
  <2>1. \A v \in WaitQs : Waiters(kk, v) \in SUBSET Pending(kk)
    BY DEF WaitsExact
  <2> QED BY <1>3, <1>6, <1>7, <2>1
<1>10. \A u \in Pending(k2) : \E v \in WaitQs : u \in Waiters(k2, v)
  <2>1. \A u \in Pending(kk) : \E v \in WaitQs : u \in Waiters(kk, v)
    BY DEF WaitsExact
  <2> QED BY <1>3, <1>6, <1>7, <2>1
<1> QED BY <1>2, <1>3, <1>6, <1>7, <1>8, <1>9, <1>10 DEF WaitsExact

(***************************************************************************)
(* _unpend_thread(): off whatever wait queue it is on, and unmarked.       *)
(***************************************************************************)
LEMMA UnpendEffect ==
    ASSUME NEW kk \in KernelType, NEW t \in Threads,
           NEW k2, k2 = unpend_thread(kk, t)
    PROVE  /\ k2 \in KernelType
           /\ k2.q = kk.q /\ k2.bmap = kk.bmap /\ k2.cache = kk.cache
           /\ k2.current = kk.current /\ k2.prio = kk.prio
           /\ k2.locked = kk.locked /\ k2.rv = kk.rv /\ k2.to = kk.to
           /\ k2.handling = kk.handling /\ k2.elapsed = kk.elapsed
           /\ k2.state[t] = kk.state[t] \ {"PENDING"}
           /\ \A u \in Threads \ {t} : k2.state[u] = kk.state[u]
           /\ \A w \in WaitQs : k2.wq[w] = dlist_remove(kk.wq[w], t)
<1> DEFINE W == [w \in WaitQs |-> dlist_remove(kk.wq[w], t)]
           st == [kk.state EXCEPT ![t] = @ \ {"PENDING"}]
<1>1. W \in [WaitQs -> Seq(Threads)]
  <2> SUFFICES ASSUME NEW w \in WaitQs PROVE dlist_remove(kk.wq[w], t) \in Seq(Threads)
    OBVIOUS
  <2>1. kk.wq[w] \in Seq(Threads)
    BY DEF KernelType
  <2> QED BY <2>1, RemoveType
<1>2. k2 = [kk EXCEPT !.wq = W, !.state = st]
  BY DEF unpend_thread
<1>3. /\ st \in [Threads -> SUBSET StateFlags]
      /\ st[t] = kk.state[t] \ {"PENDING"}
      /\ \A u \in Threads \ {t} : st[u] = kk.state[u]
  BY DEF KernelType
<1>4. \A w \in WaitQs : W[w] = dlist_remove(kk.wq[w], t)
  OBVIOUS
<1> HIDE DEF W, st
<1>5. /\ k2 \in KernelType
      /\ k2.q = kk.q /\ k2.bmap = kk.bmap /\ k2.cache = kk.cache
      /\ k2.current = kk.current /\ k2.prio = kk.prio
      /\ k2.locked = kk.locked /\ k2.rv = kk.rv /\ k2.to = kk.to
      /\ k2.handling = kk.handling /\ k2.elapsed = kk.elapsed
      /\ k2.state = st /\ k2.wq = W
  BY <1>1, <1>2, <1>3 DEF KernelType
<1> QED BY <1>3, <1>4, <1>5

(***************************************************************************)
(* The agreement of flags and queues survives it.                          *)
(***************************************************************************)
LEMMA WaitsUnpended ==
    ASSUME NEW kk \in KernelType, WaitsExact(kk), NEW t \in Threads,
           NEW k2, k2 = unpend_thread(kk, t)
    PROVE  /\ WaitsExact(k2)
           /\ Pending(k2) = Pending(kk) \ {t}
           /\ \A w \in WaitQs : Waiters(k2, w) = Waiters(kk, w) \ {t}
<1>1. Pending(k2) = Pending(kk) \ {t}
  <2>1. /\ k2.state[t] = kk.state[t] \ {"PENDING"}
        /\ \A u \in Threads \ {t} : k2.state[u] = kk.state[u]
    BY UnpendEffect
  <2> QED BY <2>1 DEF Pending
<1>2. ASSUME NEW w \in WaitQs
      PROVE  IsList(k2.wq[w], Waiters(kk, w) \ {t})
  <2>1. k2.wq[w] = dlist_remove(kk.wq[w], t)
    BY UnpendEffect
  <2>2. IsList(kk.wq[w], Waiters(kk, w))
    BY WaitersList
  <2> QED BY <2>1, <2>2, ListWithout
<1>3. \A w \in WaitQs : /\ Waiters(k2, w) = Waiters(kk, w) \ {t}
                        /\ IsInjective(k2.wq[w])
  BY <1>2 DEF IsList, Waiters
<1>4. /\ \A w \in WaitQs : Waiters(kk, w) \in SUBSET Pending(kk)
      /\ \A u \in Pending(kk) : \E w \in WaitQs : u \in Waiters(kk, w)
      /\ \A v, w \in WaitQs : v # w => Waiters(kk, v) \cap Waiters(kk, w) = {}
  BY DEF WaitsExact
<1>5. \A w \in WaitQs : Waiters(k2, w) \in SUBSET Pending(k2)
  BY <1>1, <1>3, <1>4
<1>6. \A u \in Pending(k2) : \E w \in WaitQs : u \in Waiters(k2, w)
  BY <1>1, <1>3, <1>4
<1>7. \A v, w \in WaitQs : v # w => Waiters(k2, v) \cap Waiters(k2, w) = {}
  BY <1>3, <1>4
<1> QED BY <1>1, <1>3, <1>5, <1>6, <1>7 DEF WaitsExact

(***************************************************************************)
(* The waiters the clock interrupt has already found expired, and the      *)
(* thread _find_first_thread_to_unpend() picks: the first of the others.   *)
(***************************************************************************)
TimedOut(kk, t) == kk.handling /\ kk.to[t] = "EXPIRED"

\* it finds one whenever there is one
LEMMA FirstWaiter ==
    ASSUME NEW kk \in KernelType, NEW w \in WaitQs,
           NEW t, t = find_first_thread_to_unpend(kk, w)
    PROVE  /\ t = NoThread => \A u \in Waiters(kk, w) : TimedOut(kk, u)
           /\ t # NoThread =>
                \E n \in 1..Len(kk.wq[w]) :
                    /\ kk.wq[w][n] = t /\ ~TimedOut(kk, t)
                    /\ t \in Waiters(kk, w) /\ t \in Threads
                    /\ \A i \in 1..Len(kk.wq[w]) :
                          ~TimedOut(kk, kk.wq[w][i]) => n <= i
<1> DEFINE s == kk.wq[w]
           E == {i \in 1..Len(s) : ~TimedOut(kk, s[i])}
<1>1. s \in Seq(Threads)
  BY DEF KernelType
<1>2. Len(s) \in Nat /\ DOMAIN s = 1..Len(s) /\ \A i \in 1..Len(s) : s[i] \in Threads
  BY <1>1, LenProperties, ElementOfSeq
<1>3. t = IF E = {} THEN NoThread ELSE s[Min(E)]
  BY DEF find_first_thread_to_unpend, TimedOut
<1>4. Waiters(kk, w) = {s[i] : i \in 1..Len(s)}
  BY <1>2 DEF Waiters, ToSet
<1>5. CASE E = {}
  <2>1. \A u \in Waiters(kk, w) : TimedOut(kk, u)
    BY <1>4, <1>5
  <2>2. t = NoThread
    BY <1>3, <1>5
  <2> QED BY <2>1, <2>2
<1>6. CASE E # {}
  <2>1. E \in SUBSET Nat
    OBVIOUS
  <2>2. Min(E) \in E /\ \A i \in E : Min(E) <= i
    BY <1>6, <2>1, MinNat
  <2>3. PICK n \in E : t = s[n] /\ \A i \in E : n <= i
    BY <1>3, <1>6, <2>2
  <2>4. t \in Threads /\ t # NoThread
    BY <1>2, <2>3, ThreadsAssumption
  <2>5. t \in Waiters(kk, w) /\ ~TimedOut(kk, t) /\ n \in 1..Len(s)
    BY <1>4, <2>3
  <2>6. \A i \in 1..Len(s) : ~TimedOut(kk, s[i]) => n <= i
    BY <2>3
  <2> QED BY <2>3, <2>4, <2>5, <2>6
<1> QED BY <1>5, <1>6

(***************************************************************************)
(* The ready queue operations touch the ready queue only.                  *)
(***************************************************************************)
LEMMA QueueOpsSame ==
    ASSUME NEW kk \in KernelType, NEW t \in Threads
    PROVE  /\ SameThreads(kk, add_thread_to_ready_q(kk, t))
           /\ SameThreads(kk, remove_thread_from_ready_q(kk, t))
           /\ SameThreads(kk, move_thread_to_end_of_prio_q(kk, t))
<1>1. SameThreads(kk, add_thread_to_ready_q(kk, t))
  BY DEF add_thread_to_ready_q, SameThreads, KernelType
<1>2. SameThreads(kk, remove_thread_from_ready_q(kk, t))
  BY DEF remove_thread_from_ready_q, SameThreads, KernelType
<1>3. SameThreads(kk, move_thread_to_end_of_prio_q(kk, t))
  BY DEF move_thread_to_end_of_prio_q, SameThreads, KernelType
<1> QED BY <1>1, <1>2, <1>3

(***************************************************************************)
(* A context switch, or none: of the threads only the return value of the  *)
(* one that was running may change, to -EAGAIN.                            *)
(***************************************************************************)
Switched(kk, k2) ==
    /\ k2.prio = kk.prio /\ k2.state = kk.state /\ k2.locked = kk.locked
    /\ k2.to = kk.to /\ k2.wq = kk.wq /\ k2.handling = kk.handling
    /\ \A t \in Threads : \/ k2.rv[t] = kk.rv[t]
                          \/ t = kk.current /\ k2.rv[t] = "EAGAIN"

\* _Swap() is no more than that
LEMMA SwapSwitched ==
    ASSUME NEW kk \in KernelType
    PROVE  Switched(kk, swap(kk)) /\ swap(kk).rv[kk.current] = "EAGAIN"
BY DEF swap, Switched, KernelType

\* nor is _reschedule_threads()
LEMMA RescheduleSwitched ==
    ASSUME NEW kk \in KernelType
    PROVE  Switched(kk, reschedule_threads(kk))
<1>1. CASE must_switch_threads(kk)
  BY <1>1, SwapSwitched DEF reschedule_threads
<1>2. CASE ~must_switch_threads(kk)
  BY <1>2 DEF reschedule_threads, Switched
<1> QED BY <1>1, <1>2

\* nor the return from an interrupt, which on ARM spares the return value
LEMMA IsrExitSwitched ==
    ASSUME NEW kk \in KernelType
    PROVE  /\ Switched(kk, isr_exit_swap(kk))
           /\ Port = "arm" => isr_exit_swap(kk).rv = kk.rv
BY DEF isr_exit_swap, Switched, KernelType

(***************************************************************************)
(* _ready_thread() starts a thread that had not started and otherwise      *)
(* touches the ready queue only.                                           *)
(***************************************************************************)
LEMMA ReadyThreadEffect ==
    ASSUME NEW kk \in KernelType, NEW t \in Threads,
           NEW k2, k2 = ready_thread(kk, t)
    PROVE  /\ k2.current = kk.current /\ k2.prio = kk.prio
           /\ k2.locked = kk.locked /\ k2.to = kk.to /\ k2.wq = kk.wq
           /\ k2.rv = kk.rv /\ k2.handling = kk.handling
           /\ k2.state[t] = kk.state[t] \ {"PRESTART"}
           /\ \A u \in Threads \ {t} : k2.state[u] = kk.state[u]
<1> DEFINE k1 == [kk EXCEPT !.state[t] = @ \ {"PRESTART"}]
<1>1. k2 = IF is_thread_ready(k1, t) THEN add_thread_to_ready_q(k1, t) ELSE k1
  BY DEF ready_thread
<1>2. /\ k1 \in KernelType
      /\ k1.current = kk.current /\ k1.prio = kk.prio
      /\ k1.locked = kk.locked /\ k1.to = kk.to /\ k1.wq = kk.wq
      /\ k1.rv = kk.rv /\ k1.handling = kk.handling
      /\ k1.state[t] = kk.state[t] \ {"PRESTART"}
      /\ \A u \in Threads \ {t} : k1.state[u] = kk.state[u]
  BY DEF KernelType
<1> HIDE DEF k1
<1>3. SameThreads(k1, k2) \/ k2 = k1
  BY <1>1, <1>2, QueueOpsSame
<1> QED BY <1>2, <1>3 DEF SameThreads

(***************************************************************************)
(* What the calls of the running thread that wait for nothing do to the    *)
(* others: no thread starts or stops waiting, and no waiter's timeout or   *)
(* return value changes.  (Calm calls leave _handling_timeouts alone, too; *)
(* the clock interrupt does not.)                                          *)
(***************************************************************************)
Undisturbed(kk, k2) ==
    /\ k2.wq = kk.wq
    /\ NewPrios = {} => k2.prio = kk.prio
    /\ \A t \in Threads :
          /\ "PENDING" \in k2.state[t] <=> "PENDING" \in kk.state[t]
          /\ "DEAD" \in k2.state[t] <=> "DEAD" \in kk.state[t]
          /\ \/ k2.to[t] = kk.to[t]
             \/ "PENDING" \notin kk.state[t] /\ k2.to[t] = "INACTIVE"
             \/ t = kk.current /\ k2.to[t] = "ACTIVE"
          /\ \/ k2.rv[t] = kk.rv[t]
             \/ t = kk.current /\ k2.rv[t] = "EAGAIN"
Calm(kk, k2) == k2.handling = kk.handling /\ Undisturbed(kk, k2)

(***************************************************************************)
(* ... and what aborting thread x does.                                    *)
(***************************************************************************)
Aborted(kk, k2, x) ==
    /\ k2.handling = kk.handling /\ k2.prio = kk.prio
    /\ \A w \in WaitQs : k2.wq[w] = kk.wq[w] \/ k2.wq[w] = dlist_remove(kk.wq[w], x)
    /\ WaitsExact(k2) /\ Pending(k2) = Pending(kk) \ {x}
    /\ \A w \in WaitQs : Waiters(k2, w) = Waiters(kk, w) \ {x}
    /\ "DEAD" \in k2.state[x] /\ k2.to[x] = "INACTIVE"
    /\ \A t \in Threads \ {x} : k2.state[t] = kk.state[t] /\ k2.to[t] = kk.to[t]
    /\ \A t \in Threads : \/ k2.rv[t] = kk.rv[t]
                          \/ t = kk.current /\ k2.rv[t] = "EAGAIN"

(***************************************************************************)
(* A switch of threads at the end of a call makes no difference.           *)
(***************************************************************************)
LEMMA CalmSwitched ==
    ASSUME NEW kk, NEW k1, NEW k2, Calm(kk, k1), k1.current = kk.current,
           k2 = k1 \/ Switched(k1, k2)
    PROVE  Calm(kk, k2)
BY DEF Calm, Undisturbed, Switched

\* nor after the abort of a thread
LEMMA AbortedSwitched ==
    ASSUME NEW kk, NEW x \in Threads, NEW k1, NEW k2, Aborted(kk, k1, x),
           k1.current = kk.current, Switched(k1, k2)
    PROVE  Aborted(kk, k2, x)
<1>1. /\ WaitsExact(k2) /\ Pending(k2) = Pending(k1)
      /\ \A w \in WaitQs : Waiters(k2, w) = Waiters(k1, w)
  BY WaitsFrame DEF Aborted, Switched
<1> QED BY <1>1 DEF Aborted, Switched

\* k_sleep()
LEMMA SleepCalm == IInv /\ k_sleep => Calm(k, k')
<1> SUFFICES ASSUME IInv, k_sleep PROVE Calm(k, k')
  OBVIOUS
<1> DEFINE c  == k.current
           k1 == remove_thread_from_ready_q(k, c)
           k2 == [k1 EXCEPT !.to[c] = "ACTIVE"]
<1>1. InThread /\ k' = swap(k2)
  BY DEF k_sleep, add_thread_timeout, Call
<1>2. k \in KernelType /\ c \in Threads \ {Idle} /\ Good(k) /\ is_thread_ready(k, c)
  BY <1>1, InThreadFacts
<1>3. SameThreads(k, k1) /\ k1 \in KernelType
  BY <1>2, OffRemoved DEF Off, Holds
<1> HIDE DEF k1
<1>4. c \in AllTimeouts /\ "ACTIVE" \in TimeoutStates
  BY <1>2 DEF AllTimeouts, TimeoutStates
<1>5. /\ k2 \in KernelType
      /\ k2.current = k1.current /\ k2.prio = k1.prio
      /\ k2.rv = k1.rv /\ k2.wq = k1.wq
      /\ k2.handling = k1.handling /\ k2.state = k1.state
      /\ k2.to[c] = "ACTIVE" /\ \A u \in AllTimeouts \ {c} : k2.to[u] = k1.to[u]
  BY <1>3, <1>4 DEF KernelType
<1> HIDE DEF k2
<1>6. Calm(k, k2) /\ k2.current = k.current
  BY <1>3, <1>5 DEF Calm, Undisturbed, SameThreads, AllTimeouts
<1> QED BY <1>1, <1>5, <1>6, SwapSwitched, CalmSwitched

\* k_sched_lock()
LEMMA LockCalm == IInv /\ k_sched_lock => Calm(k, k')
<1> SUFFICES ASSUME IInv, k_sched_lock PROVE Calm(k, k')
  OBVIOUS
<1>1. InThread /\ k' = [k EXCEPT !.locked[k.current] = @ + 1] /\ k \in KernelType
  BY InThreadFacts DEF k_sched_lock, sched_lock, Call
<1> QED BY <1>1 DEF KernelType, Calm, Undisturbed

\* k_sched_unlock()
LEMMA UnlockCalm == IInv /\ k_sched_unlock => Calm(k, k')
<1> SUFFICES ASSUME IInv, k_sched_unlock PROVE Calm(k, k')
  OBVIOUS
<1> DEFINE n  == k.locked[k.current] - 1
           k1 == [k EXCEPT !.locked[k.current] = n]
<1>1. InThread /\ k' = reschedule_threads(k1) /\ k \in KernelType
      /\ k.locked[k.current] > 0
  BY InThreadFacts DEF k_sched_unlock, sched_unlock_no_reschedule, Call
<1>2. n \in Nat
  BY <1>1 DEF KernelType
<1> HIDE DEF n
<1>3. k1 \in KernelType /\ Calm(k, k1) /\ k1.current = k.current
  BY <1>1, <1>2 DEF KernelType, Calm, Undisturbed
<1> HIDE DEF k1
<1> QED BY <1>1, <1>3, RescheduleSwitched, CalmSwitched

\* one flag other than PENDING and DEAD set or reset, and then perhaps the
\* ready queue changed
LEMMA FlagCalm ==
    ASSUME NEW kk \in KernelType, NEW t \in Threads,
           NEW st \in SUBSET StateFlags,
           "PENDING" \in st <=> "PENDING" \in kk.state[t],
           "DEAD" \in st <=> "DEAD" \in kk.state[t],
           NEW k1, k1 = [kk EXCEPT !.state[t] = st],
           NEW k2, k2 = k1 \/ SameThreads(k1, k2)
    PROVE  Calm(kk, k2) /\ k2.current = kk.current
<1>1. /\ k1.current = kk.current /\ k1.prio = kk.prio /\ k1.to = kk.to
      /\ k1.wq = kk.wq /\ k1.rv = kk.rv /\ k1.handling = kk.handling
      /\ k1.state[t] = st
      /\ \A u \in Threads \ {t} : k1.state[u] = kk.state[u]
  BY DEF KernelType
<1>2. Calm(kk, k1)
  BY <1>1 DEF Calm, Undisturbed
<1> QED BY <1>1, <1>2 DEF Calm, Undisturbed, SameThreads

\* k_thread_start()
LEMMA StartCalm ==
    ASSUME NEW t \in Apps PROVE IInv /\ k_thread_start(t) => Calm(k, k')
<1> SUFFICES ASSUME IInv, k_thread_start(t) PROVE Calm(k, k')
  OBVIOUS
<1> DEFINE st == k.state[t] \ {"PRESTART"}
           k1 == [k EXCEPT !.state[t] = st]
           k2 == add_thread_to_ready_q(k1, t)
<1>1. InThread /\ k' = start(k, t) /\ k \in KernelType /\ t \in Threads
  BY InThreadFacts DEF k_thread_start, Call, Apps
<1>2. CASE "PRESTART" \notin k.state[t]
  <2>1. k' = k
    BY <1>1, <1>2 DEF start
  <2> QED BY <2>1 DEF Calm, Undisturbed
<1>3. CASE "PRESTART" \in k.state[t]
  <2>1. k' = IF is_thread_ready(k1, t) THEN reschedule_threads(k2) ELSE k1
    BY <1>1, <1>3 DEF start
  <2>2. /\ st \in SUBSET StateFlags
        /\ "PENDING" \in st <=> "PENDING" \in k.state[t]
        /\ "DEAD" \in st <=> "DEAD" \in k.state[t]
    BY <1>1 DEF KernelType
  <2> HIDE DEF st
  <2>3. k1 \in KernelType
    BY <1>1, <2>2 DEF KernelType
  <2>4. Calm(k, k1) /\ k1.current = k.current
    BY <1>1, <2>2, FlagCalm
  <2>5. SameThreads(k1, k2)
    BY <1>1, <2>3, QueueOpsSame
  <2>6. Calm(k, k2) /\ k2.current = k.current
    BY <2>4, <2>5 DEF Calm, Undisturbed, SameThreads
  <2>7. ASSUME is_thread_ready(k1, t) PROVE k2 \in KernelType
    <3>1. ~is_thread_ready(k, t) /\ t \in Threads \ {Idle} /\ Live(k)
      BY <1>1, <1>3, InThreadFacts DEF is_thread_ready, Apps
    <3>2. /\ k1.q = k.q /\ k1.bmap = k.bmap /\ k1.cache = k.cache
          /\ \A u \in Threads \ {t} : /\ k1.prio[u] = k.prio[u]
                                      /\ k1.state[u] = k.state[u]
                                      /\ k1.to[u] = k.to[u]
      BY <1>1 DEF KernelType
    <3> HIDE DEF k1
    <3>3. Off(k1, t)
      BY <2>3, <3>1, <3>2, OffUnready, OffFrame DEF Live
    <3> QED BY <2>7, <3>3, GoodAdded DEF Good, Holds
  <2> HIDE DEF k1, k2
  <2> QED BY <2>1, <2>4, <2>6, <2>7, RescheduleSwitched, CalmSwitched
<1> QED BY <1>2, <1>3

\* k_wakeup() of a thread that is not pending
LEMMA WakeupEffect ==
    ASSUME NEW kk \in KernelType, NEW t \in Threads, "PENDING" \notin kk.state[t]
    PROVE  /\ Calm(kk, wakeup(kk, t)) /\ wakeup(kk, t).current = kk.current
           /\ wakeup(kk, t).rv = kk.rv
           /\ \A u \in Threads : wakeup(kk, t).to[u] \in {kk.to[u], "INACTIVE"}
<1> DEFINE k1 == [kk EXCEPT !.to[t] = "INACTIVE"]
           k2 == ready_thread(k1, t)
<1>1. wakeup(kk, t) = k2
  BY DEF wakeup, abort_thread_timeout
<1>2. /\ k1 \in KernelType
      /\ k1.current = kk.current /\ k1.prio = kk.prio
      /\ k1.rv = kk.rv /\ k1.wq = kk.wq
      /\ k1.handling = kk.handling /\ k1.state = kk.state
      /\ k1.to[t] = "INACTIVE" /\ \A u \in Threads \ {t} : k1.to[u] = kk.to[u]
  BY DEF KernelType, AllTimeouts, TimeoutStates
<1> HIDE DEF k1
<1>3. /\ k2.current = k1.current /\ k2.prio = k1.prio
      /\ k2.to = k1.to /\ k2.wq = k1.wq
      /\ k2.rv = k1.rv /\ k2.handling = k1.handling
      /\ k2.state[t] = k1.state[t] \ {"PRESTART"}
      /\ \A u \in Threads \ {t} : k2.state[u] = k1.state[u]
  BY <1>2, ReadyThreadEffect
<1> HIDE DEF k2
<1> QED BY <1>1, <1>2, <1>3 DEF Calm, Undisturbed

\* k_wakeup() of a sleeping thread
LEMMA WakeupCalm ==
    ASSUME NEW t \in Apps PROVE IInv /\ k_wakeup(t) => Calm(k, k')
<1> SUFFICES ASSUME IInv, k_wakeup(t) PROVE Calm(k, k')
  OBVIOUS
<1> DEFINE k1 == wakeup(k, t)
<1>1. /\ InThread /\ k' = reschedule_threads(k1) /\ "PENDING" \notin k.state[t]
      /\ is_thread_timeout_active(k, t) /\ t \in Threads \ {Idle}
  BY DEF k_wakeup, Call, Apps
<1>2. k \in KernelType /\ Live(k)
  BY <1>1, InThreadFacts
<1>3. Calm(k, k1) /\ k1.current = k.current
  BY <1>1, <1>2, WakeupEffect
<1>4. k1 \in KernelType
  BY <1>1, <1>2, WakeupLive DEF Live, Good, Holds
<1> HIDE DEF k1
<1> QED BY <1>1, <1>3, <1>4, RescheduleSwitched, CalmSwitched

\* k_thread_suspend()
LEMMA SuspendCalm ==
    ASSUME NEW t \in Apps PROVE IInv /\ k_thread_suspend(t) => Calm(k, k')
<1> SUFFICES ASSUME IInv, k_thread_suspend(t) PROVE Calm(k, k')
  OBVIOUS
<1> DEFINE k1 == IF is_thread_ready(k, t) THEN remove_thread_from_ready_q(k, t) ELSE k
           k2 == [k1 EXCEPT !.state[t] = @ \cup {"SUSPENDED"}]
<1>1. /\ InThread /\ t \in Threads \ {Idle}
      /\ k' = IF t = k.current THEN swap(k2) ELSE k2
  BY DEF k_thread_suspend, Call, Apps
<1>2. k \in KernelType /\ Good(k)
  BY <1>1, InThreadFacts
<1>3. k1 \in KernelType /\ SameThreads(k, k1)
  <2>1. CASE is_thread_ready(k, t)
    BY <1>1, <1>2, <2>1, OffRemoved DEF Off, Holds
  <2>2. CASE ~is_thread_ready(k, t)
    BY <1>2, <2>2 DEF SameThreads
  <2> QED BY <2>1, <2>2
<1> HIDE DEF k1
<1> DEFINE st == k1.state[t] \cup {"SUSPENDED"}
<1>4. /\ st \in SUBSET StateFlags
      /\ "PENDING" \in st <=> "PENDING" \in k1.state[t]
      /\ "DEAD" \in st <=> "DEAD" \in k1.state[t]
  BY <1>1, <1>3 DEF KernelType, StateFlags
<1>5. k2 = [k1 EXCEPT !.state[t] = st]
  OBVIOUS
<1> HIDE DEF st, k2
<1>6. k2 \in KernelType
  BY <1>1, <1>3, <1>4, <1>5 DEF KernelType
<1>7. Calm(k1, k2) /\ k2.current = k1.current
  BY <1>1, <1>3, <1>4, <1>5, FlagCalm
<1>8. Calm(k, k2) /\ k2.current = k.current
  BY <1>3, <1>7 DEF Calm, Undisturbed, SameThreads
<1> QED BY <1>1, <1>6, <1>8, SwapSwitched, CalmSwitched

\* k_thread_resume()
LEMMA ResumeCalm ==
    ASSUME NEW t \in Apps PROVE IInv /\ resume_not_ready(t) => Calm(k, k')
<1> SUFFICES ASSUME IInv, resume_not_ready(t) PROVE Calm(k, k')
  OBVIOUS
<1> DEFINE st == k.state[t] \ {"SUSPENDED"}
           k1 == [k EXCEPT !.state[t] = st]
           k2 == IF is_thread_ready(k1, t) THEN add_thread_to_ready_q(k1, t) ELSE k1
<1>1. /\ InThread /\ ~is_thread_ready(k, t) /\ t \in Threads \ {Idle}
      /\ k' = reschedule_threads(k2)
  BY DEF resume_not_ready, k_thread_resume, resume, Call, Apps
<1>2. k \in KernelType /\ Live(k) /\ ~is_thread_ready(k, t)
  BY <1>1, InThreadFacts DEF is_thread_ready
<1>3. /\ st \in SUBSET StateFlags
      /\ "PENDING" \in st <=> "PENDING" \in k.state[t]
      /\ "DEAD" \in st <=> "DEAD" \in k.state[t]
  BY <1>1, <1>2 DEF KernelType, StateFlags
<1> HIDE DEF st
<1>4. /\ k1 \in KernelType
      /\ k1.q = k.q /\ k1.bmap = k.bmap /\ k1.cache = k.cache
      /\ \A u \in Threads \ {t} : /\ k1.prio[u] = k.prio[u]
                                  /\ k1.state[u] = k.state[u]
                                  /\ k1.to[u] = k.to[u]
  BY <1>1, <1>2, <1>3 DEF KernelType
<1>5. Calm(k, k1) /\ k1.current = k.current
  BY <1>1, <1>2, <1>3, FlagCalm
<1> HIDE DEF k1
<1>6. Off(k1, t)
  BY <1>1, <1>2, <1>4, OffUnready, OffFrame DEF Live
<1>7. k2 \in KernelType /\ SameThreads(k1, k2)
  <2>1. CASE is_thread_ready(k1, t)
    BY <1>6, <2>1, GoodAdded DEF Good, Holds
  <2>2. CASE ~is_thread_ready(k1, t)
    BY <1>4, <2>2 DEF SameThreads
  <2> QED BY <2>1, <2>2
<1> HIDE DEF k2
<1>8. Calm(k, k2) /\ k2.current = k.current
  BY <1>5, <1>7 DEF Calm, Undisturbed, SameThreads
<1> QED BY <1>1, <1>7, <1>8, RescheduleSwitched, CalmSwitched

\* k_thread_priority_set()
LEMMA PrioritySetCalm ==
    ASSUME NEW t \in Apps, NEW p \in NewPrios
    PROVE  IInv /\ k_thread_priority_set(t, p) => Calm(k, k')
<1> SUFFICES ASSUME IInv, k_thread_priority_set(t, p) PROVE Calm(k, k')
  OBVIOUS
<1> DEFINE k1 == [k EXCEPT !.prio[t] = p]
           k2 == thread_priority_set(k, t, p)
<1>1. InThread /\ t \in Threads \ {Idle} /\ k' = reschedule_threads(k2)
  BY DEF k_thread_priority_set, Call, Apps
<1>2. p \in Prios
  BY SchedAssumption, PriosAssumption DEF AppPrios, Prios
<1>3. Good(k2) /\ SameThreads(k1, k2)
  BY <1>1, <1>2, InThreadFacts, GoodPrioSet
<1>4. /\ k1.current = k.current /\ k1.state = k.state /\ k1.to = k.to
      /\ k1.wq = k.wq /\ k1.rv = k.rv /\ k1.handling = k.handling
  BY <1>1, InThreadFacts DEF KernelType
<1> HIDE DEF k1, k2
<1>5. Calm(k, k2) /\ k2.current = k.current /\ k2 \in KernelType
  BY <1>3, <1>4 DEF Calm, Undisturbed, SameThreads, Good, Holds
<1> QED BY <1>1, <1>5, RescheduleSwitched, CalmSwitched

\* k_thread_abort() takes its target off whatever it waits for
LEMMA AbortAborts ==
    ASSUME NEW t \in Apps, WaitsExact(k)
    PROVE  IInv /\ k_thread_abort(t) => Aborted(k, k', t)
<1> SUFFICES ASSUME IInv, k_thread_abort(t) PROVE Aborted(k, k', t)
  OBVIOUS
<1> DEFINE k3 == single_abort(k, t)
<1>1. /\ InThread /\ t \in Threads \ {Idle}
      /\ k' = IF t = k.current THEN swap(k3) ELSE reschedule_threads(k3)
  BY DEF k_thread_abort, Call, Apps
<1>2. k \in KernelType /\ Live(k) /\ Good(k)
  BY <1>1, InThreadFacts
<1>3. PICK k1 \in KernelType :
        /\ k3 = [k1 EXCEPT !.state[t] = @ \cup {"DEAD"}]
        /\ k1.current = k.current /\ k1.prio = k.prio
        /\ k1.rv = k.rv /\ k1.handling = k.handling
        /\ \A w \in WaitQs : k1.wq[w] = k.wq[w] \/ k1.wq[w] = dlist_remove(k.wq[w], t)
        /\ \A u \in Threads \ {t} : k1.state[u] = k.state[u] /\ k1.to[u] = k.to[u]
        /\ k1.to[t] = "INACTIVE"
        /\ WaitsExact(k1) /\ Pending(k1) = Pending(k) \ {t}
        /\ \A w \in WaitQs : Waiters(k1, w) = Waiters(k, w) \ {t}
  <2>1. CASE is_thread_ready(k, t)
    <3> DEFINE k1 == remove_thread_from_ready_q(k, t)
    <3>1. k3 = [k1 EXCEPT !.state[t] = @ \cup {"DEAD"}]
      BY <2>1 DEF single_abort
    <3>2. k1 \in KernelType /\ SameThreads(k, k1)
      BY <1>1, <1>2, <2>1, OffRemoved DEF Off, Holds
    <3> HIDE DEF k1, k3
    <3>3. t \notin Pending(k) /\ k.to[t] = "INACTIVE"
      BY <2>1 DEF Pending, is_thread_ready, is_thread_timeout_active
    <3>4. \A w \in WaitQs : t \notin Waiters(k, w)
      BY <3>3 DEF WaitsExact
    <3>5. /\ WaitsExact(k1) /\ Pending(k1) = Pending(k)
          /\ \A w \in WaitQs : Waiters(k1, w) = Waiters(k, w)
      BY <3>2, WaitsFrame DEF SameThreads
    <3>6. Pending(k) \ {t} = Pending(k)
          /\ \A w \in WaitQs : Waiters(k, w) \ {t} = Waiters(k, w)
      BY <3>3, <3>4
    <3> QED BY <3>1, <3>2, <3>3, <3>5, <3>6 DEF SameThreads
  <2>2. CASE ~is_thread_ready(k, t)
    <3> DEFINE k0 == IF "PENDING" \in k.state[t] THEN unpend_thread(k, t) ELSE k
               k1 == [k0 EXCEPT !.to[t] = "INACTIVE"]
    <3>1. k3 = [k1 EXCEPT !.state[t] = @ \cup {"DEAD"}]
      BY <2>2 DEF single_abort, abort_thread_timeout
    <3> HIDE DEF k3
    <3>2. /\ k0 \in KernelType
          /\ k0.current = k.current /\ k0.prio = k.prio
          /\ k0.rv = k.rv /\ k0.handling = k.handling /\ k0.to = k.to
          /\ \A w \in WaitQs : k0.wq[w] = k.wq[w] \/ k0.wq[w] = dlist_remove(k.wq[w], t)
          /\ \A u \in Threads \ {t} : k0.state[u] = k.state[u]
      BY <1>1, <1>2, UnpendEffect
    <3>3. /\ WaitsExact(k0) /\ Pending(k0) = Pending(k) \ {t}
          /\ \A w \in WaitQs : Waiters(k0, w) = Waiters(k, w) \ {t}
      <4>1. CASE "PENDING" \in k.state[t]
        BY <1>1, <1>2, <4>1, WaitsUnpended
      <4>2. CASE "PENDING" \notin k.state[t]
        <5>1. t \notin Pending(k) /\ \A w \in WaitQs : t \notin Waiters(k, w)
          BY <4>2 DEF Pending, WaitsExact
        <5>2. Pending(k) \ {t} = Pending(k)
              /\ \A w \in WaitQs : Waiters(k, w) \ {t} = Waiters(k, w)
          BY <5>1
        <5>3. k0 = k
          BY <4>2
        <5> QED BY <5>2, <5>3
      <4> QED BY <4>1, <4>2
    <3> HIDE DEF k0
    <3>4. /\ k1 \in KernelType
          /\ k1.current = k0.current /\ k1.prio = k0.prio
          /\ k1.rv = k0.rv /\ k1.wq = k0.wq
          /\ k1.handling = k0.handling /\ k1.state = k0.state
          /\ k1.to[t] = "INACTIVE" /\ \A u \in Threads \ {t} : k1.to[u] = k0.to[u]
      BY <1>1, <3>2 DEF KernelType, AllTimeouts, TimeoutStates
    <3> HIDE DEF k1
    <3>5. /\ WaitsExact(k1) /\ Pending(k1) = Pending(k0)
          /\ \A w \in WaitQs : Waiters(k1, w) = Waiters(k0, w)
      BY <3>3, <3>4, WaitsFrame
    <3> QED BY <3>1, <3>2, <3>3, <3>4, <3>5
  <2> QED BY <2>1, <2>2
<1>4. /\ k3 \in KernelType
      /\ k3.current = k1.current /\ k3.prio = k1.prio
      /\ k3.rv = k1.rv /\ k3.wq = k1.wq /\ k3.to = k1.to
      /\ k3.handling = k1.handling
      /\ k3.state[t] = k1.state[t] \cup {"DEAD"}
      /\ \A u \in Threads \ {t} : k3.state[u] = k1.state[u]
  <2> HIDE DEF k3
  <2>1. k3 = [k1 EXCEPT !.state[t] = @ \cup {"DEAD"}] /\ k1 \in KernelType
    BY <1>3
  <2> QED BY <1>1, <2>1 DEF KernelType, StateFlags
<1> HIDE DEF k3
<1>5. /\ WaitsExact(k3) /\ Pending(k3) = Pending(k1)
      /\ \A w \in WaitQs : Waiters(k3, w) = Waiters(k1, w)
  <2>1. \A u \in Threads : "PENDING" \in k3.state[u] <=> "PENDING" \in k1.state[u]
    BY <1>4
  <2>2. WaitsExact(k1) /\ k3.wq = k1.wq
    BY <1>3, <1>4
  <2> QED BY <2>1, <2>2, WaitsFrame
<1>6. Aborted(k, k3, t) /\ k3.current = k.current
  BY <1>3, <1>4, <1>5 DEF Aborted
<1>7. Switched(k3, k')
  BY <1>1, <1>4, SwapSwitched, RescheduleSwitched
<1> QED BY <1>1, <1>6, <1>7, AbortedSwitched

(***************************************************************************)
(* _pend_current_thread() and _Swap(), for ever or with a timeout.         *)
(***************************************************************************)
PendedForever(kk, w) ==
    swap(Linked(remove_thread_from_ready_q(kk, kk.current), kk.current, w))
PendedTimed(kk, w) ==
    swap(add_thread_timeout(
            Linked(remove_thread_from_ready_q(kk, kk.current), kk.current, w),
            kk.current))

(***************************************************************************)
(* They leave a settled record in which the thread waits.                  *)
(***************************************************************************)
LEMMA PendSettled ==
    ASSUME NEW kk, Good(kk), WaitsExact(kk), NEW c, c = kk.current, c # Idle,
           is_thread_ready(kk, c), NEW w \in WaitQs,
           NEW k2, k2 = PendedForever(kk, w) \/ k2 = PendedTimed(kk, w)
    PROVE  /\ Live(k2) /\ Settled(k2)
           /\ c \in Threads /\ c \notin Pending(kk)
           /\ WaitsExact(k2) /\ Pending(k2) = Pending(kk) \cup {c}
           /\ Waiters(k2, w) = Waiters(kk, w) \cup {c}
           /\ k2.wq[w] = InsertAt(kk.wq[w], pend_position(kk, c, w), c)
           /\ \A v \in WaitQs \ {w} : k2.wq[v] = kk.wq[v]
           /\ k2.prio = kk.prio /\ k2.handling = kk.handling
           /\ k2.locked = kk.locked
           /\ k2.state[c] = {"PENDING"} /\ k2.rv[c] = "EAGAIN"
           /\ \A u \in Threads \ {c} : /\ k2.state[u] = kk.state[u]
                                       /\ k2.to[u] = kk.to[u]
                                       /\ k2.rv[u] = kk.rv[u]
           /\ k2 = PendedForever(kk, w) => k2.to[c] = "INACTIVE"
           /\ k2 = PendedTimed(kk, w) => k2.to[c] = "ACTIVE"
<1> DEFINE k1 == remove_thread_from_ready_q(kk, c)
           kp == Linked(k1, c, w)
           kt == [kp EXCEPT !.to[c] = "ACTIVE"]
<1>1. kk \in KernelType /\ c \in Threads \ {Idle}
  BY DEF Good, Holds, KernelType
<1>2. Off(k1, c) /\ SameThreads(kk, k1)
  BY <1>1, OffRemoved
<1>3. k1 \in KernelType /\ k1.state[c] = {} /\ k1.to[c] = "INACTIVE"
  BY <1>2 DEF Off, Holds, SameThreads, is_thread_ready, is_thread_timeout_active
<1>4. WaitsExact(k1) /\ Pending(k1) = Pending(kk)
      /\ \A v \in WaitQs : Waiters(k1, v) = Waiters(kk, v)
  BY <1>2, WaitsFrame DEF SameThreads
<1>5. c \notin Pending(kk)
  BY <1>3, <1>4 DEF Pending
<1>6. pend_position(k1, c, w) = pend_position(kk, c, w)
  BY <1>2 DEF pend_position, is_prio_higher, SameThreads
<1>7. k2 = swap(kp) \/ k2 = swap(kt)
  BY DEF PendedForever, PendedTimed, add_thread_timeout
<1> HIDE DEF k1
<1>8. /\ kp \in KernelType
      /\ kp.q = k1.q /\ kp.bmap = k1.bmap /\ kp.cache = k1.cache
      /\ kp.current = k1.current /\ kp.prio = k1.prio
      /\ kp.locked = k1.locked /\ kp.rv = k1.rv /\ kp.to = k1.to
      /\ kp.handling = k1.handling
      /\ kp.state[c] = k1.state[c] \cup {"PENDING"}
      /\ \A u \in Threads \ {c} : kp.state[u] = k1.state[u]
      /\ kp.wq[w] = InsertAt(k1.wq[w], pend_position(k1, c, w), c)
      /\ \A v \in WaitQs \ {w} : kp.wq[v] = k1.wq[v]
  BY <1>1, <1>3, LinkedEffect
<1>9. /\ WaitsExact(kp) /\ Pending(kp) = Pending(kk) \cup {c}
      /\ Waiters(kp, w) = Waiters(kk, w) \cup {c}
  <2>1. c \in Threads /\ c \notin Pending(k1)
    BY <1>1, <1>4, <1>5
  <2> QED BY <1>3, <1>4, <2>1, WaitsPended
<1> HIDE DEF kp
<1>10. /\ kt \in KernelType
       /\ kt.q = kp.q /\ kt.bmap = kp.bmap /\ kt.cache = kp.cache
       /\ kt.current = kp.current /\ kt.prio = kp.prio
       /\ kt.locked = kp.locked /\ kt.rv = kp.rv /\ kt.wq = kp.wq
       /\ kt.handling = kp.handling /\ kt.state = kp.state
       /\ kt.to[c] = "ACTIVE" /\ \A u \in Threads \ {c} : kt.to[u] = kp.to[u]
  BY <1>1, <1>8 DEF KernelType, AllTimeouts, TimeoutStates
<1> HIDE DEF kt
<1>11. ASSUME NEW k3, k3 = kp \/ k3 = kt, k2 = swap(k3)
       PROVE  /\ Live(k2) /\ Settled(k2)
              /\ k2.wq = kp.wq /\ k2.state = kp.state
              /\ k2.prio = kk.prio /\ k2.handling = kk.handling
              /\ k2.locked = kk.locked /\ k2.rv[c] = "EAGAIN"
              /\ \A u \in Threads \ {c} : /\ k2.to[u] = kk.to[u]
                                          /\ k2.rv[u] = kk.rv[u]
              /\ k2.to = k3.to
  <2>1. /\ k3 \in KernelType
        /\ k3.q = k1.q /\ k3.bmap = k1.bmap /\ k3.cache = k1.cache
        /\ k3.current = c /\ k3.prio = kk.prio /\ k3.locked = kk.locked
        /\ k3.rv = kk.rv /\ k3.handling = kk.handling
        /\ k3.wq = kp.wq /\ k3.state = kp.state
        /\ \A u \in Threads \ {c} : k3.to[u] = kk.to[u]
    BY <1>2, <1>8, <1>10, <1>11 DEF SameThreads
  <2>2. \A u \in Threads \ {c} : /\ k3.prio[u] = k1.prio[u]
                                 /\ k3.state[u] = k1.state[u]
                                 /\ k3.to[u] = k1.to[u]
    BY <1>2, <1>8, <2>1 DEF SameThreads
  <2>3. Off(k3, c)
    BY <1>2, <2>1, <2>2, OffFrame
  <2>4. ~is_thread_ready(k3, c)
    BY <1>8, <2>1 DEF is_thread_ready
  <2>5. Good(k3)
    BY <1>1, <2>3, <2>4, OffUnready
  <2>6. Switched(k3, k2) /\ k2.rv[c] = "EAGAIN"
    BY <1>11, <2>1, SwapSwitched
  <2>7. Live(k2) /\ Settled(k2)
    BY <1>11, <2>5, SwapSettled
  <2> QED BY <2>1, <2>6, <2>7 DEF Switched
<1>12. PICK k3 : (k3 = kp \/ k3 = kt) /\ k2 = swap(k3)
  BY <1>7
<1>13. /\ Live(k2) /\ Settled(k2)
       /\ k2.wq = kp.wq /\ k2.state = kp.state
       /\ k2.prio = kk.prio /\ k2.handling = kk.handling
       /\ k2.locked = kk.locked /\ k2.rv[c] = "EAGAIN"
       /\ \A u \in Threads \ {c} : k2.to[u] = kk.to[u] /\ k2.rv[u] = kk.rv[u]
  BY <1>11, <1>12
<1>14. /\ WaitsExact(k2) /\ Pending(k2) = Pending(kp)
       /\ \A v \in WaitQs : Waiters(k2, v) = Waiters(kp, v)
  BY <1>9, <1>13, WaitsFrame
<1>15. /\ k2.wq[w] = InsertAt(kk.wq[w], pend_position(kk, c, w), c)
       /\ \A v \in WaitQs \ {w} : k2.wq[v] = kk.wq[v]
  BY <1>2, <1>6, <1>8, <1>13 DEF SameThreads
<1>16. k2.state[c] = {"PENDING"} /\ \A u \in Threads \ {c} : k2.state[u] = kk.state[u]
  BY <1>2, <1>3, <1>8, <1>13 DEF SameThreads
<1>17. k2 = PendedForever(kk, w) => k2.to[c] = "INACTIVE"
  <2> SUFFICES ASSUME k2 = PendedForever(kk, w) PROVE k2.to[c] = "INACTIVE"
    OBVIOUS
  <2>1. k2 = swap(kp)
    BY DEF PendedForever, kp, k1
  <2> QED BY <1>3, <1>8, <1>11, <2>1
<1>18. k2 = PendedTimed(kk, w) => k2.to[c] = "ACTIVE"
  <2> SUFFICES ASSUME k2 = PendedTimed(kk, w) PROVE k2.to[c] = "ACTIVE"
    OBVIOUS
  <2>1. k2 = swap(kt)
    BY DEF PendedTimed, add_thread_timeout, kt, kp, k1
  <2> QED BY <1>10, <1>11, <2>1
<1> QED BY <1>1, <1>5, <1>9, <1>13, <1>14, <1>15, <1>16, <1>17, <1>18

(***************************************************************************)
(* A waiter is taken off its wait queue, its timeout cancelled, and        *)
(* readied: the way every kernel object wakes a thread.                    *)
(***************************************************************************)
Woken(kk, t) == ready_thread(abort_thread_timeout(unpend_thread(kk, t), t), t)

\* the record stays well formed, and only this thread is concerned
LEMMA WokenLive ==
    ASSUME NEW kk, Live(kk), WaitsExact(kk), NEW t \in Pending(kk),
           NEW k2, k2 = Woken(kk, t)
    PROVE  /\ Live(k2) /\ t \in Threads \ {Idle} /\ t # kk.current
           /\ WaitsExact(k2) /\ Pending(k2) = Pending(kk) \ {t}
           /\ \A w \in WaitQs : /\ Waiters(k2, w) = Waiters(kk, w) \ {t}
                                /\ k2.wq[w] = dlist_remove(kk.wq[w], t)
           /\ k2.current = kk.current /\ k2.prio = kk.prio
           /\ k2.locked = kk.locked /\ k2.handling = kk.handling
           /\ k2.rv = kk.rv /\ k2.to[t] = "INACTIVE"
           /\ k2.state[t] = (kk.state[t] \ {"PENDING"}) \ {"PRESTART"}
           /\ \A u \in Threads \ {t} : k2.state[u] = kk.state[u] /\ k2.to[u] = kk.to[u]
<1> DEFINE k0 == unpend_thread(kk, t)
           k1 == [k0 EXCEPT !.to[t] = "INACTIVE"]
<1>1. kk \in KernelType /\ Good(kk) /\ t \in Threads /\ "PENDING" \in kk.state[t]
  BY DEF Live, Good, Holds, Pending
<1>2. t # Idle /\ t # kk.current /\ ~is_thread_ready(kk, t)
  BY <1>1 DEF Live, Good, Holds, ReadyThreads, is_thread_ready
<1>3. k2 = ready_thread(k1, t)
  BY DEF Woken, abort_thread_timeout
<1>4. /\ k0 \in KernelType
      /\ k0.q = kk.q /\ k0.bmap = kk.bmap /\ k0.cache = kk.cache
      /\ k0.current = kk.current /\ k0.prio = kk.prio
      /\ k0.locked = kk.locked /\ k0.rv = kk.rv /\ k0.to = kk.to
      /\ k0.handling = kk.handling
      /\ k0.state[t] = kk.state[t] \ {"PENDING"}
      /\ \A u \in Threads \ {t} : k0.state[u] = kk.state[u]
      /\ \A w \in WaitQs : k0.wq[w] = dlist_remove(kk.wq[w], t)
  BY <1>1, UnpendEffect
<1>5. /\ WaitsExact(k0) /\ Pending(k0) = Pending(kk) \ {t}
      /\ \A w \in WaitQs : Waiters(k0, w) = Waiters(kk, w) \ {t}
  BY <1>1, WaitsUnpended
<1> HIDE DEF k0
<1>6. /\ k1 \in KernelType
      /\ k1.q = k0.q /\ k1.bmap = k0.bmap /\ k1.cache = k0.cache
      /\ k1.current = k0.current /\ k1.prio = k0.prio
      /\ k1.locked = k0.locked /\ k1.rv = k0.rv /\ k1.wq = k0.wq
      /\ k1.handling = k0.handling /\ k1.state = k0.state
      /\ k1.to[t] = "INACTIVE" /\ \A u \in Threads \ {t} : k1.to[u] = k0.to[u]
  BY <1>1, <1>4 DEF KernelType, AllTimeouts, TimeoutStates
<1> HIDE DEF k1
<1>7. /\ k2.current = k1.current /\ k2.prio = k1.prio
      /\ k2.locked = k1.locked /\ k2.to = k1.to /\ k2.wq = k1.wq
      /\ k2.rv = k1.rv /\ k2.handling = k1.handling
      /\ k2.state[t] = k1.state[t] \ {"PRESTART"}
      /\ \A u \in Threads \ {t} : k2.state[u] = k1.state[u]
  BY <1>1, <1>3, <1>6, ReadyThreadEffect
<1>8. /\ WaitsExact(k2) /\ Pending(k2) = Pending(k0)
      /\ \A w \in WaitQs : Waiters(k2, w) = Waiters(k0, w)
  <2>1. k2.wq = k0.wq /\ \A u \in Threads : "PENDING" \in k2.state[u]
                                           <=> "PENDING" \in k0.state[u]
    BY <1>6, <1>7
  <2> QED BY <1>5, <2>1, WaitsFrame
<1>9. Good(k2)
  <2>1. Off(kk, t)
    BY <1>1, <1>2, OffUnready
  <2>2. \A u \in Threads \ {t} : /\ k1.prio[u] = kk.prio[u]
                                 /\ k1.state[u] = kk.state[u]
                                 /\ k1.to[u] = kk.to[u]
    BY <1>4, <1>6
  <2>3. Off(k1, t)
    BY <1>4, <1>6, <2>1, <2>2, OffFrame
  <2> QED BY <1>3, <2>3, GoodReadied
<1>10. is_thread_ready(k2, k2.current)
  <2>1. kk.current \in Threads \ {t}
    BY <1>1, <1>2 DEF KernelType
  <2> QED BY <1>4, <1>6, <1>7, <2>1 DEF Live, is_thread_ready, is_thread_timeout_active
<1>11. Live(k2)
  BY <1>9, <1>10 DEF Live
<1>12. \A w \in WaitQs : k2.wq[w] = dlist_remove(kk.wq[w], t)
  BY <1>4, <1>6, <1>7
<1>13. /\ k2.current = kk.current /\ k2.prio = kk.prio
       /\ k2.locked = kk.locked /\ k2.handling = kk.handling
       /\ k2.rv = kk.rv /\ k2.to[t] = "INACTIVE"
       /\ k2.state[t] = (kk.state[t] \ {"PENDING"}) \ {"PRESTART"}
       /\ \A u \in Threads \ {t} : k2.state[u] = kk.state[u] /\ k2.to[u] = kk.to[u]
  BY <1>4, <1>6, <1>7
<1> QED BY <1>1, <1>2, <1>5, <1>8, <1>11, <1>12, <1>13

(***************************************************************************)
(* ... and is handed its return value.                                     *)
(***************************************************************************)
LEMMA WakeLive ==
    ASSUME NEW kk, Live(kk), WaitsExact(kk), NEW t \in Pending(kk),
           NEW k2, k2 = wake_waiter(kk, t)
    PROVE  /\ Live(k2) /\ t \in Threads \ {Idle} /\ t # kk.current
           /\ WaitsExact(k2) /\ Pending(k2) = Pending(kk) \ {t}
           /\ \A w \in WaitQs : /\ Waiters(k2, w) = Waiters(kk, w) \ {t}
                                /\ k2.wq[w] = dlist_remove(kk.wq[w], t)
           /\ k2.current = kk.current /\ k2.prio = kk.prio
           /\ k2.locked = kk.locked /\ k2.handling = kk.handling
           /\ k2.rv[t] = "0" /\ k2.to[t] = "INACTIVE"
           /\ k2.state[t] = (kk.state[t] \ {"PENDING"}) \ {"PRESTART"}
           /\ \A u \in Threads \ {t} : /\ k2.state[u] = kk.state[u]
                                       /\ k2.to[u] = kk.to[u]
                                       /\ k2.rv[u] = kk.rv[u]
<1> DEFINE k1 == Woken(kk, t)
<1>1. k2 = [k1 EXCEPT !.rv[t] = "0"]
  BY DEF wake_waiter, Woken
<1>2. /\ Live(k1) /\ t \in Threads \ {Idle} /\ t # kk.current
      /\ WaitsExact(k1) /\ Pending(k1) = Pending(kk) \ {t}
      /\ \A w \in WaitQs : /\ Waiters(k1, w) = Waiters(kk, w) \ {t}
                           /\ k1.wq[w] = dlist_remove(kk.wq[w], t)
      /\ k1.current = kk.current /\ k1.prio = kk.prio
      /\ k1.locked = kk.locked /\ k1.handling = kk.handling
      /\ k1.rv = kk.rv /\ k1.to[t] = "INACTIVE"
      /\ k1.state[t] = (kk.state[t] \ {"PENDING"}) \ {"PRESTART"}
      /\ \A u \in Threads \ {t} : k1.state[u] = kk.state[u] /\ k1.to[u] = kk.to[u]
  BY WokenLive
<1> HIDE DEF k1
<1>3. k1 \in KernelType
  BY <1>2 DEF Live, Good, Holds
<1>4. /\ k2 \in KernelType
      /\ k2.q = k1.q /\ k2.bmap = k1.bmap /\ k2.cache = k1.cache
      /\ k2.current = k1.current /\ k2.prio = k1.prio
      /\ k2.locked = k1.locked /\ k2.to = k1.to /\ k2.wq = k1.wq
      /\ k2.handling = k1.handling /\ k2.state = k1.state
      /\ k2.rv[t] = "0" /\ \A u \in Threads \ {t} : k2.rv[u] = k1.rv[u]
  <2> DEFINE k3 == [k1 EXCEPT !.rv[t] = "0"]
  <2>1. t \in Threads
    BY <1>2
  <2>2. /\ k3 \in KernelType
        /\ k3.q = k1.q /\ k3.bmap = k1.bmap /\ k3.cache = k1.cache
        /\ k3.current = k1.current /\ k3.prio = k1.prio
        /\ k3.locked = k1.locked /\ k3.to = k1.to /\ k3.wq = k1.wq
        /\ k3.handling = k1.handling /\ k3.state = k1.state
        /\ k3.rv[t] = "0" /\ \A u \in Threads \ {t} : k3.rv[u] = k1.rv[u]
    BY <1>3, <2>1 DEF KernelType, RetVals
  <2> HIDE DEF k3
  <2>3. k2 = k3
    BY <1>1 DEF k3
  <2> QED BY <2>2, <2>3
<1>5. Live(k2)
  <2>1. Good(k2)
    BY <1>2, <1>4, GoodFrame DEF Live
  <2> QED BY <1>2, <1>4, <2>1 DEF Live, is_thread_ready, is_thread_timeout_active
<1>6. /\ WaitsExact(k2) /\ Pending(k2) = Pending(k1)
      /\ \A w \in WaitQs : Waiters(k2, w) = Waiters(k1, w)
  BY <1>2, <1>4, WaitsFrame
<1> QED BY <1>2, <1>4, <1>5, <1>6

(***************************************************************************)
(* _handle_one_expired_timeout(): the thread's timeout is over; if it      *)
(* waits it stops waiting, with the return value _Swap() left.             *)
(***************************************************************************)
LEMMA HandleEffect ==
    ASSUME NEW kk \in KernelType, WaitsExact(kk), NEW t \in Threads,
           NEW k2, k2 = handle_one_expired_timeout(kk, t)
    PROVE  /\ WaitsExact(k2) /\ Pending(k2) = Pending(kk) \ {t}
           /\ \A w \in WaitQs : /\ Waiters(k2, w) = Waiters(kk, w) \ {t}
                                /\ \/ k2.wq[w] = kk.wq[w]
                                   \/ k2.wq[w] = dlist_remove(kk.wq[w], t)
           /\ k2.current = kk.current /\ k2.prio = kk.prio
           /\ k2.locked = kk.locked /\ k2.handling = kk.handling
           /\ k2.rv = kk.rv /\ k2.to[t] = "INACTIVE"
           /\ "DEAD" \in k2.state[t] <=> "DEAD" \in kk.state[t]
           /\ \A u \in Threads \ {t} : k2.state[u] = kk.state[u] /\ k2.to[u] = kk.to[u]
<1> DEFINE k1 == [kk EXCEPT !.to[t] = "INACTIVE"]
           k3 == IF "PENDING" \in k1.state[t] THEN unpend_thread(k1, t) ELSE k1
<1>1. k2 = ready_thread(k3, t)
  BY DEF handle_one_expired_timeout
<1>2. /\ k1 \in KernelType
      /\ k1.current = kk.current /\ k1.prio = kk.prio
      /\ k1.locked = kk.locked /\ k1.rv = kk.rv /\ k1.wq = kk.wq
      /\ k1.handling = kk.handling /\ k1.state = kk.state
      /\ k1.to[t] = "INACTIVE" /\ \A u \in Threads \ {t} : k1.to[u] = kk.to[u]
  BY DEF KernelType, AllTimeouts, TimeoutStates
<1> HIDE DEF k1
<1>3. WaitsExact(k1) /\ Pending(k1) = Pending(kk)
      /\ \A w \in WaitQs : Waiters(k1, w) = Waiters(kk, w)
  BY <1>2, WaitsFrame
<1>4. /\ k3 \in KernelType
      /\ k3.current = k1.current /\ k3.prio = k1.prio
      /\ k3.locked = k1.locked /\ k3.rv = k1.rv /\ k3.to = k1.to
      /\ k3.handling = k1.handling
      /\ "DEAD" \in k3.state[t] <=> "DEAD" \in k1.state[t]
      /\ \A u \in Threads \ {t} : k3.state[u] = k1.state[u]
      /\ \A w \in WaitQs : \/ k3.wq[w] = k1.wq[w]
                           \/ k3.wq[w] = dlist_remove(k1.wq[w], t)
  <2>1. CASE "PENDING" \in k1.state[t]
    <3> DEFINE k4 == unpend_thread(k1, t)
    <3>1. /\ k4 \in KernelType
          /\ k4.current = k1.current /\ k4.prio = k1.prio
          /\ k4.locked = k1.locked /\ k4.rv = k1.rv /\ k4.to = k1.to
          /\ k4.handling = k1.handling
          /\ k4.state[t] = k1.state[t] \ {"PENDING"}
          /\ \A u \in Threads \ {t} : k4.state[u] = k1.state[u]
          /\ \A w \in WaitQs : k4.wq[w] = dlist_remove(k1.wq[w], t)
      BY <1>2, UnpendEffect
    <3> HIDE DEF k4
    <3>2. k3 = k4
      BY <2>1 DEF k4
    <3> QED BY <3>1, <3>2
  <2>2. CASE "PENDING" \notin k1.state[t]
    BY <1>2, <2>2
  <2> QED BY <2>1, <2>2
<1>5. /\ WaitsExact(k3) /\ Pending(k3) = Pending(k1) \ {t}
      /\ \A w \in WaitQs : Waiters(k3, w) = Waiters(k1, w) \ {t}
  <2>1. CASE "PENDING" \in k1.state[t]
    BY <1>2, <1>3, <2>1, WaitsUnpended
  <2>2. CASE "PENDING" \notin k1.state[t]
    <3>1. t \notin Pending(k1) /\ \A w \in WaitQs : t \notin Waiters(k1, w)
      BY <1>3, <2>2 DEF Pending, WaitsExact
    <3>2. Pending(k1) \ {t} = Pending(k1)
          /\ \A w \in WaitQs : Waiters(k1, w) \ {t} = Waiters(k1, w)
      BY <3>1
    <3>3. k3 = k1
      BY <2>2
    <3> QED BY <1>3, <3>2, <3>3
  <2> QED BY <2>1, <2>2
<1> HIDE DEF k3
<1>6. /\ k2.current = k3.current /\ k2.prio = k3.prio
      /\ k2.locked = k3.locked /\ k2.to = k3.to /\ k2.wq = k3.wq
      /\ k2.rv = k3.rv /\ k2.handling = k3.handling
      /\ k2.state[t] = k3.state[t] \ {"PRESTART"}
      /\ \A u \in Threads \ {t} : k2.state[u] = k3.state[u]
  BY <1>1, <1>4, ReadyThreadEffect
<1>7. /\ WaitsExact(k2) /\ Pending(k2) = Pending(k3)
      /\ \A w \in WaitQs : Waiters(k2, w) = Waiters(k3, w)
  <2>1. \A u \in Threads : "PENDING" \in k2.state[u] <=> "PENDING" \in k3.state[u]
    BY <1>6
  <2> QED BY <1>5, <1>6, <2>1, WaitsFrame
<1> QED BY <1>2, <1>3, <1>4, <1>5, <1>6, <1>7

(***************************************************************************)
(* The interrupts.  A timeout is EXPIRED only while the clock interrupt    *)
(* handles timeouts, with _handling_timeouts set.                          *)
(***************************************************************************)
ClockInv ==
    /\ clk = "expire" => k.handling
    /\ \A t \in Threads : k.to[t] = "EXPIRED" => k.handling

(***************************************************************************)
(* What a step of an interrupt may do to the threads that wait: nothing,   *)
(* mark the timeout of one of them expired, or end it.                     *)
(***************************************************************************)
Passed(kk, k2) ==
    /\ Undisturbed(kk, k2)
    /\ \A t \in Threads : k2.to[t] \in {kk.to[t], "INACTIVE"}
    /\ Port = "arm" => k2.rv = kk.rv
    /\ k2.prio = kk.prio

Expired(kk, k2, t) ==
    /\ kk.to[t] = "ACTIVE" /\ k2.to[t] = "EXPIRED"
    /\ \A u \in Threads \ {t} : k2.to[u] = kk.to[u]
    /\ k2.wq = kk.wq /\ k2.state = kk.state /\ k2.prio = kk.prio
    /\ k2.rv = kk.rv /\ k2.current = kk.current /\ k2.locked = kk.locked

Handled(kk, k2, t) ==
    /\ kk.to[t] = "EXPIRED" /\ k2.to[t] = "INACTIVE"
    /\ WaitsExact(k2) /\ Pending(k2) = Pending(kk) \ {t}
    /\ \A w \in WaitQs : /\ Waiters(k2, w) = Waiters(kk, w) \ {t}
                         /\ \/ k2.wq[w] = kk.wq[w]
                            \/ k2.wq[w] = dlist_remove(kk.wq[w], t)
    /\ k2.current = kk.current /\ k2.prio = kk.prio
    /\ k2.locked = kk.locked /\ k2.rv = kk.rv
    /\ "DEAD" \in k2.state[t] <=> "DEAD" \in kk.state[t]
    /\ \A u \in Threads \ {t} : k2.state[u] = kk.state[u] /\ k2.to[u] = kk.to[u]

(***************************************************************************)
(* handle_time_slicing() and the return from an interrupt are no more than *)
(* a switch of threads.                                                    *)
(***************************************************************************)
LEMMA SlicingEffect ==
    ASSUME NEW kk \in KernelType, NEW d, NEW c, NEW k2,
           k2 = handle_time_slicing(kk, d, c)
    PROVE  Switched(kk, k2) /\ k2.rv = kk.rv
<1>1. ASSUME NEW n, NEW k1, k1 = [kk EXCEPT !.elapsed = n]
      PROVE  Switched(kk, k1) /\ k1.rv = kk.rv
  BY <1>1 DEF KernelType, Switched
<1>2. CASE ~is_thread_time_slicing(kk, kk.current, d, c)
  BY <1>2 DEF handle_time_slicing, Switched
<1>3. CASE is_thread_time_slicing(kk, kk.current, d, c) /\ kk.elapsed + 1 >= d
  <2> DEFINE k1 == [kk EXCEPT !.elapsed = 0]
  <2>1. k2 = move_thread_to_end_of_prio_q(k1, kk.current)
    BY <1>3 DEF handle_time_slicing
  <2>2. Switched(kk, k1) /\ k1.rv = kk.rv
    BY <1>1
  <2>3. k1 \in KernelType /\ kk.current \in Threads
    BY DEF KernelType
  <2> HIDE DEF k1
  <2>4. SameThreads(k1, k2)
    BY <2>1, <2>3, QueueOpsSame
  <2> QED BY <2>2, <2>4 DEF Switched, SameThreads
<1>4. CASE is_thread_time_slicing(kk, kk.current, d, c) /\ ~(kk.elapsed + 1 >= d)
  <2> DEFINE n == kk.elapsed + 1
  <2>1. k2 = [kk EXCEPT !.elapsed = n]
    BY <1>4 DEF handle_time_slicing
  <2> HIDE DEF n
  <2> QED BY <1>1, <2>1
<1> QED BY <1>2, <1>3, <1>4

\* the return from an interrupt
LEMMA ExitEffect ==
    ASSUME NEW newK \in KernelType, IsrExit(newK)
    PROVE  Switched(newK, k') /\ (Port = "arm" => k'.rv = newK.rv)
<1>1. k' = isr_exit_swap(newK) \/ k' = newK
  BY DEF IsrExit
<1>2. CASE k' = isr_exit_swap(newK)
  BY <1>2, IsrExitSwitched
<1>3. CASE k' = newK
  BY <1>3 DEF Switched
<1> QED BY <1>1, <1>2, <1>3

\* a switch of threads passes the waiters by
LEMMA SwitchedPassed ==
    ASSUME NEW kk \in KernelType, NEW k2, Switched(kk, k2),
           Port = "arm" => k2.rv = kk.rv
    PROVE  Passed(kk, k2) /\ k2.handling = kk.handling
BY DEF Switched, Passed, Undisturbed

\* device interrupts
LEMMA DevicePassed ==
    ASSUME IInv, ClockInv, Device
    PROVE  Passed(k, k') /\ ClockInv'
<1>0. k \in KernelType /\ Live(k)
  BY DEF IInv, TypeOK
<1>1. CASE DevEnter
  <2>1. k' = k /\ clk' = clk
    BY <1>1 DEF DevEnter
  <2> QED BY <1>0, <2>1 DEF Passed, Undisturbed, ClockInv
<1>2. CASE DevExit
  <2>1. IsrExit(k) /\ clk' = clk
    BY <1>2 DEF DevExit
  <2>2. Switched(k, k') /\ (Port = "arm" => k'.rv = k.rv)
    BY <1>0, <2>1, ExitEffect
  <2>3. Passed(k, k')
    BY <1>0, <2>2, SwitchedPassed
  <2> QED BY <2>1, <2>2, <2>3 DEF ClockInv, Switched
<1>3. ASSUME NEW t \in Apps, isr_wakeup(t) PROVE Passed(k, k') /\ ClockInv'
  <2>1. k' = wakeup(k, t) /\ "PENDING" \notin k.state[t] /\ clk' = clk /\ t \in Threads
    BY <1>3 DEF isr_wakeup, Apps
  <2>2. /\ Calm(k, k') /\ k'.rv = k.rv
        /\ \A u \in Threads : k'.to[u] \in {k.to[u], "INACTIVE"}
    BY <1>0, <2>1, WakeupEffect
  <2>3. k'.prio = k.prio
    <3> DEFINE k1 == [k EXCEPT !.to[t] = "INACTIVE"]
    <3>1. k1 \in KernelType /\ k1.prio = k.prio
      BY <1>0, <2>1 DEF KernelType, AllTimeouts, TimeoutStates
    <3>2. k' = ready_thread(k1, t)
      BY <2>1 DEF wakeup, abort_thread_timeout
    <3> HIDE DEF k1
    <3> QED BY <2>1, <3>1, <3>2, ReadyThreadEffect
  <2> QED BY <2>1, <2>2, <2>3 DEF Passed, Calm, ClockInv
<1> QED BY <1>1, <1>2, <1>3 DEF Device

\* the clock interrupt
LEMMA ClockEffect ==
    ASSUME IInv, ClockInv, WaitsExact(k), Clock
    PROVE  /\ ClockInv'
           /\ \/ Passed(k, k')
              \/ \E t \in Threads : Expired(k, k', t) \/ Handled(k, k', t)
<1>0. k \in KernelType /\ Live(k) /\ slice \in SliceSettings
  BY DEF IInv, TypeOK
<1>1. CASE ClockEnter
  <2>1. \/ clk' = "expire" /\ k' = [k EXCEPT !.handling = TRUE]
        \/ clk' = "handle" /\ k' = k
    BY <1>1 DEF ClockEnter
  <2>2. CASE clk' = "expire" /\ k' = [k EXCEPT !.handling = TRUE]
    BY <1>0, <2>2 DEF KernelType, Passed, Undisturbed, ClockInv
  <2>3. CASE clk' = "handle" /\ k' = k
    BY <1>0, <2>3 DEF Passed, Undisturbed, ClockInv
  <2> QED BY <2>1, <2>2, <2>3
<1>2. CASE ClockExpired
  <2>1. k' = k /\ clk' = "handle"
    BY <1>2 DEF ClockExpired
  <2> QED BY <1>0, <2>1 DEF Passed, Undisturbed, ClockInv
<1>3. CASE ClockExit
  <2> DEFINE k1 == [k EXCEPT !.handling = FALSE]
             k2 == handle_time_slicing(k1, slice[1], slice[2])
  <2>1. /\ clk' = "off" /\ IsrExit(k2)
        /\ \A t \in AllTimeouts : k.to[t] # "EXPIRED"
    BY <1>3 DEF ClockExit
  <2>2. Live(k1)
    BY <1>0, HandlingSet
  <2>3. slice[1] \in Nat
    BY <1>0, SchedAssumption
  <2>4. k1 \in KernelType /\ k1.rv = k.rv /\ Switched([k EXCEPT !.handling = FALSE], k1)
        /\ k1.prio = k.prio /\ k1.state = k.state /\ k1.to = k.to /\ k1.wq = k.wq
        /\ k1.current = k.current
    BY <1>0 DEF KernelType, Switched
  <2> HIDE DEF k1
  <2>5. Live(k2)
    BY <2>2, <2>3, SlicingLive
  <2>6. Switched(k1, k2) /\ k2.rv = k1.rv
    BY <2>4, SlicingEffect
  <2> HIDE DEF k2
  <2>7. Switched(k2, k') /\ (Port = "arm" => k'.rv = k2.rv)
    BY <2>1, <2>5, ExitEffect DEF Live, Good, Holds
  <2>8. k2.current = k1.current
    BY <2>4 DEF k2, handle_time_slicing, move_thread_to_end_of_prio_q, KernelType
  <2>9. Passed(k, k')
    BY <2>4, <2>6, <2>7, <2>8 DEF Switched, Passed, Undisturbed
  <2>10. \A t \in Threads : k'.to[t] # "EXPIRED"
    BY <2>1, <2>4, <2>6, <2>7 DEF Switched, AllTimeouts
  <2> QED BY <2>1, <2>9, <2>10 DEF ClockInv
<1>4. ASSUME NEW t \in AllTimeouts, ClockExpire(t)
      PROVE  /\ ClockInv'
             /\ Passed(k, k') \/ \E u \in Threads : Expired(k, k', u)
  <2>1. /\ k.to[t] = "ACTIVE" /\ clk' = clk /\ k.handling
        /\ k' = [k EXCEPT !.to[t] = "EXPIRED"]
    BY <1>4 DEF ClockExpire, ClockInv
  <2>2. /\ k'.to[t] = "EXPIRED" /\ \A u \in Threads \ {t} : k'.to[u] = k.to[u]
        /\ k'.wq = k.wq /\ k'.state = k.state /\ k'.prio = k.prio
        /\ k'.rv = k.rv /\ k'.current = k.current /\ k'.locked = k.locked
        /\ k'.handling = k.handling
    BY <1>0, <2>1 DEF KernelType, AllTimeouts
  <2>3. ClockInv'
    BY <2>1, <2>2 DEF ClockInv
  <2>4. CASE t \in Threads
    BY <2>1, <2>2, <2>3, <2>4 DEF Expired
  <2>5. CASE t \notin Threads
    BY <2>2, <2>3, <2>5 DEF Passed, Undisturbed
  <2> QED BY <2>4, <2>5
<1>5. ASSUME NEW t \in Threads, ClockHandle(t)
      PROVE  ClockInv' /\ Handled(k, k', t)
  <2>1. k.to[t] = "EXPIRED" /\ clk' = clk /\ k' = handle_one_expired_timeout(k, t)
    BY <1>5 DEF ClockHandle
  <2>2. /\ WaitsExact(k') /\ Pending(k') = Pending(k) \ {t}
        /\ \A w \in WaitQs : /\ Waiters(k', w) = Waiters(k, w) \ {t}
                             /\ \/ k'.wq[w] = k.wq[w]
                                \/ k'.wq[w] = dlist_remove(k.wq[w], t)
        /\ k'.current = k.current /\ k'.prio = k.prio
        /\ k'.locked = k.locked /\ k'.handling = k.handling
        /\ k'.rv = k.rv /\ k'.to[t] = "INACTIVE"
        /\ "DEAD" \in k'.state[t] <=> "DEAD" \in k.state[t]
        /\ \A u \in Threads \ {t} : k'.state[u] = k.state[u] /\ k'.to[u] = k.to[u]
    BY <1>0, <2>1, HandleEffect
  <2> QED BY <2>1, <2>2 DEF Handled, ClockInv
<1> QED BY <1>1, <1>2, <1>3, <1>4, <1>5 DEF Clock

(***************************************************************************)
(* Who keeps the CPU.  A thread that a step switches away from is one that *)
(* may be preempted or is no longer ready.                                 *)
(***************************************************************************)
KeepsCpu(kk, k2) ==
    \/ k2.current = kk.current
    \/ is_preempt(k2, kk.current)
    \/ ~is_thread_ready(k2, kk.current)

\* _reschedule_threads() and the return from an interrupt switch only away
\* from a thread that may be preempted
LEMMA PreemptKeeps ==
    ASSUME NEW kk, NEW k1 \in KernelType, k1.current = kk.current,
           NEW k2, k2 = reschedule_threads(k1) \/ k2 = isr_exit_swap(k1)
    PROVE  KeepsCpu(kk, k2)
<1>1. k2.prio = k1.prio /\ k2.locked = k1.locked
  BY RescheduleSwitched, IsrExitSwitched DEF Switched
<1>2. k2.current = k1.current \/ is_preempt(k1, k1.current)
  BY DEF reschedule_threads, must_switch_threads, isr_exit_swap
<1> QED BY <1>1, <1>2 DEF KeepsCpu, is_preempt

\* _Swap() of a thread that has just become unable to run
LEMMA BlockKeeps ==
    ASSUME NEW kk, NEW k1 \in KernelType, k1.current = kk.current,
           ~is_thread_ready(k1, kk.current)
    PROVE  KeepsCpu(kk, swap(k1))
<1>1. swap(k1).state = k1.state /\ swap(k1).to = k1.to
  BY SwapSwitched DEF Switched
<1> QED BY <1>1 DEF KeepsCpu, is_thread_ready, is_thread_timeout_active

\* _add_thread_to_ready_q() of any thread, whatever the queue looks like
LEMMA AddType ==
    ASSUME NEW kk \in KernelType, NEW t \in Threads
    PROVE  add_thread_to_ready_q(kk, t) \in KernelType
<1> DEFINE p  == kk.prio[t]
           qq == Append(kk.q[p], t)
           cc == IF is_prio_higher(p, kk.prio[kk.cache]) THEN t ELSE kk.cache
<1>1. p \in Prios /\ kk.q[p] \in Seq(Threads) /\ cc \in Threads
  BY DEF KernelType
<1>2. qq \in Seq(Threads)
  BY <1>1
<1> DEFINE nq == [kk.q EXCEPT ![p] = qq]
           nb == kk.bmap \cup {p}
<1>3. nq \in [Prios -> Seq(Threads)] /\ nb \in SUBSET Prios
  BY <1>1, <1>2 DEF KernelType
<1>4. add_thread_to_ready_q(kk, t)
        = [kk EXCEPT !.q = nq, !.bmap = nb, !.cache = cc]
  BY DEF add_thread_to_ready_q
<1> HIDE DEF nq, nb, cc
<1> QED BY <1>1, <1>3, <1>4 DEF KernelType

\* start(): the start of a thread, at once or as the last step of its creation
LEMMA StartKeeps ==
    ASSUME NEW kk \in KernelType, NEW t \in Threads
    PROVE  KeepsCpu(kk, start(kk, t))
<1> DEFINE k1 == [kk EXCEPT !.state[t] = @ \ {"PRESTART"}]
           k2 == add_thread_to_ready_q(k1, t)
<1>1. k1 \in KernelType /\ k1.current = kk.current
  BY DEF KernelType
<1>2. \/ start(kk, t) = kk
      \/ start(kk, t) = k1
      \/ start(kk, t) = reschedule_threads(k2)
  BY DEF start
<1> HIDE DEF k1
<1>3. k2 \in KernelType /\ k2.current = kk.current
  BY <1>1, AddType, QueueOpsSame DEF SameThreads
<1> HIDE DEF k2
<1>4. KeepsCpu(kk, reschedule_threads(k2))
  BY <1>3, PreemptKeeps
<1>5. KeepsCpu(kk, kk) /\ KeepsCpu(kk, k1)
  BY <1>1 DEF KeepsCpu
<1> QED BY <1>2, <1>4, <1>5

\* the calls of the thread API other than k_yield()
LEMMA ApiKeeps ==
    ASSUME IInv, ThreadApi, ~k_yield
    PROVE  KeepsCpu(k, k')
<1> DEFINE c == k.current
<1>0. /\ InThread /\ k \in KernelType /\ Live(k) /\ Good(k) /\ c \in Threads \ {Idle}
      /\ is_thread_ready(k, c)
  <2>1. InThread
    BY DEF ThreadApi, k_sleep, k_sched_lock, k_sched_unlock, k_thread_start,
           k_thread_cancel, k_wakeup, k_thread_suspend, resume_not_ready, k_thread_resume,
           k_thread_abort, k_thread_priority_set, k_thread_create,
           k_sched_time_slice_set
  <2> QED BY <2>1, InThreadFacts
<1>1. CASE k_sleep
  <2> DEFINE k1 == remove_thread_from_ready_q(k, c)
             k2 == [k1 EXCEPT !.to[c] = "ACTIVE"]
  <2>1. k' = swap(k2)
    BY <1>1 DEF k_sleep, add_thread_timeout, Call
  <2>2. SameThreads(k, k1) /\ k1 \in KernelType
    BY <1>0, OffRemoved DEF Off, Holds
  <2> HIDE DEF k1
  <2>3. k2 \in KernelType /\ k2.current = k1.current /\ k2.to[c] = "ACTIVE"
    BY <1>0, <2>2 DEF KernelType, AllTimeouts, TimeoutStates
  <2> HIDE DEF k2
  <2>4. ~is_thread_ready(k2, c) /\ k2.current = c
    BY <2>2, <2>3 DEF is_thread_ready, is_thread_timeout_active, SameThreads
  <2> QED BY <2>1, <2>3, <2>4, BlockKeeps
<1>2. CASE k_sched_lock \/ \E t \in Apps : k_thread_cancel(t)
  BY <1>0, <1>2 DEF k_sched_lock, sched_lock, k_thread_cancel, Call, KeepsCpu,
                    KernelType, abort_thread_timeout
<1>3. CASE k_sched_unlock
  <2> DEFINE n  == k.locked[c] - 1
             k1 == [k EXCEPT !.locked[c] = n]
  <2>1. k' = reschedule_threads(k1) /\ k.locked[c] > 0
    BY <1>3 DEF k_sched_unlock, sched_unlock_no_reschedule, Call
  <2>2. n \in Nat
    BY <1>0, <2>1 DEF KernelType
  <2> HIDE DEF n
  <2>3. k1 \in KernelType /\ k1.current = k.current
    BY <1>0, <2>2 DEF KernelType
  <2> HIDE DEF k1
  <2> QED BY <2>1, <2>3, PreemptKeeps
<1>4. ASSUME NEW t \in Apps, k_thread_start(t) PROVE KeepsCpu(k, k')
  BY <1>0, <1>4, StartKeeps DEF k_thread_start, Call, Apps
<1>5. ASSUME NEW t \in Apps, k_wakeup(t) PROVE KeepsCpu(k, k')
  <2> DEFINE k1 == wakeup(k, t)
  <2>1. /\ k' = reschedule_threads(k1) /\ "PENDING" \notin k.state[t]
        /\ is_thread_timeout_active(k, t) /\ t \in Threads \ {Idle}
    BY <1>5 DEF k_wakeup, Call, Apps
  <2>2. k1 \in KernelType /\ k1.current = k.current
    BY <1>0, <2>1, WakeupLive, WakeupEffect DEF Live, Good, Holds
  <2> HIDE DEF k1
  <2> QED BY <2>1, <2>2, PreemptKeeps
<1>6. ASSUME NEW t \in Apps, k_thread_suspend(t) PROVE KeepsCpu(k, k')
  <2> DEFINE k1 == IF is_thread_ready(k, t) THEN remove_thread_from_ready_q(k, t) ELSE k
             k2 == [k1 EXCEPT !.state[t] = @ \cup {"SUSPENDED"}]
  <2>1. t \in Threads \ {Idle} /\ k' = IF t = c THEN swap(k2) ELSE k2
    BY <1>6 DEF k_thread_suspend, Call, Apps
  <2>2. k1 \in KernelType /\ k1.current = c
    <3>1. CASE is_thread_ready(k, t)
      BY <1>0, <2>1, <3>1, OffRemoved DEF Off, Holds, SameThreads
    <3>2. CASE ~is_thread_ready(k, t)
      BY <1>0, <3>2
    <3> QED BY <3>1, <3>2
  <2> HIDE DEF k1
  <2>3. k2 \in KernelType /\ k2.current = c /\ "SUSPENDED" \in k2.state[t]
    BY <2>1, <2>2 DEF KernelType, StateFlags
  <2> HIDE DEF k2
  <2>4. CASE t = c
    BY <2>1, <2>3, <2>4, BlockKeeps DEF is_thread_ready
  <2>5. CASE t # c
    BY <2>1, <2>3, <2>5 DEF KeepsCpu
  <2> QED BY <2>4, <2>5
<1>7. ASSUME NEW t \in Apps, resume_not_ready(t) PROVE KeepsCpu(k, k')
  <2> DEFINE k1 == [k EXCEPT !.state[t] = @ \ {"SUSPENDED"}]
             k2 == IF is_thread_ready(k1, t) THEN add_thread_to_ready_q(k1, t) ELSE k1
  <2>1. k' = reschedule_threads(k2) /\ t \in Threads
    BY <1>7 DEF resume_not_ready, k_thread_resume, resume, Call, Apps
  <2>2. k1 \in KernelType /\ k1.current = c
    BY <1>0, <2>1 DEF KernelType
  <2> HIDE DEF k1
  <2>3. k2 \in KernelType /\ k2.current = c
    BY <2>1, <2>2, AddType, QueueOpsSame DEF SameThreads
  <2> HIDE DEF k2
  <2> QED BY <2>1, <2>3, PreemptKeeps
<1>8. ASSUME NEW t \in Apps, k_thread_abort(t) PROVE KeepsCpu(k, k')
  <2> DEFINE k0 == IF "PENDING" \in k.state[t] THEN unpend_thread(k, t) ELSE k
             k1 == IF is_thread_ready(k, t) THEN remove_thread_from_ready_q(k, t)
                   ELSE [k0 EXCEPT !.to[t] = "INACTIVE"]
             k2 == [k1 EXCEPT !.state[t] = @ \cup {"DEAD"}]
  <2>1. /\ t \in Threads \ {Idle}
        /\ k' = IF t = c THEN swap(k2) ELSE reschedule_threads(k2)
    BY <1>8 DEF k_thread_abort, single_abort, abort_thread_timeout, Call, Apps
  <2>2. k0 \in KernelType /\ k0.current = c
    BY <1>0, <2>1, UnpendEffect
  <2> HIDE DEF k0
  <2>3. k1 \in KernelType /\ k1.current = c
    <3>1. CASE is_thread_ready(k, t)
      BY <1>0, <2>1, <3>1, OffRemoved DEF Off, Holds, SameThreads
    <3>2. CASE ~is_thread_ready(k, t)
      BY <2>1, <2>2, <3>2 DEF KernelType, AllTimeouts, TimeoutStates
    <3> QED BY <3>1, <3>2
  <2> HIDE DEF k1
  <2>4. k2 \in KernelType /\ k2.current = c /\ "DEAD" \in k2.state[t]
    BY <2>1, <2>3 DEF KernelType, StateFlags
  <2> HIDE DEF k2
  <2>5. CASE t = c
    BY <2>1, <2>4, <2>5, BlockKeeps DEF is_thread_ready
  <2>6. CASE t # c
    BY <2>1, <2>4, <2>6, PreemptKeeps
  <2> QED BY <2>5, <2>6
<1>9. ASSUME NEW t \in Apps, NEW p \in NewPrios, k_thread_priority_set(t, p)
      PROVE  KeepsCpu(k, k')
  <2> DEFINE k1 == thread_priority_set(k, t, p)
  <2>1. k' = reschedule_threads(k1) /\ t \in Threads \ {Idle} /\ p \in AppPrios
    BY <1>9, SchedAssumption DEF k_thread_priority_set, Call, Apps
  <2>2. k1 \in KernelType /\ k1.current = c
    <3>1. p \in Prios
      BY <2>1, PriosAssumption DEF AppPrios, Prios
    <3>2. Good(k1) /\ SameThreads([k EXCEPT !.prio[t] = p], k1)
      BY <1>0, <2>1, <3>1, GoodPrioSet
    <3>3. [k EXCEPT !.prio[t] = p].current = c
      BY <1>0 DEF KernelType
    <3> HIDE DEF k1
    <3> QED BY <3>2, <3>3 DEF Good, Holds, SameThreads
  <2> HIDE DEF k1
  <2> QED BY <2>1, <2>2, PreemptKeeps
<1>10. ASSUME NEW t \in Apps, NEW p \in NewPrios, NEW d \in StartDelays,
              k_thread_create(t, p, d)
       PROVE  KeepsCpu(k, k')
  <2> DEFINE k1 == [k EXCEPT !.state[t]  = {"PRESTART"},
                             !.prio[t]   = p,
                             !.locked[t] = 0,
                             !.to[t]     = "INACTIVE"]
             k2 == [k1 EXCEPT !.to[t] = "ACTIVE"]
  <2>1. k' = k1 \/ k' = k2 \/ k' = start(k1, t)
    BY <1>10 DEF k_thread_create, add_thread_timeout, Call, StartDelays
  <2>2. t \in Threads /\ p \in Prios
    BY SchedAssumption, PriosAssumption DEF Apps, AppPrios, Prios
  <2>3. k1 \in KernelType /\ k1.current = c
    BY <1>0, <2>2 DEF KernelType, StateFlags, AllTimeouts, TimeoutStates
  <2> HIDE DEF k1
  <2>4. k2.current = c
    BY <2>3 DEF KernelType
  <2> HIDE DEF k2
  <2>5. KeepsCpu(k1, start(k1, t))
    BY <2>2, <2>3, StartKeeps
  <2> QED BY <2>1, <2>3, <2>4, <2>5 DEF KeepsCpu
<1>11. ASSUME NEW s \in SliceSettings, k_sched_time_slice_set(s) PROVE KeepsCpu(k, k')
  BY <1>0, <1>11 DEF k_sched_time_slice_set, KeepsCpu, KernelType
<1> QED BY <1>1, <1>2, <1>3, <1>4, <1>5, <1>6, <1>7, <1>8, <1>9, <1>10, <1>11
        DEF ThreadApi

\* the steps of an interrupt
LEMMA InterruptKeeps ==
    ASSUME IInv, Clock \/ Device
    PROVE  KeepsCpu(k, k')
<1>0. k \in KernelType
  BY DEF IInv, TypeOK
<1>1. ASSUME NEW k1 \in KernelType, k1.current = k.current, IsrExit(k1)
      PROVE  KeepsCpu(k, k')
  <2>1. k' = k1 \/ k' = isr_exit_swap(k1)
    BY <1>1 DEF IsrExit
  <2> QED BY <1>1, <2>1, PreemptKeeps DEF KeepsCpu
<1>2. CASE DevEnter \/ DevExit \/ ClockExpired
  BY <1>0, <1>1, <1>2 DEF DevEnter, DevExit, ClockExpired, KeepsCpu
<1>3. ASSUME NEW t \in Apps, isr_wakeup(t) PROVE KeepsCpu(k, k')
  <2>1. t \in Threads /\ "PENDING" \notin k.state[t] /\ k' = wakeup(k, t)
    BY <1>3 DEF isr_wakeup, Apps
  <2> QED BY <1>0, <2>1, WakeupEffect DEF KeepsCpu
<1>4. CASE ClockEnter \/ \E t \in AllTimeouts : ClockExpire(t)
  BY <1>0, <1>4 DEF ClockEnter, ClockExpire, KeepsCpu, KernelType
<1>5. ASSUME NEW t \in Threads, ClockHandle(t) PROVE KeepsCpu(k, k')
  <2> DEFINE k1 == [k EXCEPT !.to[t] = "INACTIVE"]
             k2 == IF "PENDING" \in k1.state[t] THEN unpend_thread(k1, t) ELSE k1
  <2>1. k' = ready_thread(k2, t)
    BY <1>5 DEF ClockHandle, handle_one_expired_timeout
  <2>2. k1 \in KernelType /\ k1.current = k.current
    BY <1>0 DEF KernelType, AllTimeouts, TimeoutStates
  <2> HIDE DEF k1
  <2>3. k2 \in KernelType /\ k2.current = k.current
    BY <2>2, UnpendEffect
  <2> HIDE DEF k2
  <2> QED BY <2>1, <2>3, ReadyThreadEffect DEF KeepsCpu
<1>6. CASE ClockExit
  <2> DEFINE k1 == [k EXCEPT !.handling = FALSE]
             k2 == handle_time_slicing(k1, slice[1], slice[2])
  <2>1. IsrExit(k2)
    BY <1>6 DEF ClockExit
  <2>2. Live(k1) /\ k1 \in KernelType /\ k1.current = k.current
    BY <1>0, HandlingSet DEF IInv, KernelType
  <2> HIDE DEF k1
  <2>3. Live(k2)
    <3>1. slice[1] \in Nat
      BY SchedAssumption DEF IInv, TypeOK
    <3> QED BY <2>2, <3>1, SlicingLive
  <2>4. k2.current = k1.current
    <3> DEFINE k3 == [k1 EXCEPT !.elapsed = 0]
    <3>1. k3 \in KernelType /\ k3.current = k1.current
      BY <2>2 DEF KernelType
    <3>2. move_thread_to_end_of_prio_q(k3, k1.current).current = k3.current
      <4>1. k1.current \in Threads
        BY <2>2 DEF KernelType
      <4> HIDE DEF k3
      <4> QED BY <3>1, <4>1, QueueOpsSame DEF SameThreads
    <3>3. [k1 EXCEPT !.elapsed = @ + 1].current = k1.current
      BY <2>2 DEF KernelType
    <3> QED BY <3>1, <3>2, <3>3 DEF handle_time_slicing
  <2> HIDE DEF k2
  <2>5. k2 \in KernelType
    BY <2>3 DEF Live, Good, Holds
  <2> QED BY <1>1, <2>1, <2>2, <2>4, <2>5
<1> QED BY <1>2, <1>3, <1>4, <1>5, <1>6 DEF Clock, Device

(***************************************************************************)
(* A thread that is cooperative or has locked the scheduler keeps the CPU  *)
(* until it blocks, is stopped or yields: no call of its own that readies  *)
(* a more urgent thread, and no interrupt, takes the CPU from it.          *)
(***************************************************************************)
THEOREM CooperativeKeepsCpu == SchedSpec => NonPreemptibleKeepsCpu
<1> DEFINE A == LET c == k.current IN
         /\ k'.current # c
         /\ ~is_preempt(k, c) /\ ~is_preempt(k', c)
         => ~is_thread_ready(k', c) \/ k_yield
<1>1. IInv /\ [SchedNext]_schedVars => [A]_schedVars
  <2> SUFFICES ASSUME IInv, SchedNext, ~k_yield PROVE A
    BY DEF SchedNext
  <2>1. KeepsCpu(k, k')
    BY ApiKeeps, InterruptKeeps DEF SchedNext
  <2> QED BY <2>1 DEF KeepsCpu
<1> QED BY <1>1, SchedInvariant, PTL DEF SchedSpec, NonPreemptibleKeepsCpu

(***************************************************************************)
(* A wait queue is sorted as long as the priorities of its threads stay ... *)
(***************************************************************************)
Sorted(kk, s) ==
    \A i, j \in 1..Len(s) : i < j => kk.prio[s[i]] <= kk.prio[s[j]]

\* ... because unlinking a thread keeps a sorted queue sorted ...
LEMMA SortedRemoved ==
    ASSUME NEW kk \in KernelType, NEW s \in Seq(Threads), Sorted(kk, s), NEW t
    PROVE  Sorted(kk, dlist_remove(s, t))
<1>1. CASE \E i \in 1..Len(s) : s[i] = t
  <2> DEFINE n == CHOOSE i \in 1..Len(s) : s[i] = t
             r == RemoveAt(s, n)
  <2>1. n \in 1..Len(s) /\ dlist_remove(s, t) = r
    BY <1>1 DEF dlist_remove
  <2> HIDE DEF n
  <2>2. /\ Len(r) = Len(s) - 1 /\ Len(s) \in Nat
        /\ \A j \in 1..(Len(s) - 1) : r[j] = IF j < n THEN s[j] ELSE s[j + 1]
    BY <2>1, RemoveAtProps, LenProperties
  <2> HIDE DEF r
  <2>3. ASSUME NEW i \in 1..Len(r), NEW j \in 1..Len(r), i < j
        PROVE  kk.prio[r[i]] <= kk.prio[r[j]]
    <3>1. PICK a \in 1..Len(s), b \in 1..Len(s) : a < b /\ r[i] = s[a] /\ r[j] = s[b]
      <4>1. /\ i \in 1..(Len(s) - 1) /\ j \in 1..(Len(s) - 1) /\ n \in Nat
            /\ i \in 1..Len(s) /\ j \in 1..Len(s)
            /\ i + 1 \in 1..Len(s) /\ j + 1 \in 1..Len(s)
            /\ i < j + 1 /\ i + 1 < j + 1
        BY <2>1, <2>2, <2>3
      <4>2. CASE j < n
        BY <2>2, <2>3, <4>1, <4>2
      <4>3. CASE ~(j < n) /\ i < n
        BY <2>2, <2>3, <4>1, <4>3
      <4>4. CASE ~(i < n)
        BY <2>2, <2>3, <4>1, <4>4
      <4> QED BY <4>2, <4>3, <4>4
    <3> QED BY <3>1 DEF Sorted
  <2> QED BY <2>1, <2>3 DEF Sorted
<1>2. CASE ~\E i \in 1..Len(s) : s[i] = t
  BY <1>2 DEF dlist_remove
<1> QED BY <1>1, <1>2

\* ... and pend_thread() links a thread after all that are as urgent
LEMMA SortedInserted ==
    ASSUME NEW kk \in KernelType, NEW t \in Threads, NEW w \in WaitQs,
           Sorted(kk, kk.wq[w])
    PROVE  Sorted(kk, InsertAt(kk.wq[w], pend_position(kk, t, w), t))
<1> DEFINE s == kk.wq[w]
           n == pend_position(kk, t, w)
           r == InsertAt(s, n, t)
<1>1. /\ n \in 1..(Len(s) + 1)
      /\ \A i \in 1..Len(s) : i < n => ~(kk.prio[t] < kk.prio[s[i]])
      /\ n <= Len(s) => kk.prio[t] < kk.prio[s[n]]
  BY PendPosition
<1>2. s \in Seq(Threads) /\ Sorted(kk, s)
  BY DEF KernelType
<1> HIDE DEF n, s
<1>3. Len(s) \in Nat /\ \A i \in 1..Len(s) : s[i] \in Threads
  BY <1>2
<1>4. /\ Len(r) = Len(s) + 1
      /\ \A j \in 1..(Len(s) + 1) : r[j] = IF j < n THEN s[j]
                                           ELSE IF j = n THEN t ELSE s[j - 1]
  BY <1>1, <1>2, InsertAtProps
<1>5. \A u \in Threads : kk.prio[u] \in Int
  BY PriosAssumption DEF KernelType, Prios
<1> HIDE DEF r
<1>6. \A i \in 1..Len(s) : i < n => kk.prio[s[i]] <= kk.prio[t]
  BY <1>1, <1>3, <1>5
<1>7. \A i \in 1..Len(s) : n <= i => kk.prio[t] <= kk.prio[s[i]]
  <2> SUFFICES ASSUME NEW i \in 1..Len(s), n <= i
               PROVE  kk.prio[t] <= kk.prio[s[i]]
    OBVIOUS
  <2>1. n \in 1..Len(s)
    BY <1>1, <1>3
  <2>2. kk.prio[s[n]] <= kk.prio[s[i]]
    BY <1>2, <1>3, <1>5, <2>1 DEF Sorted
  <2> QED BY <1>1, <1>3, <1>5, <2>1, <2>2
<1>8. ASSUME NEW i \in 1..Len(r), NEW j \in 1..Len(r), i < j
      PROVE  kk.prio[r[i]] <= kk.prio[r[j]]
  <2>1. CASE j < n
    BY <1>1, <1>2, <1>3, <1>4, <1>8, <2>1 DEF Sorted
  <2>2. CASE j = n
    BY <1>1, <1>3, <1>4, <1>6, <1>8, <2>2
  <2>3. CASE n < j /\ i < n
    <3>1. i \in 1..Len(s) /\ (j - 1) \in 1..Len(s) /\ n <= j - 1
      BY <1>1, <1>3, <1>4, <1>8, <2>3
    <3>2. r[i] = s[i] /\ r[j] = s[j - 1]
      BY <1>1, <1>3, <1>4, <1>8, <2>3
    <3>3. kk.prio[s[i]] <= kk.prio[t] /\ kk.prio[t] <= kk.prio[s[j - 1]]
      BY <1>6, <1>7, <2>3, <3>1
    <3>4. kk.prio[s[i]] \in Int /\ kk.prio[t] \in Int /\ kk.prio[s[j - 1]] \in Int
      BY <1>3, <1>5, <3>1
    <3> QED BY <3>2, <3>3, <3>4
  <2>4. CASE i = n
    <3>1. (j - 1) \in 1..Len(s) /\ n <= j - 1
      BY <1>1, <1>3, <1>4, <1>8, <2>4
    <3>2. r[i] = t /\ r[j] = s[j - 1]
      BY <1>1, <1>3, <1>4, <1>8, <2>4
    <3> QED BY <1>7, <3>1, <3>2
  <2>5. CASE n < i
    <3>1. (i - 1) \in 1..Len(s) /\ (j - 1) \in 1..Len(s) /\ i - 1 < j - 1
      BY <1>1, <1>3, <1>4, <1>8, <2>5
    <3>2. r[i] = s[i - 1] /\ r[j] = s[j - 1]
      BY <1>1, <1>3, <1>4, <1>8, <2>5
    <3> QED BY <1>2, <3>1, <3>2 DEF Sorted
  <2> QED BY <1>1, <1>4, <1>8, <2>1, <2>2, <2>3, <2>4, <2>5
<1> QED BY <1>8 DEF Sorted, r, s, n

(***************************************************************************)
(* The start: the ready threads of each priority, in some order.           *)
(***************************************************************************)
LEMMA SomeOrder ==
    ASSUME IsFiniteSet(Threads), NEW S \in SUBSET Threads
    PROVE  IsList(SetToSeq(S), S)
<1> DEFINE n == Cardinality(S)
<1>1. IsFiniteSet(S)
  BY FS_Subset
<1>2. n \in Nat /\ ExistsBijection(1..n, S)
  BY <1>1, FS_CardinalityType
<1>3. SetToSeq(S) = CHOOSE f \in [1..n -> S] : IsInjective(f)
  BY DEF SetToSeq
<1> HIDE DEF n
<1>4. \E f \in [1..n -> S] : IsInjective(f)
  BY <1>2 DEF ExistsBijection, Bijection, Injection
<1>5. PICK g : g = SetToSeq(S)
  OBVIOUS
<1>6. g \in [1..n -> S] /\ IsInjective(g)
  BY <1>3, <1>4, <1>5
<1>7. g \in Injection(1..n, S)
  BY <1>6 DEF Injection
<1>8. Cardinality(1..n) = n
  BY <1>2, FS_Interval
<1>9. g \in Surjection(1..n, S)
  BY <1>1, <1>7, <1>8, FS_Injection DEF n
<1>10. \A t \in S : \E i \in 1..n : g[i] = t
  BY <1>9 DEF Surjection
<1>11. g \in Seq(Threads) /\ DOMAIN g = 1..n
  BY <1>2, <1>6
<1>12. ToSet(g) = S
  BY <1>6, <1>10, <1>11 DEF ToSet
<1> QED BY <1>5, <1>6, <1>11, <1>12 DEF IsList

\* the record of a kernel whose threads have all been started
Fresh ==
    LET at(p) == SetToSeq({t \in Threads : InitPrio[t] = p})
        top   == Head(at(Min({InitPrio[t] : t \in Threads})))
    IN [current  |-> top,
        cache    |-> top,
        q        |-> [p \in Prios |-> at(p)],
        bmap     |-> {InitPrio[t] : t \in Threads},
        prio     |-> InitPrio,
        state    |-> [t \in Threads |-> {}],
        locked   |-> [t \in Threads |-> 0],
        to       |-> [t \in AllTimeouts |-> "INACTIVE"],
        wq       |-> [w \in WaitQs |-> <<>>],
        rv       |-> [t \in Threads |-> "EAGAIN"],
        handling |-> FALSE,
        elapsed  |-> 0]

\* the scheduler's invariant holds of it
LEMMA FreshGood ==
    ASSUME IsFiniteSet(Threads), NEW kk, kk = Fresh
    PROVE  kk \in KernelType /\ Live(kk) /\ Settled(kk)
<1> DEFINE at(p) == SetToSeq({t \in Threads : InitPrio[t] = p})
           P     == {InitPrio[t] : t \in Threads}
           top   == Head(at(Min(P)))
<1>0. kk = [current  |-> top,
            cache    |-> top,
            q        |-> [p \in Prios |-> at(p)],
            bmap     |-> P,
            prio     |-> InitPrio,
            state    |-> [t \in Threads |-> {}],
            locked   |-> [t \in Threads |-> 0],
            to       |-> [t \in AllTimeouts |-> "INACTIVE"],
            wq       |-> [w \in WaitQs |-> <<>>],
            rv       |-> [t \in Threads |-> "EAGAIN"],
            handling |-> FALSE,
            elapsed  |-> 0]
  BY DEF Fresh
<1>1. /\ Idle \in Threads /\ InitPrio \in [Threads -> Prios]
      /\ InitPrio[Idle] = NumPreempt
  BY ThreadsAssumption, SchedAssumption
<1>2. \A p \in Prios : IsList(at(p), {t \in Threads : InitPrio[t] = p})
  BY SomeOrder
<1>3. P \in SUBSET Prios /\ P # {}
  BY <1>1
<1>4. Min(P) \in P /\ Min(P) \in Prios
  BY <1>3, MinPrio
<1> HIDE DEF at, P
<1>5. \A p \in Prios : at(p) # <<>> <=> p \in P
  <2>1. ASSUME NEW p \in Prios PROVE at(p) # <<>> <=> p \in P
    <3>1. at(p) = <<>> <=> {t \in Threads : InitPrio[t] = p} = {}
      BY <1>2, ListHead
    <3> QED BY <3>1 DEF P
  <2> QED BY <2>1
<1>6. top \in Threads
  <2>1. IsList(at(Min(P)), {t \in Threads : InitPrio[t] = Min(P)}) /\ at(Min(P)) # <<>>
    BY <1>2, <1>4, <1>5
  <2> QED BY <2>1, ListHead
<1> HIDE DEF top
<1>7. /\ kk.current = top /\ kk.cache = top /\ kk.q = [p \in Prios |-> at(p)]
      /\ kk.bmap = P /\ kk.prio = InitPrio /\ kk.state = [t \in Threads |-> {}]
      /\ kk.locked = [t \in Threads |-> 0]
      /\ kk.to = [t \in AllTimeouts |-> "INACTIVE"]
      /\ kk.wq = [w \in WaitQs |-> <<>>] /\ kk.rv = [t \in Threads |-> "EAGAIN"]
      /\ kk.handling = FALSE /\ kk.elapsed = 0
  BY <1>0
<1>8. kk \in KernelType
  <2>1. kk.q \in [Prios -> Seq(Threads)]
    BY <1>2, <1>7 DEF IsList
  <2>2. kk.wq \in [WaitQs -> Seq(Threads)]
    BY <1>7
  <2>3. /\ kk.state \in [Threads -> SUBSET StateFlags]
        /\ kk.to \in [AllTimeouts -> TimeoutStates]
        /\ kk.locked \in [Threads -> Nat]
        /\ kk.rv \in [Threads -> RetVals]
    BY <1>7 DEF StateFlags, TimeoutStates, RetVals
  <2>4. kk = [current |-> kk.current, cache |-> kk.cache, q |-> kk.q, bmap |-> kk.bmap,
             prio |-> kk.prio, state |-> kk.state, locked |-> kk.locked, to |-> kk.to,
             wq |-> kk.wq, rv |-> kk.rv, handling |-> kk.handling,
             elapsed |-> kk.elapsed]
    BY <1>0
  <2>5. /\ kk.current \in Threads /\ kk.cache \in Threads /\ kk.bmap \in SUBSET Prios
        /\ kk.prio \in [Threads -> Prios] /\ kk.elapsed \in Nat
    BY <1>1, <1>3, <1>6, <1>7
  <2>6. kk.handling \in BOOLEAN
    BY <1>7
  <2> QED BY <2>1, <2>2, <2>3, <2>4, <2>5, <2>6 DEF KernelType
<1>9. ReadyThreads(kk) = Threads
  <2>1. \A t \in Threads : kk.state[t] = {} /\ kk.to[t] = "INACTIVE"
    BY <1>7 DEF AllTimeouts
  <2> QED BY <2>1 DEF ReadyThreads, is_thread_ready, is_thread_timeout_active
<1>10. \A p \in Prios : IsList(kk.q[p], {t \in Threads : kk.prio[t] = p})
  BY <1>2, <1>7
<1>11. cache_is_next(kk)
  <2>1. kk.bmap = {p \in Prios : kk.q[p] # <<>>}
    BY <1>3, <1>5, <1>7
  <2>2. kk.cache = Head(kk.q[Min(kk.bmap)])
    BY <1>4, <1>7 DEF top
  <2> QED BY <1>3, <1>7, <2>1, <2>2
          DEF cache_is_next, get_ready_q_head, get_highest_ready_prio
<1>12. Good(kk)
  BY <1>1, <1>7, <1>8, <1>9, <1>10, <1>11 DEF Good, Holds
<1>13. Live(kk) /\ Settled(kk)
  BY <1>7, <1>12, CacheSettled
<1> QED BY <1>8, <1>13

=============================================================================
