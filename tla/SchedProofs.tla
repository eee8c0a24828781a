---------------------------- MODULE SchedProofs ----------------------------
(***************************************************************************)
(* Proofs about the scheduler, for any number of threads, priorities and   *)
(* wait queues, any initial priorities, any time slice settings, either    *)
(* port, and any interrupt sources.                                        *)
(*                                                                         *)
(* ReadyQueueExact, CacheIsNext and NoMissedPreemption are not inductive   *)
(* one by one: the cache is right only because the queues are, the queues  *)
(* are only because the running thread is a ready one, and that is because *)
(* the cache is right when it is switched to.  IInv is their conjunction   *)
(* with the type and with the idle thread being ready at its own priority. *)
(***************************************************************************)
EXTENDS Sched, ListProofs

(***************************************************************************)
(* PART 1.  The operators of KernelOps: what the lists and the ready queue *)
(* are after each of the kernel's primitives, for any kernel record.       *)
(***************************************************************************)

(***************************************************************************)
(* A list of threads: linked once each, and exactly the threads of S.      *)
(***************************************************************************)
IsList(s, S) == s \in Seq(Threads) /\ IsInjective(s) /\ ToSet(s) = S

(***************************************************************************)
(* A list is empty exactly when it has no members, and its head is one.    *)
(***************************************************************************)
LEMMA ListHead ==
    ASSUME NEW S, NEW s, IsList(s, S)
    PROVE  /\ s = <<>> <=> S = {}
           /\ s # <<>> => Head(s) \in S /\ Head(s) = s[1] /\ Len(s) > 0
<1>1. s \in Seq(Threads) /\ S = {s[i] : i \in DOMAIN s}
  BY DEF IsList, ToSet
<1>2. Len(s) \in Nat /\ DOMAIN s = 1..Len(s)
  BY <1>1, LenProperties
<1>3. CASE s = <<>>
  BY <1>1, <1>2, <1>3
<1>4. CASE s # <<>>
  <2>1. Len(s) > 0
    BY <1>1, <1>2, <1>4, EmptySeq
  <2>2. Head(s) = s[1]
    BY <1>1, <1>4, <2>1
  <2>3. s[1] \in S
    BY <1>1, <1>2, <2>1
  <2> QED BY <1>4, <2>1, <2>2, <2>3
<1> QED BY <1>3, <1>4

(***************************************************************************)
(* sys_dlist_append() of a thread that is not on the list.                 *)
(***************************************************************************)
LEMMA ListAppend ==
    ASSUME NEW S, NEW s, IsList(s, S), NEW t \in Threads, t \notin S
    PROVE  /\ IsList(Append(s, t), S \cup {t})
           /\ Append(s, t) # <<>>
           /\ Head(Append(s, t)) = IF s = <<>> THEN t ELSE Head(s)
<1> DEFINE a == Append(s, t)
           n == Len(s)
<1>1. s \in Seq(Threads) /\ S = {s[i] : i \in DOMAIN s} /\ IsInjective(s)
  BY DEF IsList, ToSet
<1>2. n \in Nat /\ DOMAIN s = 1..n
  BY <1>1, LenProperties
<1>3. /\ a \in Seq(Threads) /\ a # <<>> /\ Len(a) = n + 1
      /\ \A i \in 1..n : a[i] = s[i]
      /\ a[n + 1] = t
  BY <1>1, AppendProperties
<1>4. DOMAIN a = 1..(n + 1)
  BY <1>3, LenProperties
<1>5. Head(a) = IF s = <<>> THEN t ELSE Head(s)
  BY <1>1, HeadTailAppend
<1> HIDE DEF a, n
<1>6. ToSet(a) = S \cup {t}
  BY <1>1, <1>2, <1>3, <1>4 DEF ToSet
<1>7. IsInjective(a)
  <2> SUFFICES ASSUME NEW i \in 1..(n + 1), NEW j \in 1..(n + 1), a[i] = a[j]
               PROVE  i = j
    BY <1>4 DEF IsInjective
  <2>1. CASE i \in 1..n /\ j \in 1..n
    BY <1>1, <1>2, <1>3, <2>1 DEF IsInjective
  <2>2. CASE i = n + 1 /\ j \in 1..n
    BY <1>1, <1>2, <1>3, <2>2
  <2>3. CASE i \in 1..n /\ j = n + 1
    BY <1>1, <1>2, <1>3, <2>3
  <2> QED BY <1>2, <2>1, <2>2, <2>3
<1> QED BY <1>3, <1>5, <1>6, <1>7 DEF IsList, a

(***************************************************************************)
(* sys_dlist_remove() of a thread that is on the list: it is off, and the  *)
(* head stays unless it was the head.                                      *)
(***************************************************************************)
LEMMA ListRemove ==
    ASSUME NEW S, NEW s, IsList(s, S), NEW t \in S
    PROVE  /\ IsList(dlist_remove(s, t), S \ {t})
           /\ Head(s) # t => /\ dlist_remove(s, t) # <<>>
                             /\ Head(dlist_remove(s, t)) = Head(s)
<1> DEFINE n == Len(s)
           i == CHOOSE x \in 1..n : s[x] = t
           r == RemoveAt(s, i)
<1>1. s \in Seq(Threads) /\ S = {s[x] : x \in DOMAIN s} /\ IsInjective(s)
  BY DEF IsList, ToSet
<1>2. n \in Nat /\ DOMAIN s = 1..n
  BY <1>1, LenProperties
<1>3. \E x \in 1..n : s[x] = t
  BY <1>1, <1>2
<1>4. i \in 1..n /\ s[i] = t
  BY <1>3
<1>5. dlist_remove(s, t) = r
  BY <1>3 DEF dlist_remove
<1> HIDE DEF i, n
<1>6. /\ r \in Seq(Threads) /\ Len(r) = n - 1
      /\ \A j \in 1..(n - 1) : r[j] = IF j < i THEN s[j] ELSE s[j + 1]
  BY <1>1, <1>4, RemoveAtProps DEF n
<1> HIDE DEF r
<1>7. DOMAIN r = 1..(n - 1)
  BY <1>6, LenProperties
<1>8. \A x, y \in 1..n : s[x] = s[y] => x = y
  BY <1>1, <1>2 DEF IsInjective
<1>9. IsInjective(r)
  <2> SUFFICES ASSUME NEW x \in 1..(n - 1), NEW y \in 1..(n - 1), r[x] = r[y]
               PROVE  x = y
    BY <1>7 DEF IsInjective
  <2>1. CASE x < i /\ y < i
    BY <1>2, <1>4, <1>6, <1>8, <2>1
  <2>2. CASE x < i /\ ~(y < i)
    <3>1. s[x] = s[y + 1] /\ x \in 1..n /\ y + 1 \in 1..n
      BY <1>2, <1>4, <1>6, <2>2
    <3> QED BY <1>2, <1>4, <1>8, <2>2, <3>1
  <2>3. CASE ~(x < i) /\ y < i
    <3>1. s[x + 1] = s[y] /\ x + 1 \in 1..n /\ y \in 1..n
      BY <1>2, <1>4, <1>6, <2>3
    <3> QED BY <1>2, <1>4, <1>8, <2>3, <3>1
  <2>4. CASE ~(x < i) /\ ~(y < i)
    <3>1. s[x + 1] = s[y + 1] /\ x + 1 \in 1..n /\ y + 1 \in 1..n
      BY <1>2, <1>4, <1>6, <2>4
    <3>2. x + 1 = y + 1
      BY <1>8, <3>1
    <3> QED BY <1>2, <3>2
  <2> QED BY <2>1, <2>2, <2>3, <2>4
<1>10. ToSet(r) = S \ {t}
  <2>1. ASSUME NEW x \in 1..(n - 1) PROVE r[x] \in S \ {t}
    <3>1. CASE x < i
      <4>1. x \in 1..n /\ r[x] = s[x] /\ x # i
        BY <1>2, <1>4, <1>6, <3>1
      <4> QED BY <1>1, <1>2, <1>4, <1>8, <4>1
    <3>2. CASE ~(x < i)
      <4>1. x + 1 \in 1..n /\ r[x] = s[x + 1] /\ x + 1 # i
        BY <1>2, <1>4, <1>6, <3>2
      <4> QED BY <1>1, <1>2, <1>4, <1>8, <4>1
    <3> QED BY <3>1, <3>2
  <2>2. ASSUME NEW u \in S \ {t} PROVE \E x \in 1..(n - 1) : r[x] = u
    <3>1. PICK x \in 1..n : s[x] = u
      BY <1>1, <1>2
    <3>2. CASE x < i
      BY <1>2, <1>4, <1>6, <3>1, <3>2
    <3>3. CASE ~(x < i)
      <4>1. x > i
        BY <1>4, <3>1, <3>3
      <4>2. x - 1 \in 1..(n - 1) /\ ~(x - 1 < i) /\ (x - 1) + 1 = x
        BY <1>2, <1>4, <4>1
      <4>3. r[x - 1] = s[(x - 1) + 1]
        BY <1>6, <4>2
      <4> QED BY <3>1, <4>2, <4>3
    <3> QED BY <3>2, <3>3
  <2> QED BY <1>7, <2>1, <2>2 DEF ToSet
<1>11. ASSUME Head(s) # t PROVE r # <<>> /\ Head(r) = Head(s)
  <2>1. s # <<>> /\ Head(s) = s[1] /\ Head(s) \in S
    BY ListHead
  <2>2. i > 1
    BY <1>4, <1>11, <2>1
  <2>3. 1 \in 1..(n - 1) /\ r[1] = s[1]
    BY <1>2, <1>4, <1>6, <2>2
  <2>4. r # <<>>
    BY <1>2, <1>4, <1>6, <2>2, EmptySeq
  <2> QED BY <1>6, <2>1, <2>3, <2>4
<1> QED BY <1>5, <1>6, <1>9, <1>10, <1>11 DEF IsList

(***************************************************************************)
(* sys_dlist_remove() yields a list of threads, on the list or not.        *)
(***************************************************************************)
LEMMA RemoveType ==
    ASSUME NEW s \in Seq(Threads), NEW t PROVE dlist_remove(s, t) \in Seq(Threads)
<1> DEFINE i == CHOOSE x \in 1..Len(s) : s[x] = t
<1>1. CASE \E x \in 1..Len(s) : s[x] = t
  <2>1. i \in 1..Len(s)
    BY <1>1
  <2> HIDE DEF i
  <2>2. RemoveAt(s, i) \in Seq(Threads)
    BY <2>1, RemoveAtProps
  <2> QED BY <1>1, <2>2 DEF dlist_remove, i
<1>2. CASE ~\E x \in 1..Len(s) : s[x] = t
  BY <1>2 DEF dlist_remove
<1> QED BY <1>1, <1>2

(***************************************************************************)
(* Every non-empty set of priorities has a least element, and Min (the     *)
(* bitmap's first bit) is it.                                              *)
(***************************************************************************)
LEMMA MinPrio ==
    ASSUME NEW S \in SUBSET Prios, S # {}
    PROVE  Min(S) \in S /\ \A p \in S : Min(S) <= p
<1> DEFINE N == {p + NumCoop : p \in S}
<1>1. NumCoop \in Nat /\ \A p \in S : p \in Int /\ p + NumCoop \in Nat
  BY PriosAssumption DEF Prios
<1>2. N \in SUBSET Nat /\ N # {}
  BY <1>1
<1>3. PICK x \in N : \A y \in N : x <= y
  BY <1>2, NatMin
<1>4. PICK m \in S : x = m + NumCoop
  BY <1>3
<1>5. ASSUME NEW p \in S PROVE m <= p
  <2>1. m + NumCoop <= p + NumCoop
    BY <1>3, <1>4
  <2> QED BY <1>1, <2>1
<1> QED BY <1>4, <1>5 DEF Min

(***************************************************************************)
(* Conversely, a least element of a set of priorities is its Min.          *)
(***************************************************************************)
LEMMA MinPrioIs ==
    ASSUME NEW S \in SUBSET Prios, NEW m \in S, \A p \in S : m <= p
    PROVE  Min(S) = m
<1>1. Min(S) \in S /\ \A p \in S : Min(S) <= p
  BY MinPrio
<1>2. \A p \in Prios : p \in Int
  BY PriosAssumption DEF Prios
<1> DEFINE n == Min(S)
<1> HIDE DEF n
<1>3. n <= m /\ m <= n /\ n \in Int /\ m \in Int
  BY <1>1, <1>2 DEF n
<1>4. n = m
  BY <1>3
<1> QED BY <1>4 DEF n

(***************************************************************************)
(* The ready queue of kk holds exactly the threads of R: every list, the   *)
(* bitmap and the cache.  The idle thread is always there.                 *)
(***************************************************************************)
Holds(kk, R) ==
    /\ kk \in KernelType
    /\ R \in SUBSET Threads
    /\ Idle \in R /\ kk.prio[Idle] = NumPreempt
    /\ \A p \in Prios : IsList(kk.q[p], {t \in R : kk.prio[t] = p})
    /\ cache_is_next(kk)

(***************************************************************************)
(* Then the cache is one of those threads, and none of them is more urgent *)
(* (_get_ready_q_head).                                                    *)
(***************************************************************************)
LEMMA CacheMostUrgent ==
    ASSUME NEW kk, NEW R, Holds(kk, R)
    PROVE  /\ kk.cache \in R
           /\ kk.bmap \in SUBSET Prios
           /\ Min(kk.bmap) \in kk.bmap
           /\ kk.prio[kk.cache] = Min(kk.bmap)
           /\ \A t \in R : Min(kk.bmap) <= kk.prio[t]
<1> DEFINE m == Min(kk.bmap)
<1>1. kk.bmap = {p \in Prios : kk.q[p] # <<>>} /\ kk.bmap # {}
  BY DEF Holds, cache_is_next
<1>2. kk.bmap \in SUBSET Prios /\ m \in kk.bmap /\ \A p \in kk.bmap : m <= p
  BY <1>1, MinPrio
<1>3. kk.cache = Head(kk.q[m])
  BY DEF Holds, cache_is_next, get_ready_q_head, get_highest_ready_prio
<1> HIDE DEF m
<1>4. m \in Prios /\ kk.q[m] # <<>>
  BY <1>1, <1>2
<1>5. kk.cache \in {t \in R : kk.prio[t] = m}
  <2>1. IsList(kk.q[m], {t \in R : kk.prio[t] = m})
    BY <1>4 DEF Holds
  <2> QED BY <1>3, <1>4, <2>1, ListHead
<1>6. ASSUME NEW t \in R PROVE m <= kk.prio[t]
  <2>1. kk.prio[t] \in Prios
    BY DEF Holds, KernelType
  <2>2. IsList(kk.q[kk.prio[t]], {u \in R : kk.prio[u] = kk.prio[t]})
    BY <2>1 DEF Holds
  <2>3. kk.q[kk.prio[t]] # <<>>
    BY <2>2, ListHead
  <2> QED BY <1>1, <1>2, <2>1, <2>3
<1> QED BY <1>2, <1>5, <1>6 DEF m

(***************************************************************************)
(* Only the lists, the bitmap, the cache and the priorities of the queued  *)
(* threads matter.                                                         *)
(***************************************************************************)
LEMMA HoldsFrame ==
    ASSUME NEW kk, NEW R, Holds(kk, R), NEW k2 \in KernelType,
           k2.q = kk.q, k2.bmap = kk.bmap, k2.cache = kk.cache,
           \A t \in R : k2.prio[t] = kk.prio[t]
    PROVE  Holds(k2, R)
<1>1. ASSUME NEW p \in Prios
      PROVE  {t \in R : k2.prio[t] = p} = {t \in R : kk.prio[t] = p}
  OBVIOUS
<1>2. \A p \in Prios : IsList(k2.q[p], {t \in R : k2.prio[t] = p})
  BY <1>1 DEF Holds
<1>3. cache_is_next(k2)
  BY DEF Holds, cache_is_next, get_ready_q_head, get_highest_ready_prio
<1> QED BY <1>2, <1>3 DEF Holds

(***************************************************************************)
(* Fields that the ready queue operations leave alone.                     *)
(***************************************************************************)
SameThreads(k1, k2) ==
    /\ k2.current = k1.current /\ k2.prio = k1.prio /\ k2.state = k1.state
    /\ k2.locked = k1.locked /\ k2.to = k1.to /\ k2.wq = k1.wq
    /\ k2.rv = k1.rv /\ k2.handling = k1.handling /\ k2.elapsed = k1.elapsed

(***************************************************************************)
(* _add_thread_to_ready_q() of a thread that is not queued.                *)
(***************************************************************************)
LEMMA AddHolds ==
    ASSUME NEW kk, NEW R, Holds(kk, R), NEW t \in Threads, t \notin R
    PROVE  /\ Holds(add_thread_to_ready_q(kk, t), R \cup {t})
           /\ SameThreads(kk, add_thread_to_ready_q(kk, t))
<1> DEFINE k2 == add_thread_to_ready_q(kk, t)
           p  == kk.prio[t]
           m  == Min(kk.bmap)
<1>1. kk \in KernelType /\ p \in Prios /\ R \in SUBSET Threads
  BY DEF Holds, KernelType
<1>2. /\ kk.cache \in R /\ kk.bmap \in SUBSET Prios /\ m \in kk.bmap
      /\ kk.prio[kk.cache] = m
      /\ \A u \in R : m <= kk.prio[u]
  BY CacheMostUrgent
<1>3. /\ kk.bmap = {x \in Prios : kk.q[x] # <<>>}
      /\ kk.cache = Head(kk.q[m])
  BY DEF Holds, cache_is_next, get_ready_q_head, get_highest_ready_prio
<1>4. /\ k2.q = [kk.q EXCEPT ![p] = Append(kk.q[p], t)]
      /\ k2.bmap = kk.bmap \cup {p}
      /\ k2.cache = IF p < m THEN t ELSE kk.cache
      /\ SameThreads(kk, k2)
  BY <1>1, <1>2 DEF add_thread_to_ready_q, is_prio_higher, SameThreads, KernelType
<1>5. IsList(kk.q[p], {u \in R : kk.prio[u] = p})
  BY <1>1 DEF Holds
<1>6. /\ IsList(Append(kk.q[p], t), {u \in R : kk.prio[u] = p} \cup {t})
      /\ Append(kk.q[p], t) # <<>>
      /\ Head(Append(kk.q[p], t)) = IF kk.q[p] = <<>> THEN t ELSE Head(kk.q[p])
  <2>1. t \notin {u \in R : kk.prio[u] = p}
    OBVIOUS
  <2> QED BY <1>5, <2>1, ListAppend
<1>7. kk.q \in [Prios -> Seq(Threads)]
  BY <1>1 DEF KernelType
<1>8. k2 \in KernelType
  <2>1. Append(kk.q[p], t) \in Seq(Threads)
    BY <1>6 DEF IsList
  <2> QED BY <1>1, <2>1 DEF add_thread_to_ready_q, KernelType
<1> HIDE DEF k2
<1>9. ASSUME NEW x \in Prios
      PROVE  IsList(k2.q[x], {u \in R \cup {t} : k2.prio[u] = x})
  <2>1. k2.prio = kk.prio
    BY <1>4 DEF SameThreads
  <2>2. CASE x = p
    <3>1. {u \in R \cup {t} : kk.prio[u] = x} = {u \in R : kk.prio[u] = p} \cup {t}
      BY <2>2
    <3>2. k2.q[x] = Append(kk.q[p], t)
      BY <1>1, <1>4, <1>7, <2>2
    <3> QED BY <1>6, <2>1, <3>1, <3>2
  <2>3. CASE x # p
    <3>1. {u \in R \cup {t} : kk.prio[u] = x} = {u \in R : kk.prio[u] = x}
      BY <2>3
    <3>2. k2.q[x] = kk.q[x]
      BY <1>4, <1>7, <2>3
    <3> QED BY <2>1, <3>1, <3>2 DEF Holds
  <2> QED BY <2>2, <2>3
<1>10. k2.bmap = {x \in Prios : k2.q[x] # <<>>}
  BY <1>1, <1>3, <1>4, <1>6, <1>7
<1>11. k2.cache = Head(k2.q[Min(k2.bmap)])
  <2>1. \A x \in kk.bmap : m <= x
    BY <1>2, MinPrio
  <2>2. p \in Int /\ m \in Int /\ \A x \in kk.bmap : x \in Int
    BY <1>1, <1>2, PriosAssumption DEF Prios
  <2> HIDE DEF p, m
  <2>3. CASE p < m
    <3>1. Min(k2.bmap) = p
      <4>1. \A x \in k2.bmap : p <= x
        BY <1>4, <2>1, <2>2, <2>3
      <4>2. k2.bmap \in SUBSET Prios /\ p \in k2.bmap
        BY <1>1, <1>2, <1>4
      <4> QED BY <4>1, <4>2, MinPrioIs
    <3>2. p \notin kk.bmap
      BY <2>1, <2>2, <2>3
    <3>3. kk.q[p] = <<>>
      BY <1>1, <1>3, <3>2
    <3> QED BY <1>1, <1>4, <1>6, <1>7, <2>3, <3>1, <3>3
  <2>4. CASE ~(p < m)
    <3>1. Min(k2.bmap) = m
      <4>1. \A x \in k2.bmap : m <= x
        BY <1>4, <2>1, <2>2, <2>4
      <4>2. k2.bmap \in SUBSET Prios /\ m \in k2.bmap
        BY <1>1, <1>2, <1>4
      <4> QED BY <4>1, <4>2, MinPrioIs
    <3>2. CASE p = m
      <4>1. kk.q[p] # <<>>
        BY <1>2, <1>3, <3>2
      <4> QED BY <1>1, <1>3, <1>4, <1>6, <1>7, <2>4, <3>1, <3>2, <4>1
    <3>3. CASE p # m
      <4>1. m \in Prios
        BY <1>2
      <4> QED BY <1>1, <1>3, <1>4, <1>7, <2>4, <3>1, <3>3, <4>1
    <3> QED BY <3>2, <3>3
  <2> QED BY <2>3, <2>4
<1>12. cache_is_next(k2)
  BY <1>1, <1>4, <1>10, <1>11
     DEF cache_is_next, get_ready_q_head, get_highest_ready_prio
<1>13. R \cup {t} \in SUBSET Threads /\ Idle \in R \cup {t} /\ k2.prio[Idle] = NumPreempt
  BY <1>4 DEF Holds, SameThreads
<1> QED BY <1>4, <1>8, <1>9, <1>12, <1>13 DEF Holds, k2

(***************************************************************************)
(* _remove_thread_from_ready_q() of a queued thread other than idle.       *)
(***************************************************************************)
LEMMA RemoveHolds ==
    ASSUME NEW kk, NEW R, Holds(kk, R), NEW t \in R, t # Idle
    PROVE  /\ Holds(remove_thread_from_ready_q(kk, t), R \ {t})
           /\ SameThreads(kk, remove_thread_from_ready_q(kk, t))
<1> DEFINE p    == kk.prio[t]
           m    == Min(kk.bmap)
           rest == dlist_remove(kk.q[p], t)
           q2   == [kk.q EXCEPT ![p] = rest]
           b2   == IF rest = <<>> THEN kk.bmap \ {p} ELSE kk.bmap
           k1   == [kk EXCEPT !.q[p] = rest,
                              !.bmap = IF rest = <<>> THEN @ \ {p} ELSE @]
           k2   == remove_thread_from_ready_q(kk, t)
           R2   == R \ {t}
<1>1. /\ kk \in KernelType /\ p \in Prios /\ R \in SUBSET Threads
      /\ t \in Threads /\ kk.q \in [Prios -> Seq(Threads)]
  BY DEF Holds, KernelType
<1>2. /\ kk.cache \in R /\ kk.bmap \in SUBSET Prios /\ m \in kk.bmap
      /\ kk.prio[kk.cache] = m
  BY CacheMostUrgent
<1>3. /\ kk.bmap = {x \in Prios : kk.q[x] # <<>>}
      /\ kk.cache = Head(kk.q[m])
  BY DEF Holds, cache_is_next, get_ready_q_head, get_highest_ready_prio
<1>4. /\ IsList(rest, {u \in R : kk.prio[u] = p} \ {t})
      /\ Head(kk.q[p]) # t => rest # <<>> /\ Head(rest) = Head(kk.q[p])
  <2>1. IsList(kk.q[p], {u \in R : kk.prio[u] = p})
    BY <1>1 DEF Holds
  <2>2. t \in {u \in R : kk.prio[u] = p}
    OBVIOUS
  <2> HIDE DEF p
  <2> QED BY <2>1, <2>2, ListRemove
<1>5. rest \in Seq(Threads)
  BY <1>4 DEF IsList
<1> HIDE DEF rest
<1>6. k1 \in KernelType /\ k1.q = q2 /\ k1.bmap = b2 /\ k1.cache = kk.cache
  BY <1>1, <1>5 DEF KernelType
<1>7. k2 = [k1 EXCEPT !.cache = IF @ = t THEN get_ready_q_head(k1) ELSE @]
  BY DEF remove_thread_from_ready_q, rest
<1>8. /\ k2.q = q2 /\ k2.bmap = b2 /\ SameThreads(kk, k2)
      /\ k2.cache = IF kk.cache = t THEN Head(q2[Min(b2)]) ELSE kk.cache
  BY <1>1, <1>6, <1>7
     DEF SameThreads, KernelType, get_ready_q_head, get_highest_ready_prio
<1> HIDE DEF k2
<1>9. ASSUME NEW x \in Prios
      PROVE  IsList(q2[x], {u \in R2 : kk.prio[u] = x})
  <2>1. CASE x = p
    <3>1. {u \in R2 : kk.prio[u] = x} = {u \in R : kk.prio[u] = p} \ {t}
      BY <2>1
    <3>2. q2[x] = rest
      BY <1>1, <2>1
    <3> QED BY <1>4, <3>1, <3>2
  <2>2. CASE x # p
    <3>1. {u \in R2 : kk.prio[u] = x} = {u \in R : kk.prio[u] = x}
      BY <2>2
    <3>2. q2[x] = kk.q[x]
      BY <1>1, <2>2
    <3> QED BY <3>1, <3>2 DEF Holds
  <2> QED BY <2>1, <2>2
<1>10. b2 = {x \in Prios : q2[x] # <<>>}
  <2>1. q2[p] = rest /\ \A x \in Prios \ {p} : q2[x] = kk.q[x]
    BY <1>1
  <2>2. kk.q[p] # <<>>
    <3>1. IsList(kk.q[p], {u \in R : kk.prio[u] = p})
      BY <1>1 DEF Holds
    <3>2. t \in {u \in R : kk.prio[u] = p}
      OBVIOUS
    <3> HIDE DEF p
    <3> QED BY <3>1, <3>2, ListHead
  <2> HIDE DEF p, q2
  <2> QED BY <1>1, <1>3, <2>1, <2>2
<1>11. b2 \in SUBSET Prios /\ b2 # {}
  <2>1. Idle \in R2 /\ kk.prio[Idle] = NumPreempt /\ NumPreempt \in Prios
    BY PriosAssumption DEF Holds, Prios
  <2>2. IsList(q2[NumPreempt], {u \in R2 : kk.prio[u] = NumPreempt})
    BY <1>9, <2>1
  <2>3. q2[NumPreempt] # <<>>
    BY <2>1, <2>2, ListHead
  <2> QED BY <1>10, <2>1, <2>3
<1>12. Min(b2) \in b2 /\ \A x \in b2 : Min(b2) <= x
  BY <1>11, MinPrio
<1>13. k2.cache = Head(q2[Min(b2)])
  <2>1. CASE kk.cache = t
    BY <1>8, <2>1
  <2>2. CASE kk.cache # t
    <3>1. m \in Prios /\ \A x \in kk.bmap : m <= x
      BY <1>2, MinPrio
    <3>2. p = m => rest # <<>> /\ Head(rest) = kk.cache
      BY <1>3, <1>4, <2>2
    <3>3. m \in b2 /\ \A x \in b2 : m <= x
      BY <1>2, <3>1, <3>2
    <3>4. Min(b2) = m
      BY <1>11, <3>3, MinPrioIs
    <3>5. Head(q2[m]) = kk.cache
      <4>1. CASE p = m
        BY <1>1, <3>1, <3>2, <4>1
      <4>2. CASE p # m
        <5>1. q2[m] = kk.q[m]
          BY <1>1, <3>1, <4>2
        <5> QED BY <1>3, <5>1
      <4> QED BY <4>1, <4>2
    <3> QED BY <1>8, <2>2, <3>4, <3>5
  <2> QED BY <2>1, <2>2
<1>14. k2 \in KernelType
  <2>1. Head(q2[Min(b2)]) \in Threads
    <3>1. Min(b2) \in Prios /\ q2[Min(b2)] # <<>>
      BY <1>10, <1>12
    <3>2. IsList(q2[Min(b2)], {u \in R2 : kk.prio[u] = Min(b2)})
      BY <1>9, <3>1
    <3>3. Head(q2[Min(b2)]) \in {u \in R2 : kk.prio[u] = Min(b2)}
      BY <3>1, <3>2, ListHead
    <3> QED BY <1>1, <3>3
  <2>2. get_ready_q_head(k1) = Head(q2[Min(b2)])
    BY <1>6 DEF get_ready_q_head, get_highest_ready_prio
  <2> HIDE DEF k1, q2, b2
  <2> QED BY <1>6, <1>7, <2>1, <2>2 DEF KernelType
<1>15. cache_is_next(k2)
  BY <1>8, <1>10, <1>11, <1>13
     DEF cache_is_next, get_ready_q_head, get_highest_ready_prio
<1>16. k2.prio = kk.prio
  BY <1>8 DEF SameThreads
<1>17. R2 \in SUBSET Threads /\ Idle \in R2 /\ k2.prio[Idle] = NumPreempt
  BY <1>1, <1>16 DEF Holds
<1>18. \A x \in Prios : IsList(k2.q[x], {u \in R2 : k2.prio[u] = x})
  BY <1>8, <1>9, <1>16
<1> QED BY <1>8, <1>14, <1>15, <1>17, <1>18 DEF Holds, k2

(***************************************************************************)
(* _move_thread_to_end_of_prio_q() of a queued thread.                     *)
(***************************************************************************)
LEMMA MoveHolds ==
    ASSUME NEW kk, NEW R, Holds(kk, R), NEW t \in R
    PROVE  /\ Holds(move_thread_to_end_of_prio_q(kk, t), R)
           /\ SameThreads(kk, move_thread_to_end_of_prio_q(kk, t))
<1> DEFINE p    == kk.prio[t]
           S    == {u \in R : kk.prio[u] = p}
           m    == Min(kk.bmap)
           rest == dlist_remove(kk.q[p], t)
           new  == Append(rest, t)
           q2   == [kk.q EXCEPT ![p] = new]
           k1   == [kk EXCEPT !.q[p] = Append(dlist_remove(@, t), t)]
           k2   == [k1 EXCEPT !.cache = IF @ = t THEN get_ready_q_head(k1) ELSE @]
<1>1. /\ kk \in KernelType /\ p \in Prios /\ R \in SUBSET Threads
      /\ t \in Threads /\ kk.q \in [Prios -> Seq(Threads)]
  BY DEF Holds, KernelType
<1>2. /\ kk.cache \in R /\ kk.bmap \in SUBSET Prios /\ m \in kk.bmap
      /\ m \in Prios
  BY CacheMostUrgent
<1>3. /\ kk.bmap = {x \in Prios : kk.q[x] # <<>>} /\ kk.bmap # {}
      /\ kk.cache = Head(kk.q[m])
  BY DEF Holds, cache_is_next, get_ready_q_head, get_highest_ready_prio
<1>4. IsList(kk.q[p], S) /\ t \in S
  BY <1>1 DEF Holds
<1>5. CASE Last(kk.q[p]) = t
  <2>1. move_thread_to_end_of_prio_q(kk, t) = kk
    BY <1>5 DEF move_thread_to_end_of_prio_q
  <2> QED BY <2>1 DEF SameThreads
<1>6. CASE Last(kk.q[p]) # t
  <2>1. move_thread_to_end_of_prio_q(kk, t) = k2
    BY <1>6 DEF move_thread_to_end_of_prio_q
  <2>2. /\ IsList(rest, S \ {t})
        /\ Head(kk.q[p]) # t => rest # <<>> /\ Head(rest) = Head(kk.q[p])
    <3> HIDE DEF S, p
    <3> QED BY <1>4, ListRemove
  <2>3. /\ IsList(new, (S \ {t}) \cup {t}) /\ new # <<>>
        /\ Head(new) = IF rest = <<>> THEN t ELSE Head(rest)
    <3>1. t \notin S \ {t}
      OBVIOUS
    <3> HIDE DEF S, p, rest
    <3> QED BY <1>1, <2>2, <3>1, ListAppend
  <2>4. IsList(new, S)
    <3>1. (S \ {t}) \cup {t} = S
      BY <1>4
    <3> QED BY <2>3, <3>1
  <2>5. new \in Seq(Threads)
    BY <2>4 DEF IsList
  <2>6. k1 = [kk EXCEPT !.q[p] = new]
    BY <1>1
  <2> HIDE DEF new, rest, S
  <2>7. /\ k1 \in KernelType /\ k1.q = q2 /\ k1.cache = kk.cache
        /\ k1.bmap = kk.bmap /\ SameThreads(kk, k1)
    BY <1>1, <2>5, <2>6 DEF KernelType, SameThreads
  <2>8. get_ready_q_head(k1) = Head(q2[m])
    BY <2>7 DEF get_ready_q_head, get_highest_ready_prio
  <2> HIDE DEF k1, m
  <2>9. /\ k2.q = q2 /\ k2.bmap = kk.bmap /\ SameThreads(kk, k2)
        /\ k2.cache = IF kk.cache = t THEN Head(q2[m]) ELSE kk.cache
    BY <2>7, <2>8 DEF KernelType, SameThreads
  <2>10. q2[p] = new /\ \A x \in Prios \ {p} : q2[x] = kk.q[x]
    BY <1>1
  <2>11. ASSUME NEW x \in Prios
         PROVE  IsList(q2[x], {u \in R : kk.prio[u] = x})
    <3>1. CASE x = p
      BY <2>4, <2>10, <3>1 DEF S
    <3>2. CASE x # p
      BY <2>10, <3>2 DEF Holds
    <3> QED BY <3>1, <3>2
  <2>12. kk.q[p] # <<>>
    BY <1>4, ListHead
  <2> HIDE DEF p, q2
  <2>13. kk.bmap = {x \in Prios : q2[x] # <<>>}
    BY <1>1, <1>3, <2>3, <2>10, <2>12
  <2>14. Head(q2[m]) \in Threads
    <3>1. q2[m] # <<>> /\ IsList(q2[m], {u \in R : kk.prio[u] = m})
      BY <1>2, <2>11, <2>13
    <3>2. Head(q2[m]) \in {u \in R : kk.prio[u] = m}
      BY <3>1, ListHead
    <3> QED BY <1>1, <3>2
  <2>15. k2 \in KernelType
    BY <2>7, <2>8, <2>14 DEF KernelType
  <2>16. k2.cache = Head(q2[m])
    <3>1. CASE kk.cache = t
      BY <2>9, <3>1
    <3>2. CASE kk.cache # t
      <4>1. CASE p = m
        BY <1>3, <2>2, <2>3, <2>9, <2>10, <3>2, <4>1
      <4>2. CASE p # m
        BY <1>2, <1>3, <2>9, <2>10, <3>2, <4>2
      <4> QED BY <4>1, <4>2
    <3> QED BY <3>1, <3>2
  <2>17. cache_is_next(k2)
    BY <1>3, <2>9, <2>13, <2>16
       DEF cache_is_next, get_ready_q_head, get_highest_ready_prio, m
  <2>18. k2.prio = kk.prio
    BY <2>9 DEF SameThreads
  <2>19. \A x \in Prios : IsList(k2.q[x], {u \in R : k2.prio[u] = x})
    BY <2>9, <2>11, <2>18
  <2>20. Idle \in R /\ k2.prio[Idle] = NumPreempt
    BY <2>18 DEF Holds
  <2> QED BY <1>1, <2>1, <2>9, <2>15, <2>17, <2>19, <2>20 DEF Holds
<1> QED BY <1>5, <1>6

(***************************************************************************)
(* The kernel record is consistent: the ready queue holds exactly the      *)
(* ready threads.  Off(kk, t): so it is but for thread t, which is off the *)
(* queue whatever its flags say; the kernel's functions go through such    *)
(* states between taking a thread off and putting it back.                 *)
(***************************************************************************)
Good(kk) == Holds(kk, ReadyThreads(kk))
Off(kk, t) == t \in Threads \ {Idle} /\ Holds(kk, ReadyThreads(kk) \ {t})

(***************************************************************************)
(* Consistency is a matter of the ready queue and of the threads' flags,   *)
(* timeouts and priorities only.                                           *)
(***************************************************************************)
LEMMA GoodFrame ==
    ASSUME NEW kk, Good(kk), NEW k2 \in KernelType,
           k2.q = kk.q, k2.bmap = kk.bmap, k2.cache = kk.cache,
           k2.prio = kk.prio, k2.state = kk.state,
           \A u \in Threads : k2.to[u] = kk.to[u]
    PROVE  Good(k2)
<1>1. ReadyThreads(k2) = ReadyThreads(kk)
  BY DEF ReadyThreads, is_thread_ready, is_thread_timeout_active
<1> QED BY <1>1, HoldsFrame DEF Good

(***************************************************************************)
(* While t is off the queue, its own fields may change at will.            *)
(***************************************************************************)
LEMMA OffFrame ==
    ASSUME NEW kk, NEW t, Off(kk, t), NEW k2 \in KernelType,
           k2.q = kk.q, k2.bmap = kk.bmap, k2.cache = kk.cache,
           \A u \in Threads \ {t} : /\ k2.prio[u] = kk.prio[u]
                                    /\ k2.state[u] = kk.state[u]
                                    /\ k2.to[u] = kk.to[u]
    PROVE  Off(k2, t)
<1>1. ReadyThreads(k2) \ {t} = ReadyThreads(kk) \ {t}
  BY DEF ReadyThreads, is_thread_ready, is_thread_timeout_active
<1>2. \A u \in ReadyThreads(kk) \ {t} : k2.prio[u] = kk.prio[u]
  BY DEF ReadyThreads
<1>3. Holds(k2, ReadyThreads(kk) \ {t})
  BY <1>2, HoldsFrame DEF Off
<1> QED BY <1>1, <1>3 DEF Off

(***************************************************************************)
(* A thread that is not ready is off the queue, and the other way round.   *)
(***************************************************************************)
LEMMA OffUnready ==
    ASSUME NEW kk, NEW t \in Threads \ {Idle}, ~is_thread_ready(kk, t)
    PROVE  Good(kk) <=> Off(kk, t)
<1>1. ReadyThreads(kk) \ {t} = ReadyThreads(kk)
  BY DEF ReadyThreads
<1> QED BY <1>1 DEF Good, Off

(***************************************************************************)
(* Taking a ready thread off the ready queue.                              *)
(***************************************************************************)
LEMMA OffRemoved ==
    ASSUME NEW kk, Good(kk), NEW t \in Threads \ {Idle}, is_thread_ready(kk, t)
    PROVE  /\ Off(remove_thread_from_ready_q(kk, t), t)
           /\ SameThreads(kk, remove_thread_from_ready_q(kk, t))
<1> DEFINE k2 == remove_thread_from_ready_q(kk, t)
<1>1. t \in ReadyThreads(kk)
  BY DEF ReadyThreads
<1>2. Holds(k2, ReadyThreads(kk) \ {t}) /\ SameThreads(kk, k2)
  BY <1>1, RemoveHolds DEF Good
<1> HIDE DEF k2
<1>3. ReadyThreads(k2) = ReadyThreads(kk)
  BY <1>2 DEF SameThreads, ReadyThreads, is_thread_ready, is_thread_timeout_active
<1> QED BY <1>2, <1>3 DEF Off, k2

(***************************************************************************)
(* Putting a thread that has become ready back on.                         *)
(***************************************************************************)
LEMMA GoodAdded ==
    ASSUME NEW kk, NEW t, Off(kk, t), is_thread_ready(kk, t)
    PROVE  /\ Good(add_thread_to_ready_q(kk, t))
           /\ SameThreads(kk, add_thread_to_ready_q(kk, t))
<1> DEFINE k2 == add_thread_to_ready_q(kk, t)
<1>1. t \in Threads /\ (ReadyThreads(kk) \ {t}) \cup {t} = ReadyThreads(kk)
  BY DEF ReadyThreads, Off
<1>2. Holds(k2, (ReadyThreads(kk) \ {t}) \cup {t}) /\ SameThreads(kk, k2)
  <2>1. t \notin ReadyThreads(kk) \ {t}
    OBVIOUS
  <2> QED BY <1>1, <2>1, AddHolds DEF Off
<1> HIDE DEF k2
<1>3. ReadyThreads(k2) = ReadyThreads(kk)
  BY <1>2 DEF SameThreads, ReadyThreads, is_thread_ready, is_thread_timeout_active
<1> QED BY <1>1, <1>2, <1>3 DEF Good, k2

(***************************************************************************)
(* _move_thread_to_end_of_prio_q() keeps the record consistent.            *)
(***************************************************************************)
LEMMA GoodMoved ==
    ASSUME NEW kk, Good(kk), NEW t \in Threads, is_thread_ready(kk, t)
    PROVE  /\ Good(move_thread_to_end_of_prio_q(kk, t))
           /\ SameThreads(kk, move_thread_to_end_of_prio_q(kk, t))
<1> DEFINE k2 == move_thread_to_end_of_prio_q(kk, t)
<1>1. t \in ReadyThreads(kk)
  BY DEF ReadyThreads
<1>2. Holds(k2, ReadyThreads(kk)) /\ SameThreads(kk, k2)
  BY <1>1, MoveHolds DEF Good
<1> HIDE DEF k2
<1>3. ReadyThreads(k2) = ReadyThreads(kk)
  BY <1>2 DEF SameThreads, ReadyThreads, is_thread_ready, is_thread_timeout_active
<1> QED BY <1>2, <1>3 DEF Good, k2

(***************************************************************************)
(* _ready_thread() of a thread that is off the queue.                      *)
(***************************************************************************)
LEMMA GoodReadied ==
    ASSUME NEW kk, NEW t, Off(kk, t)
    PROVE  /\ Good(ready_thread(kk, t))
           /\ SameThreads([kk EXCEPT !.state[t] = @ \ {"PRESTART"}],
                          ready_thread(kk, t))
<1> DEFINE k1 == [kk EXCEPT !.state[t] = @ \ {"PRESTART"}]
<1>1. kk \in KernelType /\ t \in Threads \ {Idle}
  BY DEF Off, Holds
<1>2. /\ k1 \in KernelType
      /\ k1.q = kk.q /\ k1.bmap = kk.bmap /\ k1.cache = kk.cache
      /\ \A u \in Threads \ {t} : /\ k1.prio[u] = kk.prio[u]
                                   /\ k1.state[u] = kk.state[u]
                                   /\ k1.to[u] = kk.to[u]
  BY <1>1 DEF KernelType
<1>3. ready_thread(kk, t) = IF is_thread_ready(k1, t)
                            THEN add_thread_to_ready_q(k1, t) ELSE k1
  BY DEF ready_thread
<1> HIDE DEF k1
<1>4. Off(k1, t)
  BY <1>2, OffFrame
<1>5. CASE is_thread_ready(k1, t)
  BY <1>3, <1>4, <1>5, GoodAdded DEF k1
<1>6. CASE ~is_thread_ready(k1, t)
  <2>1. Good(k1)
    BY <1>1, <1>4, <1>6, OffUnready
  <2> QED BY <1>3, <1>6, <2>1 DEF k1, SameThreads
<1> QED BY <1>5, <1>6

(***************************************************************************)
(* _thread_priority_set(): off, changed, and on again.                     *)
(***************************************************************************)
LEMMA GoodPrioSet ==
    ASSUME NEW kk, Good(kk), NEW t \in Threads \ {Idle}, NEW p \in Prios
    PROVE  /\ Good(thread_priority_set(kk, t, p))
           /\ SameThreads([kk EXCEPT !.prio[t] = p], thread_priority_set(kk, t, p))
<1>1. kk \in KernelType
  BY DEF Good, Holds
<1>2. CASE is_thread_ready(kk, t)
  <2> DEFINE k1 == remove_thread_from_ready_q(kk, t)
             k2 == [k1 EXCEPT !.prio[t] = p]
  <2>1. Off(k1, t) /\ SameThreads(kk, k1)
    BY <1>2, OffRemoved
  <2>2. k1 \in KernelType
    BY <2>1 DEF Off, Holds
  <2>3. thread_priority_set(kk, t, p) = add_thread_to_ready_q(k2, t)
    BY <1>2 DEF thread_priority_set
  <2> HIDE DEF k1
  <2>4. /\ k2 \in KernelType
        /\ k2.q = k1.q /\ k2.bmap = k1.bmap /\ k2.cache = k1.cache
        /\ \A u \in Threads \ {t} : /\ k2.prio[u] = k1.prio[u]
                                     /\ k2.state[u] = k1.state[u]
                                     /\ k2.to[u] = k1.to[u]
        /\ SameThreads([kk EXCEPT !.prio[t] = p], k2)
    BY <1>1, <2>1, <2>2 DEF KernelType, SameThreads
  <2> HIDE DEF k2
  <2>5. Off(k2, t)
    BY <2>1, <2>4, OffFrame
  <2>6. is_thread_ready(k2, t)
    BY <1>1, <1>2, <2>4
       DEF SameThreads, is_thread_ready, is_thread_timeout_active, KernelType
  <2>7. /\ Good(add_thread_to_ready_q(k2, t))
        /\ SameThreads(k2, add_thread_to_ready_q(k2, t))
    BY <2>5, <2>6, GoodAdded
  <2> QED BY <2>3, <2>4, <2>7 DEF SameThreads
<1>3. CASE ~is_thread_ready(kk, t)
  <2> DEFINE k2 == [kk EXCEPT !.prio[t] = p]
  <2>1. thread_priority_set(kk, t, p) = k2
    BY <1>3 DEF thread_priority_set
  <2>2. /\ k2 \in KernelType
        /\ k2.q = kk.q /\ k2.bmap = kk.bmap /\ k2.cache = kk.cache
        /\ \A u \in Threads \ {t} : /\ k2.prio[u] = kk.prio[u]
                                     /\ k2.state[u] = kk.state[u]
                                     /\ k2.to[u] = kk.to[u]
        /\ k2.state = kk.state /\ k2.to = kk.to
    BY <1>1 DEF KernelType
  <2> HIDE DEF k2
  <2>3. Off(k2, t)
    BY <1>3, <2>2, OffUnready, OffFrame
  <2>4. ~is_thread_ready(k2, t)
    BY <1>3, <2>2 DEF is_thread_ready, is_thread_timeout_active
  <2>5. Good(k2)
    BY <2>3, <2>4, OffUnready
  <2> QED BY <2>1, <2>5 DEF SameThreads, k2
<1> QED BY <1>2, <1>3

(***************************************************************************)
(* Live: consistent, and the current thread is ready.  Settled: if it can  *)
(* be preempted, no ready thread is more urgent.                           *)
(***************************************************************************)
Live(kk) == Good(kk) /\ is_thread_ready(kk, kk.current)
Settled(kk) ==
    is_preempt(kk, kk.current) =>
        \A t \in Threads : is_thread_ready(kk, t) =>
            ~is_prio_higher(kk.prio[t], kk.prio[kk.current])

(***************************************************************************)
(* A consistent record whose current thread is the cached one is settled.  *)
(***************************************************************************)
LEMMA CacheSettled ==
    ASSUME NEW kk, Good(kk), kk.current = kk.cache
    PROVE  Live(kk) /\ Settled(kk)
<1> DEFINE m == Min(kk.bmap)
<1>1. /\ kk.cache \in ReadyThreads(kk) /\ kk.prio[kk.cache] = m
      /\ m \in Prios
      /\ \A t \in ReadyThreads(kk) : m <= kk.prio[t]
  BY CacheMostUrgent DEF Good
<1>2. kk \in KernelType /\ \A p \in Prios : p \in Int
  BY PriosAssumption DEF Good, Holds, Prios
<1> HIDE DEF m
<1>3. ASSUME NEW t \in Threads, is_thread_ready(kk, t)
      PROVE  ~(kk.prio[t] < kk.prio[kk.current])
  <2>1. m <= kk.prio[t] /\ kk.prio[t] \in Int /\ m \in Int
    BY <1>1, <1>2, <1>3 DEF ReadyThreads, KernelType
  <2> QED BY <1>1, <2>1
<1> QED BY <1>1, <1>3 DEF Live, Settled, is_prio_higher, ReadyThreads

(***************************************************************************)
(* _Swap() hands the CPU to a ready thread, none more urgent.              *)
(***************************************************************************)
LEMMA SwapSettled ==
    ASSUME NEW kk, Good(kk)
    PROVE  Live(swap(kk)) /\ Settled(swap(kk))
<1> DEFINE k2 == swap(kk)
<1>1. kk \in KernelType
  BY DEF Good, Holds
<1>2. /\ k2 \in KernelType
      /\ k2.q = kk.q /\ k2.bmap = kk.bmap /\ k2.cache = kk.cache
      /\ k2.prio = kk.prio /\ k2.state = kk.state /\ k2.to = kk.to
      /\ k2.current = k2.cache
  BY <1>1 DEF swap, KernelType, RetVals
<1> HIDE DEF k2
<1>3. Good(k2)
  BY <1>2, GoodFrame
<1>4. Live(k2) /\ Settled(k2)
  BY <1>2, <1>3, CacheSettled
<1> QED BY <1>4 DEF k2

(***************************************************************************)
(* If nothing forces a switch, no ready thread is more urgent.             *)
(***************************************************************************)
LEMMA NoSwitchSettled ==
    ASSUME NEW kk, Good(kk), ~must_switch_threads(kk)
    PROVE  Settled(kk)
<1> DEFINE m == Min(kk.bmap)
           c == kk.current
<1>1. m \in Prios /\ \A t \in ReadyThreads(kk) : m <= kk.prio[t]
  BY CacheMostUrgent DEF Good
<1>2. kk \in KernelType /\ \A p \in Prios : p \in Int
  BY PriosAssumption DEF Good, Holds, Prios
<1>3. is_preempt(kk, c) => ~(m < kk.prio[c])
  BY DEF must_switch_threads, get_highest_ready_prio, is_prio_higher
<1> HIDE DEF m
<1>4. ASSUME is_preempt(kk, c), NEW t \in Threads, is_thread_ready(kk, t)
      PROVE  ~(kk.prio[t] < kk.prio[c])
  <2>1. m <= kk.prio[t] /\ kk.prio[t] \in Int /\ m \in Int /\ kk.prio[c] \in Int
    BY <1>1, <1>2, <1>4 DEF ReadyThreads, KernelType
  <2> QED BY <1>3, <1>4, <2>1
<1> QED BY <1>4 DEF Settled, is_prio_higher

(***************************************************************************)
(* _reschedule_threads().                                                  *)
(***************************************************************************)
LEMMA RescheduleSettled ==
    ASSUME NEW kk, Live(kk)
    PROVE  Live(reschedule_threads(kk)) /\ Settled(reschedule_threads(kk))
<1>1. CASE must_switch_threads(kk)
  BY <1>1, SwapSettled DEF Live, reschedule_threads
<1>2. CASE ~must_switch_threads(kk)
  BY <1>2, NoSwitchSettled DEF Live, reschedule_threads
<1> QED BY <1>1, <1>2

(***************************************************************************)
(* The return from the outermost interrupt, on either port.                *)
(***************************************************************************)
LEMMA IsrExitSettled ==
    ASSUME NEW kk, Live(kk)
    PROVE  Live(isr_exit_swap(kk)) /\ Settled(isr_exit_swap(kk))
<1> DEFINE k2 == isr_exit_swap(kk)
<1>1. kk \in KernelType /\ Good(kk)
  BY DEF Live, Good, Holds
<1>2. CASE is_preempt(kk, kk.current) /\ kk.cache # kk.current
  <2>1. /\ k2 \in KernelType
        /\ k2.q = kk.q /\ k2.bmap = kk.bmap /\ k2.cache = kk.cache
        /\ k2.prio = kk.prio /\ k2.state = kk.state /\ k2.to = kk.to
        /\ k2.current = k2.cache
    BY <1>1, <1>2 DEF isr_exit_swap, KernelType, RetVals
  <2> HIDE DEF k2
  <2>2. Good(k2)
    BY <1>1, <2>1, GoodFrame
  <2>3. Live(k2) /\ Settled(k2)
    BY <2>1, <2>2, CacheSettled
  <2> QED BY <2>3 DEF k2
<1>3. CASE kk.cache = kk.current
  BY <1>1, <1>3, CacheSettled DEF isr_exit_swap
<1>4. CASE ~is_preempt(kk, kk.current)
  <2>1. isr_exit_swap(kk) = kk
    BY <1>4 DEF isr_exit_swap
  <2> QED BY <1>4, <2>1 DEF Settled
<1> QED BY <1>2, <1>3, <1>4

(***************************************************************************)
(* PART 2.  The scheduler.                                                 *)
(***************************************************************************)

IInv ==
    /\ TypeOK
    /\ Live(k)
    /\ isr = <<>> => Settled(k)

(***************************************************************************)
(* A call of the running thread leaves the invariant true if it leaves a   *)
(* live and settled kernel record.                                         *)
(***************************************************************************)
LEMMA CallStays ==
    ASSUME IInv, Live(k'), Settled(k'), isr' = isr, clk' = clk,
           slice' \in SliceSettings
    PROVE  IInv'
<1>1. k' \in KernelType
  BY DEF Live, Good, Holds
<1> QED BY <1>1 DEF IInv, TypeOK

(***************************************************************************)
(* Changing the fields of a thread that is not ready and does not become   *)
(* so (the other threads' fields stay) needs no reschedule.                *)
(***************************************************************************)
LEMMA UnreadyTouched ==
    ASSUME NEW kk, Live(kk), Settled(kk),
           NEW t \in Threads \ {Idle}, ~is_thread_ready(kk, t),
           NEW k2 \in KernelType, ~is_thread_ready(k2, t),
           k2.q = kk.q, k2.bmap = kk.bmap, k2.cache = kk.cache,
           k2.current = kk.current,
           \A u \in Threads \ {t} : /\ k2.prio[u] = kk.prio[u]
                                    /\ k2.state[u] = kk.state[u]
                                    /\ k2.to[u] = kk.to[u]
                                    /\ k2.locked[u] = kk.locked[u]
    PROVE  Live(k2) /\ Settled(k2)
<1>1. kk \in KernelType /\ kk.current \in Threads
  BY DEF Live, Good, Holds, KernelType
<1>2. Off(k2, t)
  <2>1. Off(kk, t)
    BY OffUnready DEF Live
  <2> QED BY <2>1, OffFrame
<1>3. Good(k2)
  BY <1>2, OffUnready
<1>4. kk.current # t
  BY DEF Live
<1>5. \A u \in Threads \ {t} : is_thread_ready(k2, u) <=> is_thread_ready(kk, u)
  BY DEF is_thread_ready, is_thread_timeout_active
<1>6. Live(k2)
  BY <1>1, <1>3, <1>4, <1>5 DEF Live
<1>7. Settled(k2)
  BY <1>1, <1>4, <1>5 DEF Settled, is_preempt
<1> QED BY <1>6, <1>7

(***************************************************************************)
(* start(), the body of k_thread_start().                                  *)
(***************************************************************************)
LEMMA StartSettled ==
    ASSUME NEW kk, Live(kk), Settled(kk), NEW t \in Threads \ {Idle}
    PROVE  Live(start(kk, t)) /\ Settled(start(kk, t))
<1> DEFINE k1 == [kk EXCEPT !.state[t] = @ \ {"PRESTART"}]
<1>1. CASE "PRESTART" \notin kk.state[t]
  BY <1>1 DEF start
<1>2. CASE "PRESTART" \in kk.state[t]
  <2>1. kk \in KernelType
    BY DEF Live, Good, Holds
  <2>2. ~is_thread_ready(kk, t)
    BY <1>2 DEF is_thread_ready
  <2>3. start(kk, t) = IF is_thread_ready(k1, t)
                       THEN reschedule_threads(add_thread_to_ready_q(k1, t))
                       ELSE k1
    BY <1>2 DEF start
  <2>4. /\ k1 \in KernelType
        /\ k1.q = kk.q /\ k1.bmap = kk.bmap /\ k1.cache = kk.cache
        /\ k1.current = kk.current
        /\ \A u \in Threads \ {t} : /\ k1.prio[u] = kk.prio[u]
                                    /\ k1.state[u] = kk.state[u]
                                    /\ k1.to[u] = kk.to[u]
                                    /\ k1.locked[u] = kk.locked[u]
    BY <2>1 DEF KernelType
  <2> HIDE DEF k1
  <2>5. CASE is_thread_ready(k1, t)
    <3> DEFINE k2 == add_thread_to_ready_q(k1, t)
    <3>1. Off(k1, t)
      BY <2>2, <2>4, OffUnready, OffFrame DEF Live
    <3>2. Good(k2) /\ SameThreads(k1, k2)
      BY <2>5, <3>1, GoodAdded
    <3> HIDE DEF k2
    <3>3. is_thread_ready(k2, k2.current)
      <4>1. kk.current \in Threads \ {t}
        BY <2>1, <2>2 DEF Live, KernelType
      <4> QED BY <2>4, <3>2, <4>1
              DEF Live, SameThreads, is_thread_ready, is_thread_timeout_active
    <3>4. Live(k2)
      BY <3>2, <3>3 DEF Live
    <3> QED BY <2>3, <2>5, <3>4, RescheduleSettled DEF k2
  <2>6. CASE ~is_thread_ready(k1, t)
    BY <2>2, <2>3, <2>4, <2>6, UnreadyTouched
  <2> QED BY <2>5, <2>6
<1> QED BY <1>1, <1>2

(***************************************************************************)
(* wakeup(): the timeout is cancelled and the thread readied, which leaves *)
(* the running thread ready.                                               *)
(***************************************************************************)
LEMMA WakeupLive ==
    ASSUME NEW kk, Live(kk), NEW t \in Threads \ {Idle},
           is_thread_timeout_active(kk, t)
    PROVE  Live(wakeup(kk, t))
<1> DEFINE k1 == [kk EXCEPT !.to[t] = "INACTIVE"]
           k2 == ready_thread(k1, t)
<1>1. kk \in KernelType
  BY DEF Live, Good, Holds
<1>2. ~is_thread_ready(kk, t)
  BY DEF is_thread_ready
<1>3. /\ k1 \in KernelType
      /\ k1.q = kk.q /\ k1.bmap = kk.bmap /\ k1.cache = kk.cache
      /\ k1.current = kk.current
      /\ \A u \in Threads \ {t} : /\ k1.prio[u] = kk.prio[u]
                                  /\ k1.state[u] = kk.state[u]
                                  /\ k1.to[u] = kk.to[u]
  BY <1>1 DEF KernelType, AllTimeouts, TimeoutStates
<1>4. wakeup(kk, t) = k2
  BY DEF wakeup, abort_thread_timeout
<1> HIDE DEF k1
<1>5. Off(k1, t)
  BY <1>2, <1>3, OffUnready, OffFrame DEF Live
<1>6. Good(k2) /\ SameThreads([k1 EXCEPT !.state[t] = @ \ {"PRESTART"}], k2)
  BY <1>5, GoodReadied
<1> HIDE DEF k2
<1>7. kk.current \in Threads \ {t}
  BY <1>1, <1>2 DEF Live, KernelType
<1>8. k2.current = k1.current /\ k2.to = k1.to
      /\ \A u \in Threads \ {t} : k2.state[u] = k1.state[u]
  BY <1>3, <1>6 DEF SameThreads, KernelType
<1>9. is_thread_ready(k2, k2.current)
  BY <1>3, <1>7, <1>8 DEF Live, is_thread_ready, is_thread_timeout_active
<1> QED BY <1>4, <1>6, <1>9 DEF Live

(***************************************************************************)
(* The thread API preserves the invariant, one lemma per call.             *)
(***************************************************************************)
LEMMA InThreadFacts ==
    ASSUME IInv, InThread
    PROVE  /\ Live(k) /\ Settled(k) /\ Good(k) /\ k \in KernelType
           /\ k.current \in Threads \ {Idle} /\ is_thread_ready(k, k.current)
           /\ slice \in SliceSettings
BY DEF IInv, TypeOK, Live, InThread, KernelType

\* k_yield(): the current thread goes to the end of its queue
LEMMA YieldStays == IInv /\ k_yield => IInv'
<1> SUFFICES ASSUME IInv, k_yield PROVE IInv'
  OBVIOUS
<1> DEFINE k1 == move_thread_to_end_of_prio_q(k, k.current)
<1>1. InThread /\ Call(IF k.current = k1.cache THEN k1 ELSE swap(k1))
  BY DEF k_yield
<1>2. Good(k1) /\ SameThreads(k, k1)
  BY <1>1, InThreadFacts, GoodMoved
<1> HIDE DEF k1
<1>3. CASE k.current = k1.cache
  <2>1. Live(k1) /\ Settled(k1)
    BY <1>2, <1>3, CacheSettled DEF SameThreads
  <2> QED BY <1>1, <1>3, <2>1, InThreadFacts, CallStays DEF Call
<1>4. CASE k.current # k1.cache
  BY <1>1, <1>2, <1>4, SwapSettled, InThreadFacts, CallStays DEF Call
<1> QED BY <1>3, <1>4

\* k_sleep(): the current thread goes off the queue and onto _timeout_q
LEMMA SleepStays == IInv /\ k_sleep => IInv'
<1> SUFFICES ASSUME IInv, k_sleep PROVE IInv'
  OBVIOUS
<1> DEFINE c  == k.current
           k1 == remove_thread_from_ready_q(k, c)
           k2 == [k1 EXCEPT !.to[c] = "ACTIVE"]
<1>1. InThread /\ Call(swap(k2))
  BY DEF k_sleep, add_thread_timeout
<1>2. Off(k1, c) /\ SameThreads(k, k1)
  BY <1>1, InThreadFacts, OffRemoved
<1>3. k1 \in KernelType /\ c \in Threads
  BY <1>2 DEF Off, Holds
<1> HIDE DEF k1, c
<1>4. /\ k2 \in KernelType
      /\ k2.q = k1.q /\ k2.bmap = k1.bmap /\ k2.cache = k1.cache
      /\ \A u \in Threads \ {c} : /\ k2.prio[u] = k1.prio[u]
                                   /\ k2.state[u] = k1.state[u]
                                   /\ k2.to[u] = k1.to[u]
      /\ k2.to[c] = "ACTIVE"
  BY <1>3 DEF KernelType, AllTimeouts, TimeoutStates
<1> HIDE DEF k2
<1>5. Off(k2, c)
  BY <1>2, <1>4, OffFrame
<1>6. ~is_thread_ready(k2, c)
  BY <1>4 DEF is_thread_ready, is_thread_timeout_active
<1>7. Good(k2)
  BY <1>5, <1>6, OffUnready DEF Off
<1> QED BY <1>1, <1>7, SwapSettled, InThreadFacts, CallStays DEF Call

\* a new lock depth n for thread t
LEMMA LockDepthSet ==
    ASSUME NEW kk \in KernelType, NEW t \in Threads, NEW n \in Nat,
           NEW k2, k2 = [kk EXCEPT !.locked[t] = n]
    PROVE  /\ k2 \in KernelType
           /\ k2.q = kk.q /\ k2.bmap = kk.bmap /\ k2.cache = kk.cache
           /\ k2.prio = kk.prio /\ k2.state = kk.state /\ k2.to = kk.to
           /\ k2.current = kk.current /\ k2.locked[t] = n
BY DEF KernelType

\* k_sched_lock(): a thread that holds the scheduler lock is settled
LEMMA LockStays == IInv /\ k_sched_lock => IInv'
<1> SUFFICES ASSUME IInv, k_sched_lock PROVE IInv'
  OBVIOUS
<1> DEFINE k2 == sched_lock(k)
<1>1. InThread /\ Call(k2)
  BY DEF k_sched_lock
<1>2. k \in KernelType /\ Live(k)
  BY <1>1, InThreadFacts
<1>3. /\ k2 \in KernelType
      /\ k2.q = k.q /\ k2.bmap = k.bmap /\ k2.cache = k.cache
      /\ k2.prio = k.prio /\ k2.state = k.state /\ k2.to = k.to
      /\ k2.current = k.current /\ k2.locked[k2.current] # 0
  <2> DEFINE n == k.locked[k.current] + 1
  <2>1. n \in Nat /\ n # 0 /\ k.current \in Threads
    BY <1>2 DEF KernelType
  <2>2. k2 = [k EXCEPT !.locked[k.current] = n]
    BY DEF sched_lock
  <2> HIDE DEF n
  <2> QED BY <1>2, <2>1, <2>2, LockDepthSet
<1> HIDE DEF k2
<1>4. Good(k2)
  BY <1>2, <1>3, GoodFrame DEF Live
<1>5. Live(k2)
  BY <1>2, <1>3, <1>4 DEF Live, is_thread_ready, is_thread_timeout_active
<1>6. Settled(k2)
  BY <1>3 DEF Settled, is_preempt
<1> QED BY <1>1, <1>5, <1>6, InThreadFacts, CallStays DEF Call

\* k_sched_unlock() reschedules
LEMMA UnlockStays == IInv /\ k_sched_unlock => IInv'
<1> SUFFICES ASSUME IInv, k_sched_unlock PROVE IInv'
  OBVIOUS
<1> DEFINE k2 == sched_unlock_no_reschedule(k)
<1>1. InThread /\ Call(reschedule_threads(k2)) /\ k.locked[k.current] > 0
  BY DEF k_sched_unlock
<1>2. k \in KernelType /\ Live(k)
  BY <1>1, InThreadFacts
<1>3. /\ k2 \in KernelType
      /\ k2.q = k.q /\ k2.bmap = k.bmap /\ k2.cache = k.cache
      /\ k2.prio = k.prio /\ k2.state = k.state /\ k2.to = k.to
      /\ k2.current = k.current
  <2> DEFINE n == k.locked[k.current] - 1
  <2>1. n \in Nat /\ k.current \in Threads
    BY <1>1, <1>2 DEF KernelType
  <2>2. k2 = [k EXCEPT !.locked[k.current] = n]
    BY DEF sched_unlock_no_reschedule
  <2> HIDE DEF n
  <2> QED BY <1>2, <2>1, <2>2, LockDepthSet
<1> HIDE DEF k2
<1>4. Good(k2)
  BY <1>2, <1>3, GoodFrame DEF Live
<1>5. Live(k2)
  BY <1>2, <1>3, <1>4 DEF Live, is_thread_ready, is_thread_timeout_active
<1> QED BY <1>1, <1>5, RescheduleSettled, InThreadFacts, CallStays DEF Call

\* k_sched_time_slice_set() restarts the slice and touches nothing else
LEMMA SliceSetStays ==
    ASSUME NEW s \in SliceSettings PROVE IInv /\ k_sched_time_slice_set(s) => IInv'
<1> SUFFICES ASSUME IInv, k_sched_time_slice_set(s) PROVE IInv'
  OBVIOUS
<1>1. /\ InThread /\ slice' = s /\ isr' = isr /\ clk' = clk
      /\ k' = [k EXCEPT !.elapsed = 0]
  BY DEF k_sched_time_slice_set
<1>2. k \in KernelType /\ Live(k) /\ Settled(k)
  BY <1>1, InThreadFacts
<1>3. /\ k' \in KernelType
      /\ k'.q = k.q /\ k'.bmap = k.bmap /\ k'.cache = k.cache
      /\ k'.prio = k.prio /\ k'.state = k.state /\ k'.to = k.to
      /\ k'.current = k.current /\ k'.locked = k.locked
  BY <1>1, <1>2 DEF KernelType
<1>4. Good(k')
  BY <1>2, <1>3, GoodFrame DEF Live
<1>5. Live(k')
  BY <1>2, <1>3, <1>4 DEF Live, is_thread_ready, is_thread_timeout_active
<1>6. Settled(k')
  BY <1>2, <1>3
     DEF Settled, is_preempt, is_thread_ready, is_thread_timeout_active
<1> QED BY <1>1, <1>5, <1>6, CallStays

\* k_thread_start()
LEMMA ThreadStartStays ==
    ASSUME NEW t \in Apps PROVE IInv /\ k_thread_start(t) => IInv'
<1> SUFFICES ASSUME IInv, k_thread_start(t) PROVE IInv'
  OBVIOUS
<1>1. InThread /\ Call(start(k, t)) /\ t \in Threads \ {Idle}
  BY DEF k_thread_start, Apps
<1> QED BY <1>1, InThreadFacts, StartSettled, CallStays DEF Call

\* k_thread_create(): the object of a dead thread is used again
LEMMA CreateStays ==
    ASSUME NEW t \in Apps, NEW p \in NewPrios, NEW d \in StartDelays
    PROVE  IInv /\ k_thread_create(t, p, d) => IInv'
<1> SUFFICES ASSUME IInv, k_thread_create(t, p, d) PROVE IInv'
  OBVIOUS
<1> DEFINE k1 == [k EXCEPT !.state[t]  = {"PRESTART"},
                           !.prio[t]   = p,
                           !.locked[t] = 0,
                           !.to[t]     = "INACTIVE"]
           k2 == [k1 EXCEPT !.to[t] = "ACTIVE"]
<1>1. /\ InThread /\ "DEAD" \in k.state[t] /\ t \in Threads \ {Idle}
      /\ \/ d = "FOREVER" /\ Call(k1)
         \/ d = "TICKS" /\ Call(k2)
         \/ d = "NONE" /\ Call(start(k1, t))
  BY DEF k_thread_create, add_thread_timeout, Apps, StartDelays
<1>2. k \in KernelType /\ Live(k) /\ Settled(k) /\ slice \in SliceSettings
  BY <1>1, InThreadFacts
<1>3. p \in Prios
  BY SchedAssumption, PriosAssumption DEF AppPrios, Prios
<1>4. ~is_thread_ready(k, t)
  BY <1>1 DEF is_thread_ready
<1>5. /\ k1 \in KernelType
      /\ k1.q = k.q /\ k1.bmap = k.bmap /\ k1.cache = k.cache
      /\ k1.current = k.current /\ k1.state[t] = {"PRESTART"}
      /\ \A u \in Threads \ {t} : /\ k1.prio[u] = k.prio[u]
                                   /\ k1.state[u] = k.state[u]
                                   /\ k1.to[u] = k.to[u]
                                   /\ k1.locked[u] = k.locked[u]
  BY <1>1, <1>2, <1>3 DEF KernelType, AllTimeouts, StateFlags, TimeoutStates
<1> HIDE DEF k1
<1>6. ~is_thread_ready(k1, t)
  BY <1>5 DEF is_thread_ready
<1>7. Live(k1) /\ Settled(k1)
  BY <1>1, <1>2, <1>4, <1>5, <1>6, UnreadyTouched
<1>8. CASE Call(k2)
  <2>1. /\ k2 \in KernelType
        /\ k2.q = k1.q /\ k2.bmap = k1.bmap /\ k2.cache = k1.cache
        /\ k2.current = k1.current /\ k2.state = k1.state
        /\ \A u \in Threads \ {t} : /\ k2.prio[u] = k1.prio[u]
                                     /\ k2.state[u] = k1.state[u]
                                     /\ k2.to[u] = k1.to[u]
                                     /\ k2.locked[u] = k1.locked[u]
    BY <1>1, <1>5 DEF KernelType, AllTimeouts, TimeoutStates
  <2> HIDE DEF k2
  <2>2. ~is_thread_ready(k2, t)
    BY <1>5, <2>1 DEF is_thread_ready
  <2>3. Live(k2) /\ Settled(k2)
    BY <1>1, <1>6, <1>7, <2>1, <2>2, UnreadyTouched
  <2> QED BY <1>1, <1>2, <1>8, <2>3, CallStays DEF Call
<1>9. CASE Call(start(k1, t))
  BY <1>1, <1>2, <1>7, <1>9, StartSettled, CallStays DEF Call
<1>10. CASE Call(k1)
  BY <1>2, <1>5, <1>7, <1>10, CallStays DEF Call
<1> QED BY <1>1, <1>8, <1>9, <1>10

\* k_thread_cancel(): only the timeout of a thread that has not started
\* changes
LEMMA CancelStays ==
    ASSUME NEW t \in Apps
    PROVE  IInv /\ k_thread_cancel(t) => IInv'
<1> SUFFICES ASSUME IInv, k_thread_cancel(t) PROVE IInv'
  OBVIOUS
<1>1. /\ InThread /\ "PRESTART" \in k.state[t] /\ t \in Threads \ {Idle}
      /\ Call([k EXCEPT !.to[t] = "INACTIVE"])
  BY DEF k_thread_cancel, abort_thread_timeout, Apps
<1>2. k \in KernelType /\ Live(k) /\ Settled(k) /\ slice \in SliceSettings
  BY <1>1, InThreadFacts
<1> DEFINE k2 == [k EXCEPT !.to[t] = "INACTIVE"]
<1>3. /\ k2 \in KernelType
      /\ k2.q = k.q /\ k2.bmap = k.bmap /\ k2.cache = k.cache
      /\ k2.current = k.current /\ k2.state = k.state
      /\ k2.prio = k.prio /\ k2.locked = k.locked
      /\ \A u \in Threads \ {t} : k2.to[u] = k.to[u]
  BY <1>1, <1>2 DEF KernelType, AllTimeouts, TimeoutStates
<1>4. Call(k2)
  BY <1>1
<1> HIDE DEF k2
<1>5. ~is_thread_ready(k, t) /\ ~is_thread_ready(k2, t)
  BY <1>1, <1>3 DEF is_thread_ready
<1>6. Live(k2) /\ Settled(k2)
  BY <1>1, <1>2, <1>3, <1>5, UnreadyTouched
<1> QED BY <1>2, <1>4, <1>6, CallStays DEF Call

\* k_wakeup()
LEMMA WakeupStays ==
    ASSUME NEW t \in Apps PROVE IInv /\ k_wakeup(t) => IInv'
<1> SUFFICES ASSUME IInv, k_wakeup(t) PROVE IInv'
  OBVIOUS
<1>1. /\ InThread /\ is_thread_timeout_active(k, t) /\ t \in Threads \ {Idle}
      /\ Call(reschedule_threads(wakeup(k, t)))
  BY DEF k_wakeup, Apps
<1>2. Live(wakeup(k, t))
  BY <1>1, InThreadFacts, WakeupLive
<1> QED BY <1>1, <1>2, RescheduleSettled, InThreadFacts, CallStays DEF Call

\* k_thread_priority_set()
LEMMA PrioritySetStays ==
    ASSUME NEW t \in Apps, NEW p \in NewPrios
    PROVE  IInv /\ k_thread_priority_set(t, p) => IInv'
<1> SUFFICES ASSUME IInv, k_thread_priority_set(t, p) PROVE IInv'
  OBVIOUS
<1> DEFINE k1 == [k EXCEPT !.prio[t] = p]
           k2 == thread_priority_set(k, t, p)
<1>1. InThread /\ t \in Threads \ {Idle} /\ Call(reschedule_threads(k2))
  BY DEF k_thread_priority_set, Apps
<1>2. p \in Prios
  BY SchedAssumption, PriosAssumption DEF AppPrios, Prios
<1>3. Good(k2) /\ SameThreads(k1, k2)
  BY <1>1, <1>2, InThreadFacts, GoodPrioSet
<1>4. k1.current = k.current /\ k1.state = k.state /\ k1.to = k.to
  BY <1>1, InThreadFacts DEF KernelType
<1> HIDE DEF k1, k2
<1>5. Live(k2)
  BY <1>1, <1>3, <1>4, InThreadFacts
     DEF Live, SameThreads, is_thread_ready, is_thread_timeout_active
<1> QED BY <1>1, <1>5, RescheduleSettled, InThreadFacts, CallStays DEF Call

(***************************************************************************)
(* Setting one of the flags that keep a thread from being ready.           *)
(***************************************************************************)
LEMMA FlagSet ==
    ASSUME NEW k1 \in KernelType, NEW t \in Threads, NEW f \in StateFlags,
           NEW k2, k2 = [k1 EXCEPT !.state[t] = @ \cup {f}]
    PROVE  /\ k2 \in KernelType
           /\ k2.q = k1.q /\ k2.bmap = k1.bmap /\ k2.cache = k1.cache
           /\ k2.prio = k1.prio /\ k2.current = k1.current
           /\ k2.locked = k1.locked /\ k2.to = k1.to
           /\ \A u \in Threads \ {t} : k2.state[u] = k1.state[u]
           /\ f \in k2.state[t]
           /\ ~is_thread_ready(k2, t)
<1>1. /\ k2 \in KernelType
      /\ k2.q = k1.q /\ k2.bmap = k1.bmap /\ k2.cache = k1.cache
      /\ k2.prio = k1.prio /\ k2.current = k1.current
      /\ k2.locked = k1.locked /\ k2.to = k1.to
      /\ \A u \in Threads \ {t} : k2.state[u] = k1.state[u]
      /\ f \in k2.state[t]
  BY DEF KernelType
<1> QED BY <1>1 DEF is_thread_ready

(***************************************************************************)
(* ... with the thread taken off the ready queue first: what              *)
(* k_thread_suspend() and k_thread_abort() do to a ready thread.           *)
(***************************************************************************)
LEMMA ReadyStopped ==
    ASSUME NEW kk, Live(kk), NEW t \in Threads \ {Idle}, is_thread_ready(kk, t),
           NEW f \in StateFlags
    PROVE  LET k2 == [remove_thread_from_ready_q(kk, t)
                        EXCEPT !.state[t] = @ \cup {f}]
           IN  /\ Good(k2)
               /\ kk.current # t => Live(k2)
               /\ kk.current # t /\ Settled(kk) => Settled(k2)
<1> DEFINE k1 == remove_thread_from_ready_q(kk, t)
           k2 == [k1 EXCEPT !.state[t] = @ \cup {f}]
<1>1. Off(k1, t) /\ SameThreads(kk, k1)
  BY OffRemoved DEF Live
<1>2. k1 \in KernelType
  BY <1>1 DEF Off, Holds
<1>3. /\ k2 \in KernelType
      /\ k2.q = k1.q /\ k2.bmap = k1.bmap /\ k2.cache = k1.cache
      /\ k2.prio = k1.prio /\ k2.current = k1.current
      /\ k2.locked = k1.locked /\ k2.to = k1.to
      /\ \A u \in Threads \ {t} : k2.state[u] = k1.state[u]
      /\ ~is_thread_ready(k2, t)
  BY <1>2, FlagSet
<1> HIDE DEF k1, k2
<1>4. /\ k2.prio = kk.prio /\ k2.current = kk.current /\ k2.locked = kk.locked
      /\ \A u \in Threads \ {t} : k2.state[u] = kk.state[u] /\ k2.to[u] = kk.to[u]
  BY <1>1, <1>3 DEF SameThreads
<1>5. Off(k2, t)
  <2>1. \A u \in Threads \ {t} : /\ k2.prio[u] = k1.prio[u]
                                 /\ k2.state[u] = k1.state[u]
                                 /\ k2.to[u] = k1.to[u]
    BY <1>3
  <2> QED BY <1>1, <1>3, <2>1, OffFrame
<1>6. Good(k2)
  BY <1>3, <1>5, OffUnready
<1>7. \A u \in Threads : is_thread_ready(k2, u) <=> u # t /\ is_thread_ready(kk, u)
  BY <1>3, <1>4 DEF is_thread_ready, is_thread_timeout_active
<1>8. kk.current \in Threads
  BY DEF Live, Good, Holds, KernelType
<1>9. kk.current # t => Live(k2)
  BY <1>4, <1>6, <1>7, <1>8 DEF Live
<1>10. kk.current # t /\ Settled(kk) => Settled(k2)
  BY <1>4, <1>7, <1>8 DEF Settled, is_preempt
<1> QED BY <1>6, <1>9, <1>10 DEF k1, k2

(***************************************************************************)
(* Taking a pending thread off its wait queue touches nothing else.        *)
(***************************************************************************)
LEMMA UnpendFrame ==
    ASSUME NEW kk \in KernelType, NEW t \in Threads, NEW k0,
           k0 = IF "PENDING" \in kk.state[t] THEN unpend_thread(kk, t) ELSE kk
    PROVE  /\ k0 \in KernelType
           /\ k0.q = kk.q /\ k0.bmap = kk.bmap /\ k0.cache = kk.cache
           /\ k0.prio = kk.prio /\ k0.current = kk.current
           /\ k0.locked = kk.locked /\ k0.to = kk.to
           /\ \A u \in Threads \ {t} : k0.state[u] = kk.state[u]
<1> DEFINE W == [w \in WaitQs |-> dlist_remove(kk.wq[w], t)]
           st == [kk.state EXCEPT ![t] = @ \ {"PENDING"}]
<1>1. W \in [WaitQs -> Seq(Threads)]
  <2> SUFFICES ASSUME NEW w \in WaitQs PROVE dlist_remove(kk.wq[w], t) \in Seq(Threads)
    OBVIOUS
  <2>1. kk.wq[w] \in Seq(Threads)
    BY DEF KernelType
  <2> QED BY <2>1, RemoveType
<1>2. unpend_thread(kk, t) = [kk EXCEPT !.wq = W, !.state = st]
  BY DEF unpend_thread
<1>a. st \in [Threads -> SUBSET StateFlags] /\ \A u \in Threads \ {t} : st[u] = kk.state[u]
  BY DEF KernelType
<1> HIDE DEF W, st
<1>3. CASE "PENDING" \in kk.state[t]
  <2>1. k0 = [kk EXCEPT !.wq = W, !.state = st]
    BY <1>2, <1>3
  <2> QED BY <1>1, <1>a, <2>1 DEF KernelType
<1>4. CASE "PENDING" \notin kk.state[t]
  BY <1>4
<1> QED BY <1>3, <1>4

\* k_thread_suspend()
LEMMA SuspendStays ==
    ASSUME NEW t \in Apps PROVE IInv /\ k_thread_suspend(t) => IInv'
<1> SUFFICES ASSUME IInv, k_thread_suspend(t) PROVE IInv'
  OBVIOUS
<1> DEFINE k1 == IF is_thread_ready(k, t) THEN remove_thread_from_ready_q(k, t) ELSE k
           k2 == [k1 EXCEPT !.state[t] = @ \cup {"SUSPENDED"}]
<1>1. InThread /\ t \in Threads \ {Idle} /\ Call(IF t = k.current THEN swap(k2) ELSE k2)
  BY DEF k_thread_suspend, Apps
<1>2. "SUSPENDED" \in StateFlags
  BY DEF StateFlags
<1>3. CASE is_thread_ready(k, t)
  <2>1. k2 = [remove_thread_from_ready_q(k, t) EXCEPT !.state[t] = @ \cup {"SUSPENDED"}]
    BY <1>3
  <2> HIDE DEF k2
  <2>2. Good(k2) /\ (k.current # t => Live(k2) /\ Settled(k2))
    BY <1>1, <1>2, <1>3, <2>1, InThreadFacts, ReadyStopped
  <2>3. CASE t = k.current
    BY <1>1, <2>2, <2>3, SwapSettled, InThreadFacts, CallStays DEF Call
  <2>4. CASE t # k.current
    BY <1>1, <2>2, <2>4, InThreadFacts, CallStays DEF Call
  <2> QED BY <2>3, <2>4
<1>4. CASE ~is_thread_ready(k, t)
  <2>1. k2 = [k EXCEPT !.state[t] = @ \cup {"SUSPENDED"}]
    BY <1>4
  <2> HIDE DEF k2
  <2>2. /\ k2 \in KernelType
        /\ k2.q = k.q /\ k2.bmap = k.bmap /\ k2.cache = k.cache
        /\ k2.prio = k.prio /\ k2.current = k.current
        /\ k2.locked = k.locked /\ k2.to = k.to
        /\ \A u \in Threads \ {t} : k2.state[u] = k.state[u]
        /\ ~is_thread_ready(k2, t)
    BY <1>1, <1>2, <2>1, InThreadFacts, FlagSet
  <2>3. Live(k2) /\ Settled(k2)
    BY <1>1, <1>4, <2>2, InThreadFacts, UnreadyTouched
  <2>4. t # k.current
    BY <1>1, <1>4, InThreadFacts
  <2> QED BY <1>1, <2>3, <2>4, InThreadFacts, CallStays DEF Call
<1> QED BY <1>3, <1>4

\* k_thread_resume() of a thread that is not ready
LEMMA ResumeStays ==
    ASSUME NEW t \in Apps PROVE IInv /\ resume_not_ready(t) => IInv'
<1> SUFFICES ASSUME IInv, resume_not_ready(t) PROVE IInv'
  OBVIOUS
<1> DEFINE k1 == [k EXCEPT !.state[t] = @ \ {"SUSPENDED"}]
           k2 == IF is_thread_ready(k1, t) THEN add_thread_to_ready_q(k1, t) ELSE k1
<1>1. /\ InThread /\ ~is_thread_ready(k, t) /\ t \in Threads \ {Idle}
      /\ Call(reschedule_threads(k2))
  BY DEF resume_not_ready, k_thread_resume, resume, Apps
<1>2. ~is_thread_ready(k, t)
  BY <1>1
<1>3. /\ k1 \in KernelType
      /\ k1.q = k.q /\ k1.bmap = k.bmap /\ k1.cache = k.cache
      /\ k1.current = k.current
      /\ \A u \in Threads \ {t} : /\ k1.prio[u] = k.prio[u]
                                   /\ k1.state[u] = k.state[u]
                                   /\ k1.to[u] = k.to[u]
  BY <1>1, InThreadFacts DEF KernelType
<1> HIDE DEF k1
<1>4. Off(k1, t)
  BY <1>1, <1>2, <1>3, InThreadFacts, OffUnready, OffFrame
<1>5. is_thread_ready(k1, k1.current)
  BY <1>1, <1>2, <1>3, InThreadFacts
     DEF is_thread_ready, is_thread_timeout_active
<1>6. Live(k2)
  <2>1. CASE is_thread_ready(k1, t)
    <3> DEFINE k3 == add_thread_to_ready_q(k1, t)
    <3>1. Good(k3) /\ SameThreads(k1, k3)
      BY <1>4, <2>1, GoodAdded
    <3> HIDE DEF k3
    <3>2. Live(k3)
      BY <1>5, <3>1
         DEF Live, SameThreads, is_thread_ready, is_thread_timeout_active
    <3> QED BY <2>1, <3>2 DEF k3
  <2>2. CASE ~is_thread_ready(k1, t)
    BY <1>1, <1>4, <1>5, <2>2, OffUnready DEF Live
  <2> QED BY <2>1, <2>2
<1> QED BY <1>1, <1>6, RescheduleSettled, InThreadFacts, CallStays DEF Call

\* k_thread_abort(): a thread that waits, sleeps or has not started leaves
\* its wait queue and _timeout_q, a ready one the ready queue
LEMMA AbortStays ==
    ASSUME NEW t \in Apps PROVE IInv /\ k_thread_abort(t) => IInv'
<1> SUFFICES ASSUME IInv, k_thread_abort(t) PROVE IInv'
  OBVIOUS
<1> DEFINE k2 == single_abort(k, t)
<1>1. /\ InThread /\ t \in Threads \ {Idle}
      /\ Call(IF t = k.current THEN swap(k2) ELSE reschedule_threads(k2))
  BY DEF k_thread_abort, Apps
<1>2. "DEAD" \in StateFlags
  BY DEF StateFlags
<1>3. CASE is_thread_ready(k, t)
  <2>1. k2 = [remove_thread_from_ready_q(k, t) EXCEPT !.state[t] = @ \cup {"DEAD"}]
    BY <1>3 DEF single_abort
  <2> HIDE DEF k2
  <2>2. Good(k2) /\ (k.current # t => Live(k2))
    BY <1>1, <1>2, <1>3, <2>1, InThreadFacts, ReadyStopped
  <2>3. CASE t = k.current
    BY <1>1, <2>2, <2>3, SwapSettled, InThreadFacts, CallStays DEF Call
  <2>4. CASE t # k.current
    BY <1>1, <2>2, <2>4, RescheduleSettled, InThreadFacts, CallStays DEF Call
  <2> QED BY <2>3, <2>4
<1>4. CASE ~is_thread_ready(k, t)
  <2> DEFINE k0 == IF "PENDING" \in k.state[t] THEN unpend_thread(k, t) ELSE k
             k1 == [k0 EXCEPT !.to[t] = "INACTIVE"]
  <2>1. k2 = [k1 EXCEPT !.state[t] = @ \cup {"DEAD"}]
    BY <1>4 DEF single_abort, abort_thread_timeout
  <2>2. /\ k0 \in KernelType
        /\ k0.q = k.q /\ k0.bmap = k.bmap /\ k0.cache = k.cache
        /\ k0.prio = k.prio /\ k0.current = k.current
        /\ k0.locked = k.locked /\ k0.to = k.to
        /\ \A u \in Threads \ {t} : k0.state[u] = k.state[u]
    BY <1>1, InThreadFacts, UnpendFrame
  <2> HIDE DEF k0, k2
  <2>3. /\ k1 \in KernelType
        /\ k1.q = k0.q /\ k1.bmap = k0.bmap /\ k1.cache = k0.cache
        /\ k1.prio = k0.prio /\ k1.current = k0.current
        /\ k1.locked = k0.locked /\ k1.state = k0.state
        /\ \A u \in Threads \ {t} : k1.to[u] = k0.to[u]
    BY <1>1, <2>2 DEF KernelType, AllTimeouts, TimeoutStates
  <2> HIDE DEF k1
  <2>4. /\ k2 \in KernelType
        /\ k2.q = k1.q /\ k2.bmap = k1.bmap /\ k2.cache = k1.cache
        /\ k2.prio = k1.prio /\ k2.current = k1.current
        /\ k2.locked = k1.locked /\ k2.to = k1.to
        /\ \A u \in Threads \ {t} : k2.state[u] = k1.state[u]
        /\ ~is_thread_ready(k2, t)
    BY <1>1, <1>2, <2>1, <2>3, FlagSet
  <2>5. Live(k2)
    BY <1>1, <1>4, <2>2, <2>3, <2>4, InThreadFacts, UnreadyTouched
  <2>6. t # k.current
    BY <1>1, <1>4, InThreadFacts
  <2> QED BY <1>1, <2>5, <2>6, RescheduleSettled, InThreadFacts, CallStays DEF Call
<1> QED BY <1>3, <1>4

(***************************************************************************)
(* Interrupts.                                                             *)
(***************************************************************************)

\* An interrupt handler that is not the last to return leaves the invariant
\* true if it leaves a live kernel record.
LEMMA IsrStays ==
    ASSUME IInv, Live(k'), isr' # <<>>, slice' = slice,
           isr' \in {<<"clk">>, <<"dev">>, <<"clk", "dev">>, <<"dev", "clk">>},
           clk' \in {"off", "expire", "handle"}
    PROVE  IInv'
<1>1. k' \in KernelType
  BY DEF Live, Good, Holds
<1> QED BY <1>1 DEF IInv, TypeOK

\* a sequence of two is a pair
LEMMA PairIs ==
    ASSUME NEW a, NEW b, NEW x \in Seq({a, b}), Len(x) = 2, x[1] = a, x[2] = b
    PROVE  x = <<a, b>>
<1> DEFINE y == <<a, b>>
<1>1. y \in Seq({a, b}) /\ Len(y) = 2 /\ y[1] = a /\ y[2] = b
  OBVIOUS
<1> HIDE DEF y
<1>2. \A i \in 1..Len(x) : x[i] = y[i]
  BY <1>1
<1>3. x = y
  BY <1>1, <1>2, SeqEqual
<1> QED BY <1>3 DEF y

\* an interrupt pushed on top of another one
LEMMA PairConcat == ASSUME NEW a, NEW b PROVE <<a>> \o <<b>> = <<a, b>>
<1> DEFINE x == <<a>> \o <<b>>
<1>1. <<a>> \in Seq({a, b}) /\ <<b>> \in Seq({a, b})
  OBVIOUS
<1>2. x \in Seq({a, b}) /\ Len(x) = 2 /\ x[1] = a /\ x[2] = b
  BY <1>1, ConcatProperties
<1> HIDE DEF x
<1>3. x = <<a, b>>
  BY <1>2, PairIs
<1> QED BY <1>3 DEF x

\* the stack of active interrupts after an entry
LEMMA EnterStack ==
    ASSUME TypeOK, NEW source \in {"clk", "dev"}, IsrEnter(source)
    PROVE  isr' \in {<<"clk">>, <<"dev">>, <<"clk", "dev">>, <<"dev", "clk">>}
           /\ isr' # <<>>
<1>1. isr' = <<source>> \o isr /\ ~\E i \in 1..Len(isr) : isr[i] = source
  BY DEF IsrEnter, Contains
<1>2. isr \in {<<>>, <<"clk">>, <<"dev">>, <<"clk", "dev">>, <<"dev", "clk">>}
  BY DEF TypeOK
<1>3. CASE isr = <<>>
  BY <1>1, <1>3
<1>4. CASE isr = <<"clk">>
  <2>1. Len(isr) = 1 /\ isr[1] = "clk"
    BY <1>4
  <2>2. source = "dev"
    BY <1>1, <2>1
  <2>3. isr' = <<"dev", "clk">>
    BY <1>1, <1>4, <2>2, PairConcat
  <2> QED BY <2>3
<1>5. CASE isr = <<"dev">>
  <2>1. Len(isr) = 1 /\ isr[1] = "dev"
    BY <1>5
  <2>2. source = "clk"
    BY <1>1, <2>1
  <2>3. isr' = <<"clk", "dev">>
    BY <1>1, <1>5, <2>2, PairConcat
  <2> QED BY <2>3
<1>6. CASE isr \in {<<"clk", "dev">>, <<"dev", "clk">>}
  <2>1. Len(isr) = 2 /\ (isr[1] = source \/ isr[2] = source)
    BY <1>6
  <2> QED BY <1>1, <2>1
<1> QED BY <1>2, <1>3, <1>4, <1>5, <1>6

\* a return from an interrupt whose handler left the live record newK
LEMMA ExitStays ==
    ASSUME IInv, isr # <<>>, NEW newK, Live(newK), IsrExit(newK),
           slice' = slice, clk' \in {"off", "expire", "handle"}
    PROVE  IInv'
<1>1. isr' = Tail(isr) /\ k' = IF Tail(isr) = <<>> THEN isr_exit_swap(newK) ELSE newK
  BY DEF IsrExit
<1>2. isr \in {<<"clk">>, <<"dev">>, <<"clk", "dev">>, <<"dev", "clk">>}
  BY DEF IInv, TypeOK
<1>3. Tail(isr) \in {<<>>, <<"clk">>, <<"dev">>}
  <2>1. CASE isr = <<"clk">> \/ isr = <<"dev">>
    <3>1. Tail(<<"clk">>) = <<>> /\ Tail(<<"dev">>) = <<>>
      OBVIOUS
    <3> QED BY <2>1, <3>1
  <2>2. CASE isr = <<"clk", "dev">>
    BY <2>2
  <2>3. CASE isr = <<"dev", "clk">>
    BY <2>3
  <2> QED BY <1>2, <2>1, <2>2, <2>3
<1>4. CASE Tail(isr) = <<>>
  <2>1. Live(k') /\ Settled(k')
    BY <1>1, <1>4, IsrExitSettled
  <2>2. k' \in KernelType
    BY <2>1 DEF Live, Good, Holds
  <2> QED BY <1>1, <1>4, <2>1, <2>2 DEF IInv, TypeOK
<1>5. CASE Tail(isr) # <<>>
  BY <1>1, <1>3, <1>5, IsrStays
<1> QED BY <1>4, <1>5

\* device interrupts
LEMMA DeviceStays == IInv /\ Device => IInv'
<1> SUFFICES ASSUME IInv, Device PROVE IInv'
  OBVIOUS
<1>1. CASE DevEnter
  <2>1. IsrEnter("dev") /\ k' = k /\ clk' = clk /\ slice' = slice
    BY <1>1 DEF DevEnter
  <2>2. /\ isr' \in {<<"clk">>, <<"dev">>, <<"clk", "dev">>, <<"dev", "clk">>}
        /\ isr' # <<>>
    BY <2>1, EnterStack DEF IInv
  <2>3. Live(k') /\ clk' \in {"off", "expire", "handle"}
    BY <2>1 DEF IInv, TypeOK
  <2> QED BY <2>1, <2>2, <2>3, IsrStays
<1>2. CASE DevExit
  <2>1. /\ isr # <<>> /\ IsrExit(k) /\ slice' = slice /\ Live(k)
        /\ clk' \in {"off", "expire", "handle"}
    BY <1>2 DEF DevExit, Active, IInv, TypeOK
  <2> QED BY <2>1, ExitStays
<1>3. ASSUME NEW t \in Apps, isr_wakeup(t) PROVE IInv'
  <2>1. /\ isr # <<>> /\ isr' = isr /\ clk' = clk /\ slice' = slice
        /\ k' = wakeup(k, t) /\ is_thread_timeout_active(k, t)
        /\ t \in Threads \ {Idle}
    BY <1>3 DEF isr_wakeup, Active, is_thread_timeout_active, Apps
  <2>2. Live(k')
    BY <2>1, WakeupLive DEF IInv
  <2>3. /\ isr' \in {<<"clk">>, <<"dev">>, <<"clk", "dev">>, <<"dev", "clk">>}
        /\ clk' \in {"off", "expire", "handle"} /\ isr' # <<>>
    BY <2>1 DEF IInv, TypeOK
  <2> QED BY <2>1, <2>2, <2>3, IsrStays
<1> QED BY <1>1, <1>2, <1>3 DEF Device

\* _handling_timeouts is no concern of the ready queue
LEMMA HandlingSet ==
    ASSUME NEW kk, Live(kk), NEW b \in BOOLEAN, NEW k2,
           k2 = [kk EXCEPT !.handling = b]
    PROVE  Live(k2)
<1>1. kk \in KernelType
  BY DEF Live, Good, Holds
<1>2. /\ k2 \in KernelType
      /\ k2.q = kk.q /\ k2.bmap = kk.bmap /\ k2.cache = kk.cache
      /\ k2.prio = kk.prio /\ k2.state = kk.state /\ k2.to = kk.to
      /\ k2.current = kk.current
  BY <1>1 DEF KernelType
<1>3. Good(k2)
  BY <1>2, GoodFrame DEF Live
<1> QED BY <1>2, <1>3 DEF Live, is_thread_ready, is_thread_timeout_active

\* handle_time_slicing() moves the current thread, which is ready
LEMMA SlicingLive ==
    ASSUME NEW kk, Live(kk), NEW d \in Nat, NEW c
    PROVE  Live(handle_time_slicing(kk, d, c))
<1>1. kk \in KernelType /\ kk.current \in Threads
  BY DEF Live, Good, Holds, KernelType
<1>2. ASSUME NEW n \in Nat, NEW k1, k1 = [kk EXCEPT !.elapsed = n]
      PROVE  Live(k1) /\ k1.current = kk.current
  <2>1. /\ k1 \in KernelType
        /\ k1.q = kk.q /\ k1.bmap = kk.bmap /\ k1.cache = kk.cache
        /\ k1.prio = kk.prio /\ k1.state = kk.state /\ k1.to = kk.to
        /\ k1.current = kk.current
    BY <1>1, <1>2 DEF KernelType
  <2>2. Good(k1)
    BY <2>1, GoodFrame DEF Live
  <2> QED BY <2>1, <2>2 DEF Live, is_thread_ready, is_thread_timeout_active
<1>3. CASE ~is_thread_time_slicing(kk, kk.current, d, c)
  BY <1>3 DEF handle_time_slicing
<1>4. CASE is_thread_time_slicing(kk, kk.current, d, c) /\ kk.elapsed + 1 >= d
  <2> DEFINE k1 == [kk EXCEPT !.elapsed = 0]
             k2 == move_thread_to_end_of_prio_q(k1, kk.current)
  <2>1. handle_time_slicing(kk, d, c) = k2
    BY <1>4 DEF handle_time_slicing
  <2>2. Live(k1) /\ k1.current = kk.current
    BY <1>2
  <2> HIDE DEF k1
  <2>3. Good(k2) /\ SameThreads(k1, k2)
    BY <1>1, <2>2, GoodMoved DEF Live
  <2> HIDE DEF k2
  <2> QED BY <2>1, <2>2, <2>3
          DEF Live, SameThreads, is_thread_ready, is_thread_timeout_active
<1>5. CASE is_thread_time_slicing(kk, kk.current, d, c) /\ ~(kk.elapsed + 1 >= d)
  <2> DEFINE n == kk.elapsed + 1
  <2>1. n \in Nat
    BY <1>1 DEF KernelType
  <2>2. handle_time_slicing(kk, d, c) = [kk EXCEPT !.elapsed = n]
    BY <1>5 DEF handle_time_slicing
  <2> HIDE DEF n
  <2> QED BY <1>2, <2>1, <2>2
<1> QED BY <1>3, <1>4, <1>5

\* a thread with a timeout is neither idle nor current
LEMMA TimedThread ==
    ASSUME NEW kk, Live(kk), NEW t \in Threads, kk.to[t] # "INACTIVE"
    PROVE  t \in Threads \ {Idle} /\ ~is_thread_ready(kk, t)
<1>1. is_thread_ready(kk, Idle)
  BY DEF Live, Good, Holds, ReadyThreads
<1> QED BY <1>1 DEF is_thread_ready, is_thread_timeout_active

\* one thread's timeout is marked expired
LEMMA ExpireThread ==
    ASSUME NEW kk, Live(kk), NEW t \in Threads, kk.to[t] = "ACTIVE"
    PROVE  Live([kk EXCEPT !.to[t] = "EXPIRED"])
<1> DEFINE k2 == [kk EXCEPT !.to[t] = "EXPIRED"]
<1>1. kk \in KernelType
  BY DEF Live, Good, Holds
<1>2. t \in Threads \ {Idle} /\ ~is_thread_ready(kk, t)
  BY TimedThread
<1>3. /\ k2 \in KernelType
      /\ k2.q = kk.q /\ k2.bmap = kk.bmap /\ k2.cache = kk.cache
      /\ k2.current = kk.current /\ k2.state = kk.state /\ k2.prio = kk.prio
      /\ \A u \in Threads \ {t} : k2.to[u] = kk.to[u]
      /\ k2.to[t] = "EXPIRED"
  BY <1>1 DEF KernelType, AllTimeouts, TimeoutStates
<1> HIDE DEF k2
<1>4. ~is_thread_ready(k2, t)
  BY <1>3 DEF is_thread_ready, is_thread_timeout_active
<1>5. Off(k2, t)
  BY <1>2, <1>3, OffUnready, OffFrame DEF Live
<1>6. Good(k2)
  BY <1>2, <1>4, <1>5, OffUnready
<1>7. is_thread_ready(k2, k2.current)
  <2>1. kk.current \in Threads \ {t}
    BY <1>1, <1>2 DEF Live, KernelType
  <2> QED BY <1>3, <2>1 DEF Live, is_thread_ready, is_thread_timeout_active
<1> QED BY <1>6, <1>7 DEF Live, k2

\* one timeout, of a thread or not, is marked expired
LEMMA ExpireLive ==
    ASSUME NEW kk, Live(kk), NEW t \in AllTimeouts, kk.to[t] = "ACTIVE"
    PROVE  Live([kk EXCEPT !.to[t] = "EXPIRED"])
<1>1. CASE t \in Threads
  BY <1>1, ExpireThread
<1>2. CASE t \in Timers
  <2> DEFINE k2 == [kk EXCEPT !.to[t] = "EXPIRED"]
  <2>1. kk \in KernelType
    BY DEF Live, Good, Holds
  <2>2. /\ k2 \in KernelType
        /\ k2.q = kk.q /\ k2.bmap = kk.bmap /\ k2.cache = kk.cache
        /\ k2.current = kk.current /\ k2.state = kk.state /\ k2.prio = kk.prio
        /\ \A u \in Threads : k2.to[u] = kk.to[u]
    BY <1>2, <2>1, TimersAssumption DEF KernelType, AllTimeouts, TimeoutStates
  <2> HIDE DEF k2
  <2>3. Good(k2)
    BY <2>2, GoodFrame DEF Live
  <2>4. is_thread_ready(k2, k2.current)
    BY <2>1, <2>2 DEF Live, KernelType, is_thread_ready, is_thread_timeout_active
  <2> QED BY <2>3, <2>4 DEF Live, k2
<1> QED BY <1>1, <1>2 DEF AllTimeouts

\* _handle_one_expired_timeout() of a thread's timeout
LEMMA HandleLive ==
    ASSUME NEW kk, Live(kk), NEW t \in Threads, kk.to[t] = "EXPIRED"
    PROVE  Live(handle_one_expired_timeout(kk, t))
<1> DEFINE k1 == [kk EXCEPT !.to[t] = "INACTIVE"]
           k2 == IF "PENDING" \in k1.state[t] THEN unpend_thread(k1, t) ELSE k1
           k3 == ready_thread(k2, t)
<1>1. kk \in KernelType
  BY DEF Live, Good, Holds
<1>2. t \in Threads \ {Idle} /\ ~is_thread_ready(kk, t)
  BY TimedThread
<1>3. handle_one_expired_timeout(kk, t) = k3
  BY DEF handle_one_expired_timeout
<1>4. /\ k1 \in KernelType
      /\ k1.q = kk.q /\ k1.bmap = kk.bmap /\ k1.cache = kk.cache
      /\ k1.current = kk.current /\ k1.state = kk.state /\ k1.prio = kk.prio
      /\ \A u \in Threads \ {t} : k1.to[u] = kk.to[u]
  BY <1>1 DEF KernelType, AllTimeouts, TimeoutStates
<1> HIDE DEF k1
<1>5. /\ k2 \in KernelType
      /\ k2.q = k1.q /\ k2.bmap = k1.bmap /\ k2.cache = k1.cache
      /\ k2.prio = k1.prio /\ k2.current = k1.current /\ k2.to = k1.to
      /\ \A u \in Threads \ {t} : k2.state[u] = k1.state[u]
  BY <1>4, UnpendFrame
<1> HIDE DEF k2
<1>6. Off(k2, t)
  <2>1. Off(kk, t)
    BY <1>2, OffUnready DEF Live
  <2>2. \A u \in Threads \ {t} : /\ k2.prio[u] = kk.prio[u]
                                 /\ k2.state[u] = kk.state[u]
                                 /\ k2.to[u] = kk.to[u]
    BY <1>4, <1>5
  <2> QED BY <1>4, <1>5, <2>1, <2>2, OffFrame
<1>7. Good(k3) /\ SameThreads([k2 EXCEPT !.state[t] = @ \ {"PRESTART"}], k3)
  BY <1>6, GoodReadied
<1> HIDE DEF k3
<1>8. k3.current = k2.current /\ k3.to = k2.to
      /\ \A u \in Threads \ {t} : k3.state[u] = k2.state[u]
  BY <1>5, <1>7 DEF SameThreads, KernelType
<1>9. is_thread_ready(k3, k3.current)
  <2>1. kk.current \in Threads \ {t}
    BY <1>1, <1>2 DEF Live, KernelType
  <2> QED BY <1>4, <1>5, <1>8, <2>1 DEF Live, is_thread_ready, is_thread_timeout_active
<1> QED BY <1>3, <1>7, <1>9 DEF Live

\* the clock interrupt
LEMMA ClockStays == IInv /\ Clock => IInv'
<1> SUFFICES ASSUME IInv, Clock PROVE IInv'
  OBVIOUS
<1>1. /\ Live(k) /\ clk \in {"off", "expire", "handle"}
      /\ isr # <<>> => isr \in {<<"clk">>, <<"dev">>, <<"clk", "dev">>, <<"dev", "clk">>}
      /\ TypeOK
  BY DEF IInv, TypeOK
<1>2. CASE ClockEnter
  <2>1. IsrEnter("clk") /\ slice' = slice /\ clk' \in {"off", "expire", "handle"}
    BY <1>2 DEF ClockEnter
  <2>2. /\ isr' \in {<<"clk">>, <<"dev">>, <<"clk", "dev">>, <<"dev", "clk">>}
        /\ isr' # <<>>
    BY <1>1, <2>1, EnterStack
  <2>3. Live(k')
    <3>1. k' = k \/ k' = [k EXCEPT !.handling = TRUE]
      BY <1>2 DEF ClockEnter
    <3> QED BY <1>1, <3>1, HandlingSet
  <2> QED BY <2>1, <2>2, <2>3, IsrStays
<1>3. CASE ClockExpired
  <2>1. isr # <<>> /\ isr' = isr /\ k' = k /\ slice' = slice /\ clk' = "handle"
    BY <1>3 DEF ClockExpired, Active
  <2> QED BY <1>1, <2>1, IsrStays
<1>4. CASE ClockExit
  <2> DEFINE k1 == [k EXCEPT !.handling = FALSE]
             k2 == handle_time_slicing(k1, slice[1], slice[2])
  <2>1. isr # <<>> /\ clk' = "off" /\ IsrExit(k2) /\ slice' = slice
    BY <1>4 DEF ClockExit, Active
  <2>2. Live(k1)
    BY <1>1, HandlingSet
  <2>3. slice[1] \in Nat
    BY <1>1, SchedAssumption DEF TypeOK
  <2> HIDE DEF k1
  <2>4. Live(k2)
    BY <2>2, <2>3, SlicingLive
  <2> HIDE DEF k2
  <2> QED BY <2>1, <2>4, ExitStays
<1>5. ASSUME NEW t \in AllTimeouts, ClockExpire(t) PROVE IInv'
  <2>1. /\ isr # <<>> /\ isr' = isr /\ clk' = clk /\ slice' = slice
        /\ k.to[t] = "ACTIVE" /\ k' = [k EXCEPT !.to[t] = "EXPIRED"]
    BY <1>5 DEF ClockExpire, Active
  <2>2. Live(k')
    BY <1>1, <2>1, ExpireLive
  <2> QED BY <1>1, <2>1, <2>2, IsrStays
<1>6. ASSUME NEW t \in Threads, ClockHandle(t) PROVE IInv'
  <2>1. /\ isr # <<>> /\ isr' = isr /\ clk' = clk /\ slice' = slice
        /\ k.to[t] = "EXPIRED" /\ k' = handle_one_expired_timeout(k, t)
    BY <1>6 DEF ClockHandle, Active
  <2>2. Live(k')
    BY <1>1, <2>1, HandleLive
  <2> QED BY <1>1, <2>1, <2>2, IsrStays
<1> QED BY <1>2, <1>3, <1>4, <1>5, <1>6 DEF Clock

\* lists of one thread and of none
LEMMA ShortLists ==
    /\ IsList(<<>>, {})
    /\ \A t \in Threads : IsList(<<t>>, {t})
<1>1. IsList(<<>>, {})
  BY DEF IsList, IsInjective, ToSet
<1>2. ASSUME NEW t \in Threads PROVE IsList(<<t>>, {t})
  <2>1. <<t>> \in Seq(Threads) /\ DOMAIN <<t>> = {1} /\ <<t>>[1] = t
    OBVIOUS
  <2> QED BY <2>1 DEF IsList, IsInjective, ToSet
<1> QED BY <1>1, <1>2

(***************************************************************************)
(* The state after the switch to the main thread satisfies the invariant.  *)
(***************************************************************************)
LEMMA InitInv == SchedInit => IInv
<1> SUFFICES ASSUME SchedInit PROVE IInv
  OBVIOUS
<1> DEFINE p0 == InitPrio[Main]
<1>0. PICK delayed \in SUBSET (Threads \ {Main, Idle}) :
        k = [current |-> Main,
             cache   |-> Main,
             q       |-> [p \in Prios |-> IF p = InitPrio[Main] THEN <<Main>>
                                     ELSE IF p = NumPreempt THEN <<Idle>>
                                     ELSE <<>>],
             bmap    |-> {InitPrio[Main], NumPreempt},
             prio    |-> InitPrio,
             state   |-> [t \in Threads |-> IF t \in {Main, Idle} THEN {}
                                            ELSE {"PRESTART"}],
             locked  |-> [t \in Threads |-> 0],
             to      |-> [t \in AllTimeouts |-> IF t \in delayed THEN "ACTIVE"
                                                ELSE "INACTIVE"],
             wq      |-> [w \in WaitQs |-> <<>>],
             rv      |-> [t \in Threads |-> "EAGAIN"],
             handling |-> FALSE,
             elapsed |-> 0]
  BY DEF SchedInit
<1>1. /\ k.current = Main /\ k.cache = Main /\ k.prio = InitPrio
      /\ k.q = [p \in Prios |-> IF p = p0 THEN <<Main>>
                               ELSE IF p = NumPreempt THEN <<Idle>> ELSE <<>>]
      /\ k.bmap = {p0, NumPreempt}
      /\ k.state = [t \in Threads |-> IF t \in {Main, Idle} THEN {} ELSE {"PRESTART"}]
      /\ k.to = [t \in AllTimeouts |-> IF t \in delayed THEN "ACTIVE" ELSE "INACTIVE"]
  BY <1>0
<1>2. /\ Main \in Threads /\ Idle \in Threads /\ Main # Idle
      /\ InitPrio \in [Threads -> Prios] /\ InitPrio[Idle] = NumPreempt
      /\ \A t \in Threads \ {Idle} : InitPrio[t] \in AppPrios
  BY ThreadsAssumption, SchedAssumption
<1>3. /\ p0 \in Prios /\ NumPreempt \in Prios /\ p0 # NumPreempt
      /\ p0 <= NumPreempt /\ p0 <= p0
  BY <1>2, PriosAssumption DEF AppPrios, Prios
<1>4. k.q \in [Prios -> Seq(Threads)]
  <2>1. <<Main>> \in Seq(Threads) /\ <<Idle>> \in Seq(Threads) /\ <<>> \in Seq(Threads)
    BY <1>2
  <2> QED BY <1>1, <2>1
<1>5. k \in KernelType
  <2>1. k.wq = [w \in WaitQs |-> <<>>] /\ k.locked = [t \in Threads |-> 0]
        /\ k.rv = [t \in Threads |-> "EAGAIN"] /\ k.handling = FALSE /\ k.elapsed = 0
    BY <1>0
  <2>2. k.wq \in [WaitQs -> Seq(Threads)]
    BY <2>1
  <2>3. /\ k.state \in [Threads -> SUBSET StateFlags]
        /\ k.to \in [AllTimeouts -> TimeoutStates]
        /\ k.locked \in [Threads -> Nat]
        /\ k.rv \in [Threads -> RetVals]
    BY <1>1, <2>1 DEF StateFlags, TimeoutStates, RetVals
  <2>4. k = [current |-> k.current, cache |-> k.cache, q |-> k.q, bmap |-> k.bmap,
             prio |-> k.prio, state |-> k.state, locked |-> k.locked, to |-> k.to,
             wq |-> k.wq, rv |-> k.rv, handling |-> k.handling,
             elapsed |-> k.elapsed]
    BY <1>0
  <2>5. /\ k.current \in Threads /\ k.cache \in Threads /\ k.bmap \in SUBSET Prios
        /\ k.prio \in [Threads -> Prios] /\ k.elapsed \in Nat
    BY <1>1, <1>2, <1>3, <2>1
  <2>6. k.handling \in BOOLEAN
    BY <2>1
  <2> QED BY <1>4, <2>2, <2>3, <2>4, <2>5, <2>6 DEF KernelType
<1>6. ReadyThreads(k) = {Main, Idle}
  <2>1. k.to[Main] = "INACTIVE" /\ k.to[Idle] = "INACTIVE"
    BY <1>1, <1>2 DEF AllTimeouts
  <2>2. k.state[Main] = {} /\ k.state[Idle] = {}
    BY <1>1, <1>2
  <2>3. \A t \in Threads \ {Main, Idle} : "PRESTART" \in k.state[t]
    BY <1>1
  <2> QED BY <1>2, <2>1, <2>2, <2>3
          DEF ReadyThreads, is_thread_ready, is_thread_timeout_active
<1>7. ASSUME NEW p \in Prios
      PROVE  IsList(k.q[p], {t \in {Main, Idle} : k.prio[t] = p})
  <2>1. CASE p = p0
    <3>1. {t \in {Main, Idle} : k.prio[t] = p} = {Main} /\ k.q[p] = <<Main>>
      BY <1>1, <1>2, <1>3, <2>1
    <3> QED BY <1>2, <3>1, ShortLists
  <2>2. CASE p = NumPreempt
    <3>1. {t \in {Main, Idle} : k.prio[t] = p} = {Idle} /\ k.q[p] = <<Idle>>
      BY <1>1, <1>2, <1>3, <2>2
    <3> QED BY <1>2, <3>1, ShortLists
  <2>3. CASE p # p0 /\ p # NumPreempt
    <3>1. {t \in {Main, Idle} : k.prio[t] = p} = {} /\ k.q[p] = <<>>
      BY <1>1, <1>2, <1>3, <2>3
    <3> QED BY <3>1, ShortLists
  <2> QED BY <2>1, <2>2, <2>3
<1>8. cache_is_next(k)
  <2>1. k.bmap \in SUBSET Prios /\ p0 \in k.bmap /\ \A p \in k.bmap : p0 <= p
    BY <1>1, <1>3
  <2>2. Min(k.bmap) = p0
    <3> HIDE DEF p0
    <3> QED BY <2>1, MinPrioIs
  <2>3. k.q[p0] = <<Main>>
    BY <1>1, <1>3
  <2>4. Head(k.q[Min(k.bmap)]) = Main
    BY <2>2, <2>3
  <2>5. <<Main>> # <<>> /\ <<Idle>> # <<>>
    OBVIOUS
  <2>6. k.bmap = {p \in Prios : k.q[p] # <<>>}
    BY <1>1, <1>3, <2>5
  <2> QED BY <1>1, <2>1, <2>4, <2>6
          DEF cache_is_next, get_ready_q_head, get_highest_ready_prio
<1>9. Good(k)
  BY <1>1, <1>2, <1>5, <1>6, <1>7, <1>8 DEF Good, Holds
<1>10. Live(k) /\ Settled(k)
  BY <1>1, <1>9, CacheSettled
<1> QED BY <1>5, <1>10 DEF IInv, TypeOK, SchedInit

(***************************************************************************)
(* Every step of the scheduler preserves the invariant.                    *)
(***************************************************************************)
LEMMA NextInv == IInv /\ [SchedNext]_schedVars => IInv'
<1> SUFFICES ASSUME IInv, [SchedNext]_schedVars PROVE IInv'
  OBVIOUS
<1>1. CASE ThreadApi
  <2>1. CASE k_yield
    BY <2>1, YieldStays
  <2>2. CASE k_sleep
    BY <2>2, SleepStays
  <2>3. CASE k_sched_lock
    BY <2>3, LockStays
  <2>4. CASE k_sched_unlock
    BY <2>4, UnlockStays
  <2>5. ASSUME NEW t \in Apps,
               \/ k_thread_start(t) \/ k_thread_cancel(t) \/ k_wakeup(t)
               \/ k_thread_suspend(t) \/ resume_not_ready(t)
               \/ k_thread_abort(t)
        PROVE  IInv'
    BY <2>5, ThreadStartStays, CancelStays, WakeupStays, SuspendStays,
       ResumeStays, AbortStays
  <2>6. ASSUME NEW t \in Apps, NEW p \in NewPrios, k_thread_priority_set(t, p)
        PROVE  IInv'
    BY <2>6, PrioritySetStays
  <2>7. ASSUME NEW t \in Apps, NEW p \in NewPrios, NEW d \in StartDelays,
               k_thread_create(t, p, d)
        PROVE  IInv'
    BY <2>7, CreateStays
  <2>8. ASSUME NEW s \in SliceSettings, k_sched_time_slice_set(s) PROVE IInv'
    BY <2>8, SliceSetStays
  <2> QED BY <1>1, <2>1, <2>2, <2>3, <2>4, <2>5, <2>6, <2>7, <2>8 DEF ThreadApi
<1>2. CASE Clock
  BY <1>2, ClockStays
<1>3. CASE Device
  BY <1>3, DeviceStays
<1>4. CASE UNCHANGED schedVars
  BY <1>4 DEF schedVars, IInv, TypeOK
<1> QED BY <1>1, <1>2, <1>3, <1>4 DEF SchedNext

(***************************************************************************)
(* IInv is an invariant of the scheduler.                                  *)
(***************************************************************************)
THEOREM SchedInvariant == SchedSpec => []IInv
<1> QED BY InitInv, NextInv, PTL DEF SchedSpec

(***************************************************************************)
(* Type correctness: in particular the lock depth of no thread drops below *)
(* zero and the cached and the current thread always exist.                *)
(***************************************************************************)
THEOREM TypeCorrect == SchedSpec => []TypeOK
<1>1. IInv => TypeOK
  BY DEF IInv
<1> QED BY <1>1, SchedInvariant, PTL

(***************************************************************************)
(* The ready queue of sched.c holds exactly the ready threads, each once   *)
(* and at its own priority, after any sequence of interrupts and of calls  *)
(* that resume no ready thread (k_thread_resume() does not check, and      *)
(* links a ready thread a second time).                                    *)
(***************************************************************************)
THEOREM ReadyQueueCorrect == SchedSpec => []ReadyQueueExact
<1>1. IInv => ReadyQueueExact
  BY DEF IInv, Live, Good, Holds, IsList, ReadyQueueExact, ready_q_exact
<1> QED BY <1>1, SchedInvariant, PTL

(***************************************************************************)
(* _ready_q.cache is always the next thread to run, and prio_bmap always   *)
(* summarises the queues.                                                  *)
(***************************************************************************)
THEOREM CacheCorrect == SchedSpec => []CacheIsNext
<1>1. IInv => CacheIsNext
  BY DEF IInv, Live, Good, Holds, CacheIsNext
<1> QED BY <1>1, SchedInvariant, PTL

(***************************************************************************)
(* No call and no interrupt return forgets to reschedule: the current      *)
(* thread is ready, and at thread level, if it can be preempted, no ready  *)
(* thread is more urgent.                                                  *)
(***************************************************************************)
THEOREM PreemptionNeverMissed == SchedSpec => []NoMissedPreemption
<1>1. IInv => NoMissedPreemption
  BY DEF IInv, Live, Settled, NoMissedPreemption
<1> QED BY <1>1, SchedInvariant, PTL
=============================================================================
