--------------------------- MODULE TimeoutQProofs ---------------------------
(***************************************************************************)
(* Proofs about the timeout queue, for any number of timeouts of any       *)
(* length.                                                                 *)
(*                                                                         *)
(* The links and the marks agree only because deltas on the queue never    *)
(* become negative (-1 and -2 are marks), and that is so because a timeout *)
(* is inserted where the ticks left are between 1 and the successor's      *)
(* delta.  No timeout is left behind because between the clock interrupts  *)
(* the first delta is positive, which the expiry loop establishes and      *)
(* insertion and removal preserve.                                         *)
(***************************************************************************)
EXTENDS TimeoutQ, ListProofs, FiniteSetTheorems

Queued == {t \in Timeouts : delta[t] >= 0}
Expired == {t \in Timeouts : delta[t] = EXPIRED}

QInv ==
    /\ delta \in [Timeouts -> Int]
    /\ \A t \in Timeouts : delta[t] >= 0 \/ delta[t] \in {INACTIVE, EXPIRED}
    /\ Lists(tq, Queued)
    /\ Lists(Unhandled, Expired)
    /\ expired \in Seq(Timeouts) /\ next \in Timeouts \cup {None}
    /\ clk \in {"off", "expire", "handle"}
    /\ clk = "off" => next = None /\ expired = <<>>
    /\ clk = "expire" => next = None
    /\ clk = "handle" /\ next = None => expired = <<>>
    /\ clk # "expire" => ~ExpireDue

(***************************************************************************)
(* The prefix sums of a list of deltas exist and are what their recursive  *)
(* definition says.                                                        *)
(***************************************************************************)
LEMMA SumsExist ==
    ASSUME NEW T, NEW q \in Seq(T), NEW d \in [T -> Int]
    PROVE  \E f \in [0..Len(q) -> Int] :
              f[0] = 0 /\ \A i \in 1..Len(q) : f[i] = f[i - 1] + d[q[i]]
<1> DEFINE Upto(n) == \E f \in [0..n -> Int] :
                         f[0] = 0 /\ \A i \in 1..n : f[i] = f[i - 1] + d[q[i]]
           S == {n \in 0..Len(q) : Upto(n)}
<1>1. Len(q) \in Nat /\ \A i \in 1..Len(q) : d[q[i]] \in Int
  OBVIOUS
<1>2. 0 \in S
  <2> DEFINE z == [i \in 0..0 |-> 0]
  <2>1. z \in [0..0 -> Int] /\ z[0] = 0 /\ \A i \in 1..0 : FALSE
    OBVIOUS
  <2> HIDE DEF z
  <2>2. Upto(0)
    BY <2>1
  <2> QED BY <1>1, <2>2
<1>3. ASSUME NEW n \in 0..(Len(q) - 1), n \in S PROVE n + 1 \in S
  <2>1. PICK f \in [0..n -> Int] :
               f[0] = 0 /\ \A i \in 1..n : f[i] = f[i - 1] + d[q[i]]
    BY <1>3
  <2> DEFINE g == [i \in 0..(n + 1) |-> IF i = n + 1 THEN f[n] + d[q[n + 1]] ELSE f[i]]
  <2>2. n + 1 \in 1..Len(q) /\ n \in Nat
    BY <1>1
  <2>3. g \in [0..(n + 1) -> Int]
    BY <1>1, <2>2
  <2>4. /\ g[0] = 0 /\ g[n + 1] = f[n] + d[q[n + 1]] /\ g[n] = f[n]
        /\ \A i \in 0..n : g[i] = f[i]
    BY <2>1, <2>2
  <2> HIDE DEF g
  <2>5. ASSUME NEW i \in 1..(n + 1) PROVE g[i] = g[i - 1] + d[q[i]]
    <3>1. CASE i = n + 1
      BY <2>2, <2>4, <3>1
    <3>2. CASE i # n + 1
      <4>1. i \in 1..n /\ i - 1 \in 0..n /\ i \in 0..n
        BY <2>2, <3>2
      <4> QED BY <2>1, <2>4, <4>1
    <3> QED BY <3>1, <3>2
  <2>6. Upto(n + 1)
    BY <2>3, <2>4, <2>5
  <2>7. n + 1 \in 0..Len(q)
    BY <1>1, <2>2
  <2> HIDE DEF Upto
  <2> QED BY <2>6, <2>7
<1>4. \A i \in 0..Len(q) : i \in S
  <2>1. \A n \in 0..(Len(q) - 1) : n \in S => n + 1 \in S
    BY <1>3
  <2> HIDE DEF S
  <2> QED BY <1>1, <1>2, <2>1, UpTo
<1>5. Upto(Len(q))
  <2> HIDE DEF Upto
  <2> QED BY <1>1, <1>4
<1> QED BY <1>5

(***************************************************************************)
(* ... and the recursive function sums() is that list.                     *)
(***************************************************************************)
LEMMA SumsAre ==
    ASSUME NEW T, NEW q \in Seq(T), NEW d \in [T -> Int]
    PROVE  /\ sums(q, d) \in [0..Len(q) -> Int]
           /\ sums(q, d)[0] = 0
           /\ \A i \in 1..Len(q) : sums(q, d)[i] = sums(q, d)[i - 1] + d[q[i]]
<1> DEFINE F == sums(q, d)
<1>0. Len(q) \in Nat /\ \A i \in 1..Len(q) : d[q[i]] \in Int
  OBVIOUS
<1>1. PICK f \in [0..Len(q) -> Int] :
             f[0] = 0 /\ \A i \in 1..Len(q) : f[i] = f[i - 1] + d[q[i]]
  BY SumsExist
<1>2. f = [i \in 0..Len(q) |-> IF i = 0 THEN 0 ELSE f[i - 1] + d[q[i]]]
  <2>1. \A i \in 0..Len(q) : f[i] = IF i = 0 THEN 0 ELSE f[i - 1] + d[q[i]]
    BY <1>0, <1>1
  <2> QED BY <2>1
<1>3. F = CHOOSE s : s = [i \in 0..Len(q) |-> IF i = 0 THEN 0 ELSE s[i - 1] + d[q[i]]]
  BY DEF sums
<1>4. F = [i \in 0..Len(q) |-> IF i = 0 THEN 0 ELSE F[i - 1] + d[q[i]]]
  <2>1. \E s : s = [i \in 0..Len(q) |-> IF i = 0 THEN 0 ELSE s[i - 1] + d[q[i]]]
    BY <1>2
  <2> HIDE DEF F
  <2> QED BY <1>3, <2>1, Zenon
<1> HIDE DEF F
<1>5. /\ F[0] = 0 /\ DOMAIN F = 0..Len(q)
      /\ \A i \in 1..Len(q) : F[i] = F[i - 1] + d[q[i]]
  <2>1. \A i \in 0..Len(q) : F[i] = IF i = 0 THEN 0 ELSE F[i - 1] + d[q[i]]
    BY <1>4
  <2>2. DOMAIN F = 0..Len(q)
    BY <1>4
  <2> QED BY <1>0, <2>1, <2>2
<1>6. \A i \in 0..Len(q) : F[i] \in Int
  <2> DEFINE S == {i \in 0..Len(q) : F[i] \in Int}
  <2>1. 0 \in S
    BY <1>0, <1>5
  <2>2. ASSUME NEW i \in 0..(Len(q) - 1), i \in S PROVE i + 1 \in S
    <3>1. i + 1 \in 1..Len(q) /\ (i + 1) - 1 = i /\ i + 1 \in 0..Len(q)
      BY <1>0
    <3>2. F[i + 1] = F[i] + d[q[i + 1]] /\ d[q[i + 1]] \in Int /\ F[i] \in Int
      BY <1>0, <1>5, <2>2, <3>1
    <3>3. F[i + 1] \in Int
      BY <3>2
    <3> QED BY <3>1, <3>3
  <2>3. \A i \in 0..Len(q) : i \in S
    <3> HIDE DEF S
    <3> QED BY <1>0, <2>1, <2>2, UpTo
  <2> QED BY <2>3
<1>7. F = [i \in 0..Len(q) |-> F[i]]
  BY <1>4
<1> QED BY <1>5, <1>6, <1>7 DEF F

\* what the queue holds, under the invariant
LEMMA QueueFacts ==
    ASSUME QInv
    PROVE  /\ tq \in Seq(Timeouts) /\ Len(tq) \in Nat
           /\ \A i \in 1..Len(tq) : /\ tq[i] \in Timeouts /\ delta[tq[i]] \in Nat
                                    /\ \A j \in 1..Len(tq) : tq[i] = tq[j] => i = j
           /\ \A t \in Timeouts : delta[t] >= 0 => \E i \in 1..Len(tq) : tq[i] = t
<1>1. /\ tq \in Seq(Queued) /\ delta \in [Timeouts -> Int]
      /\ \A i, j \in 1..Len(tq) : tq[i] = tq[j] => i = j
      /\ \A e \in Queued : \E i \in 1..Len(tq) : tq[i] = e
  BY DEF QInv, Lists
<1>2. tq \in Seq(Timeouts) /\ Len(tq) \in Nat /\ \A i \in 1..Len(tq) : tq[i] \in Queued
  BY <1>1 DEF Queued
<1>3. \A i \in 1..Len(tq) : tq[i] \in Timeouts /\ delta[tq[i]] \in Nat
  <2> SUFFICES ASSUME NEW i \in 1..Len(tq)
               PROVE  tq[i] \in Timeouts /\ delta[tq[i]] \in Nat
    OBVIOUS
  <2>1. tq[i] \in Timeouts /\ delta[tq[i]] >= 0
    BY <1>2 DEF Queued
  <2>2. delta[tq[i]] \in Int
    BY <1>1, <2>1
  <2> QED BY <2>1, <2>2
<1>4. ASSUME NEW t \in Timeouts, delta[t] >= 0 PROVE \E i \in 1..Len(tq) : tq[i] = t
  BY <1>1, <1>4 DEF Queued
<1>5. \A i \in 1..Len(tq) : \A j \in 1..Len(tq) : tq[i] = tq[j] => i = j
  BY <1>1
<1> QED BY <1>2, <1>3, <1>4, <1>5

(***************************************************************************)
(* The ticks that the loop of _add_timeout() has left after i steps.       *)
(***************************************************************************)
LEMMA RemainingAre ==
    ASSUME QInv, NEW n \in Int
    PROVE  \A i \in 0..Len(tq) : remaining(n)[i] = n - sums(tq, delta)[i]
<1> DEFINE F == sums(tq, delta)
           R == remaining(n)
           g == [i \in 0..Len(tq) |-> n - F[i]]
           L == Len(tq)
<1>0. L \in Nat /\ \A i \in 1..L : delta[tq[i]] \in Int
  BY QueueFacts
<1>1. /\ \A i \in 0..L : F[i] \in Int
      /\ F[0] = 0 /\ \A i \in 1..L : F[i] = F[i - 1] + delta[tq[i]]
  <2>1. tq \in Seq(Timeouts) /\ delta \in [Timeouts -> Int]
    BY QueueFacts DEF QInv
  <2>2. F \in [0..L -> Int] /\ F[0] = 0 /\ \A i \in 1..L : F[i] = F[i - 1] + delta[tq[i]]
    BY <2>1, SumsAre
  <2> QED BY <2>2
<1> HIDE DEF F
<1>2. \A i \in 0..L : g[i] = IF i = 0 THEN n ELSE g[i - 1] - delta[tq[i]]
  <2> SUFFICES ASSUME NEW i \in 0..L
               PROVE  g[i] = IF i = 0 THEN n ELSE g[i - 1] - delta[tq[i]]
    OBVIOUS
  <2>1. CASE i = 0
    BY <1>0, <1>1, <2>1
  <2>2. CASE i # 0
    <3>1. i \in 1..L /\ i - 1 \in 0..L
      BY <1>0, <2>2
    <3>2. F[i] = F[i - 1] + delta[tq[i]] /\ F[i - 1] \in Int /\ delta[tq[i]] \in Int
      BY <1>0, <1>1, <3>1
    <3>3. n - F[i] = (n - F[i - 1]) - delta[tq[i]]
      BY <3>2
    <3> QED BY <2>2, <3>1, <3>3
  <2> QED BY <2>1, <2>2
<1>3. g = [i \in 0..Len(tq) |-> IF i = 0 THEN n ELSE g[i - 1] - delta[tq[i]]]
  BY <1>2
<1> HIDE DEF g
<1>4. R = CHOOSE r : r = [i \in 0..Len(tq) |-> IF i = 0 THEN n ELSE r[i - 1] - delta[tq[i]]]
  BY DEF remaining
<1>5. R = [i \in 0..Len(tq) |-> IF i = 0 THEN n ELSE R[i - 1] - delta[tq[i]]]
  <2> HIDE DEF R
  <2> QED BY <1>3, <1>4, Zenon
<1> HIDE DEF R
<1>6. \A i \in 0..L : R[i] = IF i = 0 THEN n ELSE R[i - 1] - delta[tq[i]]
  BY <1>5
<1> DEFINE S == {i \in 0..L : R[i] = n - F[i]}
<1>7. 0 \in S
  BY <1>0, <1>1, <1>6
<1>8. \A i \in 0..(L - 1) : i \in S => i + 1 \in S
  <2> SUFFICES ASSUME NEW i \in 0..(L - 1), i \in S PROVE i + 1 \in S
    OBVIOUS
  <2>1. i + 1 \in 1..L /\ i + 1 \in 0..L /\ i + 1 # 0 /\ (i + 1) - 1 = i /\ i \in 0..L
    BY <1>0
  <2>2. /\ R[i + 1] = R[i] - delta[tq[i + 1]] /\ F[i + 1] = F[i] + delta[tq[i + 1]]
        /\ delta[tq[i + 1]] \in Int /\ F[i] \in Int /\ R[i] = n - F[i]
    BY <1>0, <1>1, <1>6, <2>1
  <2>3. R[i + 1] = n - F[i + 1]
    BY <2>2
  <2> QED BY <2>1, <2>3
<1>9. \A i \in 0..L : i \in S
  <2> HIDE DEF S, L
  <2> QED BY <1>0, <1>7, <1>8, UpTo
<1> QED BY <1>9 DEF R, F

(***************************************************************************)
(* _add_timeout() links the timeout at a position p where r ticks are      *)
(* left, r > 0 and no more than the successor's delta, which r is then     *)
(* taken from.                                                             *)
(***************************************************************************)
Added(t, n, p, r) ==
    /\ t \in Timeouts /\ delta[t] = INACTIVE
    /\ p \in 1..(Len(tq) + 1) /\ r \in Nat /\ r > 0
    /\ r = n - sums(tq, delta)[p - 1]
    /\ p = 1 => r = n
    /\ tq' = InsertAt(tq, p, t)
    /\ delta' \in [Timeouts -> Int] /\ delta'[t] = r
    /\ p <= Len(tq) => /\ delta'[tq[p]] = delta[tq[p]] - r /\ r <= delta[tq[p]]
                       /\ tq[p] \in Timeouts /\ tq[p] # t
    /\ \A u \in Timeouts : u # t /\ (p <= Len(tq) => u # tq[p]) => delta'[u] = delta[u]
    /\ order' = Append(order, t)
    /\ outcome' = [outcome EXCEPT ![t] = "none"]
    /\ clk' = clk /\ expired' = expired /\ next' = next

\* _add_timeout() links the timeout at such a place
LEMMA AddEffect ==
    ASSUME QInv, NEW t \in Timeouts, NEW n \in 1..MaxTicks, add_timeout(t, n)
    PROVE  \E p \in 1..(Len(tq) + 1), r \in Nat : Added(t, n, p, r)
<1> DEFINE F == sums(tq, delta)
           R == remaining(n)
           before == {i \in 1..Len(tq) : R[i - 1] <= delta[tq[i]]}
           p == IF before = {} THEN Len(tq) + 1 ELSE Min(before)
           r == R[p - 1]
<1>1. /\ delta[t] = INACTIVE
      /\ tq' = InsertAt(tq, p, t)
      /\ delta' = [u \in Timeouts |-> IF u = t THEN r
                                      ELSE IF p <= Len(tq) /\ u = tq[p]
                                           THEN delta[u] - r
                                      ELSE delta[u]]
      /\ order' = Append(order, t)
      /\ outcome' = [outcome EXCEPT ![t] = "none"]
      /\ clk' = clk /\ expired' = expired /\ next' = next
  BY DEF add_timeout
<1>2. /\ Len(tq) \in Nat /\ n \in Nat /\ n > 0
      /\ \A i \in 1..Len(tq) : tq[i] \in Timeouts /\ delta[tq[i]] \in Nat
      /\ delta \in [Timeouts -> Int]
  BY QueueFacts, TimeoutQAssumption DEF QInv
<1>3. \A i \in 0..Len(tq) : R[i] = n - F[i] /\ R[i] \in Int
  <2>1. \A i \in 0..Len(tq) : R[i] = n - F[i]
    BY <1>2, RemainingAre
  <2>2. F \in [0..Len(tq) -> Int]
    BY QueueFacts, SumsAre DEF QInv
  <2> HIDE DEF R, F
  <2>3. ASSUME NEW i \in 0..Len(tq) PROVE R[i] = n - F[i] /\ R[i] \in Int
    <3>1. F[i] \in Int
      BY ONLY <2>2, <2>3
    <3>2. R[i] = n - F[i]
      BY ONLY <2>1, <2>3
    <3>3. n - F[i] \in Int
      BY ONLY <1>2, <3>1
    <3> QED BY ONLY <3>2, <3>3
  <2> QED BY ONLY <2>3
<1>4. R[0] = n /\ \A i \in 1..Len(tq) : R[i] = R[i - 1] - delta[tq[i]]
  <2>1. F[0] = 0 /\ F \in [0..Len(tq) -> Int]
        /\ \A i \in 1..Len(tq) : F[i] = F[i - 1] + delta[tq[i]]
    BY QueueFacts, SumsAre DEF QInv
  <2> HIDE DEF R, F
  <2>2. R[0] = n
    BY <1>2, <1>3, <2>1
  <2>3. ASSUME NEW i \in 1..Len(tq) PROVE R[i] = R[i - 1] - delta[tq[i]]
    <3>1. i \in 0..Len(tq) /\ i - 1 \in 0..Len(tq)
      BY <1>2
    <3>2. /\ R[i] = n - F[i] /\ R[i - 1] = n - F[i - 1] /\ F[i] = F[i - 1] + delta[tq[i]]
          /\ F[i - 1] \in Int /\ F[i] \in Int /\ delta[tq[i]] \in Int
      BY <1>2, <1>3, <2>1, <3>1
    <3> QED BY <1>2, <3>2
  <2> QED BY <2>2, <2>3
<1> HIDE DEF R, F
<1>5. /\ p \in 1..(Len(tq) + 1)
      /\ p <= Len(tq) => r <= delta[tq[p]]
      /\ \A i \in 1..Len(tq) : i < p => ~(R[i - 1] <= delta[tq[i]])
  <2>1. before \in SUBSET Nat
    OBVIOUS
  <2>2. CASE before = {}
    <3>1. p = Len(tq) + 1
      BY <2>2
    <3>2. \A i \in 1..Len(tq) : ~(R[i - 1] <= delta[tq[i]])
      BY <2>2
    <3> HIDE DEF p, before, r
    <3> QED BY ONLY <1>2, <3>1, <3>2
  <2>3. CASE before # {}
    <3>1. p = Min(before)
      BY <2>3
    <3> DEFINE bf == before
    <3>2. bf \in SUBSET Nat /\ bf # {}
      BY <2>1, <2>3
    <3> HIDE DEF bf
    <3>3. Min(bf) \in bf /\ \A i \in bf : Min(bf) <= i
      BY <3>2, MinNat
    <3>4. p \in before /\ \A i \in before : p <= i
      BY <3>1, <3>3 DEF bf
    <3> HIDE DEF p
    <3>5. p \in 1..Len(tq) /\ R[p - 1] <= delta[tq[p]]
      BY <3>4
    <3>6. \A i \in 1..Len(tq) : i < p => i \notin before
      BY <1>2, <3>4, <3>5
    <3> QED BY <1>2, <3>5, <3>6
  <2> QED BY <2>2, <2>3
<1> HIDE DEF before, p
<1>6. r \in Int /\ r > 0 /\ (p = 1 => r = n)
  <2>1. CASE p = 1
    BY <1>2, <1>4, <2>1
  <2>2. CASE p # 1
    <3>1. p - 1 \in 1..Len(tq) /\ p - 1 < p /\ (p - 1) - 1 \in 0..Len(tq) /\ p - 1 \in 0..Len(tq)
      BY <1>2, <1>5, <2>2
    <3>2. ~(R[(p - 1) - 1] <= delta[tq[p - 1]])
      BY <1>5, <3>1
    <3>3. r = R[(p - 1) - 1] - delta[tq[p - 1]]
      BY <1>4, <3>1
    <3>4. R[(p - 1) - 1] \in Int /\ delta[tq[p - 1]] \in Int /\ r \in Int
      BY <1>2, <1>3, <3>1
    <3> QED BY <2>2, <3>2, <3>3, <3>4
  <2> QED BY <2>1, <2>2
<1>7. r \in Nat /\ r = n - F[p - 1]
  <2>1. p - 1 \in 0..Len(tq)
    BY <1>2, <1>5
  <2> QED BY <1>3, <1>6, <2>1
<1> HIDE DEF r
<1>8. /\ delta' \in [Timeouts -> Int] /\ delta'[t] = r
      /\ \A u \in Timeouts : u # t /\ (p <= Len(tq) => u # tq[p]) => delta'[u] = delta[u]
  BY <1>1, <1>2, <1>7
<1>9. ASSUME p <= Len(tq)
      PROVE  /\ delta'[tq[p]] = delta[tq[p]] - r /\ r <= delta[tq[p]]
             /\ tq[p] \in Timeouts /\ tq[p] # t
  <2>1. p \in 1..Len(tq)
    BY <1>2, <1>5, <1>9
  <2>2. tq[p] \in Timeouts /\ tq[p] # t
    BY <1>1, <1>2, <2>1 DEF INACTIVE
  <2>3. delta'[tq[p]] = delta[tq[p]] - r
    BY <1>1, <1>9, <2>2
  <2> QED BY <1>5, <1>9, <2>2, <2>3 DEF r
<1> QED BY <1>1, <1>5, <1>6, <1>7, <1>8, <1>9 DEF Added, F

(***************************************************************************)
(* _abort_timeout() unlinks the timeout from its position p and gives its  *)
(* ticks to its successor.                                                 *)
(***************************************************************************)
Aborted(t, p) ==
    /\ t \in Timeouts /\ delta[t] \in Nat
    /\ p \in 1..Len(tq) /\ tq[p] = t
    /\ tq' = RemoveAt(tq, p)
    /\ delta' \in [Timeouts -> Int] /\ delta'[t] = INACTIVE
    /\ p < Len(tq) => /\ delta'[tq[p + 1]] = delta[tq[p + 1]] + delta[t]
                      /\ tq[p + 1] \in Timeouts /\ tq[p + 1] # t
    /\ \A u \in Timeouts : u # t /\ (p < Len(tq) => u # tq[p + 1]) => delta'[u] = delta[u]
    /\ order' = RemoveFirst(order, t)
    /\ outcome' = [outcome EXCEPT ![t] = "aborted"]
    /\ clk' = clk /\ expired' = expired /\ next' = next

\* _abort_timeout() unlinks the timeout from its place
LEMMA AbortEffect ==
    ASSUME QInv, NEW t \in Timeouts, abort_timeout(t)
    PROVE  \E p \in 1..Len(tq) : Aborted(t, p)
<1> DEFINE p == CHOOSE i \in 1..Len(tq) : tq[i] = t
<1>1. /\ delta[t] >= 0
      /\ delta' = [u \in Timeouts |-> IF u = t THEN INACTIVE
                                      ELSE IF p < Len(tq) /\ u = tq[p + 1]
                                           THEN delta[u] + delta[t]
                                      ELSE delta[u]]
      /\ tq' = RemoveAt(tq, p)
      /\ order' = RemoveFirst(order, t)
      /\ outcome' = [outcome EXCEPT ![t] = "aborted"]
      /\ clk' = clk /\ expired' = expired /\ next' = next
  BY DEF abort_timeout
<1>2. /\ Len(tq) \in Nat /\ delta \in [Timeouts -> Int]
      /\ \A i \in 1..Len(tq) : tq[i] \in Timeouts /\ delta[tq[i]] \in Nat
      /\ \A i, j \in 1..Len(tq) : tq[i] = tq[j] => i = j
  BY QueueFacts DEF QInv
<1>3. p \in 1..Len(tq) /\ tq[p] = t
  <2>1. \E i \in 1..Len(tq) : tq[i] = t
    BY <1>1, QueueFacts
  <2> QED BY <2>1
<1> HIDE DEF p
<1>4. delta[t] \in Nat
  BY <1>2, <1>3
<1>5. /\ delta' \in [Timeouts -> Int] /\ delta'[t] = INACTIVE
      /\ \A u \in Timeouts : u # t /\ (p < Len(tq) => u # tq[p + 1]) => delta'[u] = delta[u]
  BY <1>1, <1>2, <1>4 DEF INACTIVE
<1>6. ASSUME p < Len(tq)
      PROVE  /\ delta'[tq[p + 1]] = delta[tq[p + 1]] + delta[t]
             /\ tq[p + 1] \in Timeouts /\ tq[p + 1] # t
  <2>1. p + 1 \in 1..Len(tq) /\ p + 1 # p
    BY <1>2, <1>3, <1>6
  <2>2. tq[p + 1] \in Timeouts /\ tq[p + 1] # t
    BY <1>2, <1>3, <2>1
  <2> QED BY <1>1, <1>6, <2>2
<1> QED BY <1>1, <1>3, <1>4, <1>5, <1>6 DEF Aborted

(***************************************************************************)
(* Every operation keeps the queue as its marks say.                       *)
(***************************************************************************)
LEMMA QAdd ==
    ASSUME QInv, NEW t \in Timeouts, NEW n \in 1..MaxTicks, add_timeout(t, n)
    PROVE  QInv'
<1>1. PICK p \in 1..(Len(tq) + 1), r \in Nat : Added(t, n, p, r)
  BY AddEffect
<1>2. /\ delta[t] = INACTIVE /\ r > 0
      /\ tq' = InsertAt(tq, p, t)
      /\ delta' \in [Timeouts -> Int] /\ delta'[t] = r
      /\ p <= Len(tq) => /\ delta'[tq[p]] = delta[tq[p]] - r /\ r <= delta[tq[p]]
                         /\ tq[p] \in Timeouts /\ tq[p] # t
      /\ \A u \in Timeouts : u # t /\ (p <= Len(tq) => u # tq[p]) => delta'[u] = delta[u]
      /\ clk' = clk /\ expired' = expired /\ next' = next
  BY <1>1 DEF Added
<1>3. /\ Len(tq) \in Nat /\ delta \in [Timeouts -> Int] /\ tq \in Seq(Timeouts)
      /\ \A i \in 1..Len(tq) : tq[i] \in Timeouts /\ delta[tq[i]] \in Nat
      /\ \A i, j \in 1..Len(tq) : tq[i] = tq[j] => i = j
  BY QueueFacts DEF QInv
<1>4. \A u \in Timeouts : \/ u = t /\ delta'[u] = r
                          \/ u # t /\ delta'[u] = delta[u]
                          \/ u # t /\ delta[u] \in Nat /\ delta'[u] \in Nat
  <2> SUFFICES ASSUME NEW u \in Timeouts, u # t, delta'[u] # delta[u]
               PROVE  delta[u] \in Nat /\ delta'[u] \in Nat
    BY <1>2
  <2>1. p <= Len(tq) /\ u = tq[p]
    BY <1>2
  <2>2. p \in 1..Len(tq)
    BY <1>3, <2>1
  <2>3. delta[u] \in Nat
    BY <1>3, <2>1, <2>2
  <2> QED BY <1>2, <2>1, <2>3
<1>5. Queued' = Queued \cup {t} /\ t \notin Queued /\ Expired' = Expired
  <2>1. \A u \in Timeouts : delta'[u] >= 0 <=> (delta[u] >= 0 \/ u = t)
    BY <1>2, <1>4
  <2>2. \A u \in Timeouts : delta'[u] = EXPIRED <=> delta[u] = EXPIRED
    BY <1>2, <1>4 DEF EXPIRED, INACTIVE
  <2> QED BY <1>2, <2>1, <2>2 DEF Queued, Expired, INACTIVE
<1>6. Lists(tq', Queued')
  <2> DEFINE S == Queued
  <2>1. Lists(tq, S) /\ t \notin S
    BY <1>5 DEF QInv
  <2> HIDE DEF S
  <2>2. Lists(InsertAt(tq, p, t), S \cup {t})
    BY <2>1, ListsInsert
  <2> QED BY <1>2, <1>5, <2>2 DEF S
<1>7. Unhandled' = Unhandled
  BY <1>2 DEF Unhandled
<1>8. ASSUME clk' # "expire" PROVE ~ExpireDue'
  <2>1. tq = <<>> \/ delta[tq[1]] # 0
    BY <1>2, <1>8 DEF QInv, ExpireDue
  <2>2. \A j \in 1..(Len(tq) + 1) : tq'[j] = IF j < p THEN tq[j] ELSE IF j = p THEN t ELSE tq[j - 1]
    <3>1. \A j \in 1..(Len(tq) + 1) :
             InsertAt(tq, p, t)[j]
                = IF j < p THEN tq[j] ELSE IF j = p THEN t ELSE tq[j - 1]
      BY <1>3, InsertAtProps
    <3>2. tq' = InsertAt(tq, p, t)
      BY <1>2
    <3> QED BY <3>1, <3>2
  <2>3. CASE p = 1
    <3>1. tq'[1] = t
      BY <1>3, <2>2, <2>3
    <3> QED BY <1>2, <3>1 DEF ExpireDue
  <2>4. CASE p # 1
    <3>1. 1 \in 1..Len(tq) /\ 1 < p /\ 1 \in 1..(Len(tq) + 1)
      BY <1>3, <2>4
    <3>2. tq'[1] = tq[1] /\ tq[1] \in Timeouts /\ delta[tq[1]] \in Nat
      BY <1>3, <2>2, <3>1
    <3>3. tq # <<>> /\ tq[1] # t
      BY <1>2, <3>1, <3>2 DEF INACTIVE
    <3>4. p <= Len(tq) => tq[1] # tq[p]
      BY <1>3, <3>1
    <3>5. delta'[tq[1]] = delta[tq[1]]
      BY <1>2, <3>2, <3>3, <3>4
    <3> QED BY <2>1, <3>2, <3>3, <3>5 DEF ExpireDue
  <2> QED BY <2>3, <2>4
<1>9. \A u \in Timeouts : delta'[u] >= 0 \/ delta'[u] \in {INACTIVE, EXPIRED}
  <2>1. \A u \in Timeouts : delta[u] >= 0 \/ delta[u] \in {INACTIVE, EXPIRED}
    BY DEF QInv
  <2> QED BY <1>4, <2>1
<1>10. Lists(Unhandled', Expired')
  BY <1>5, <1>7 DEF QInv
<1> QED BY <1>2, <1>6, <1>8, <1>9, <1>10 DEF QInv

\* _abort_timeout() keeps the invariant
LEMMA QAbort ==
    ASSUME QInv, NEW t \in Timeouts, abort_timeout(t)
    PROVE  QInv'
<1>1. PICK p \in 1..Len(tq) : Aborted(t, p)
  BY AbortEffect
<1>2. /\ delta[t] \in Nat /\ tq[p] = t
      /\ tq' = RemoveAt(tq, p)
      /\ delta' \in [Timeouts -> Int] /\ delta'[t] = INACTIVE
      /\ p < Len(tq) => /\ delta'[tq[p + 1]] = delta[tq[p + 1]] + delta[t]
                        /\ tq[p + 1] \in Timeouts /\ tq[p + 1] # t
      /\ \A u \in Timeouts : u # t /\ (p < Len(tq) => u # tq[p + 1]) => delta'[u] = delta[u]
      /\ clk' = clk /\ expired' = expired /\ next' = next
  BY <1>1 DEF Aborted
<1>3. /\ Len(tq) \in Nat /\ delta \in [Timeouts -> Int] /\ tq \in Seq(Timeouts)
      /\ \A i \in 1..Len(tq) : tq[i] \in Timeouts /\ delta[tq[i]] \in Nat
      /\ \A i, j \in 1..Len(tq) : tq[i] = tq[j] => i = j
  BY QueueFacts DEF QInv
<1>4. \A u \in Timeouts : \/ u = t /\ delta'[u] = INACTIVE
                          \/ u # t /\ delta'[u] = delta[u]
                          \/ u # t /\ delta[u] \in Nat /\ delta'[u] \in Nat
  <2> SUFFICES ASSUME NEW u \in Timeouts, u # t, delta'[u] # delta[u]
               PROVE  delta[u] \in Nat /\ delta'[u] \in Nat
    BY <1>2
  <2>1. p < Len(tq) /\ u = tq[p + 1]
    BY <1>2
  <2>2. p + 1 \in 1..Len(tq)
    BY <1>3, <2>1
  <2>3. delta[u] \in Nat
    BY <1>3, <2>1, <2>2
  <2> QED BY <1>2, <2>1, <2>3
<1>5. Queued' = Queued \ {t} /\ Expired' = Expired
  <2>1. \A u \in Timeouts : delta'[u] >= 0 <=> (delta[u] >= 0 /\ u # t)
    BY <1>2, <1>4 DEF INACTIVE
  <2>2. \A u \in Timeouts : delta'[u] = EXPIRED <=> delta[u] = EXPIRED
    BY <1>2, <1>4 DEF EXPIRED, INACTIVE
  <2> QED BY <2>1, <2>2 DEF Queued, Expired
<1>6. Lists(tq', Queued')
  <2> DEFINE S == Queued
  <2>1. Lists(tq, S)
    BY DEF QInv
  <2> HIDE DEF S
  <2>2. Lists(RemoveAt(tq, p), S \ {tq[p]})
    BY <2>1, ListsRemoveAt
  <2> QED BY <1>2, <1>5, <2>2 DEF S
<1>7. Unhandled' = Unhandled
  BY <1>2 DEF Unhandled
<1>8. ASSUME clk' # "expire" PROVE ~ExpireDue'
  <2>1. tq # <<>> /\ delta[tq[1]] # 0 /\ delta[tq[1]] \in Nat /\ tq[1] \in Timeouts
    <3>1. tq # <<>> /\ 1 \in 1..Len(tq)
      BY <1>3
    <3> QED BY <1>2, <1>3, <1>8, <3>1 DEF QInv, ExpireDue
  <2>2. /\ Len(tq') = Len(tq) - 1
        /\ \A j \in 1..(Len(tq) - 1) : tq'[j] = IF j < p THEN tq[j] ELSE tq[j + 1]
    <3>1. /\ Len(RemoveAt(tq, p)) = Len(tq) - 1
          /\ \A j \in 1..(Len(tq) - 1) :
                RemoveAt(tq, p)[j] = IF j < p THEN tq[j] ELSE tq[j + 1]
      BY <1>3, RemoveAtProps
    <3>2. tq' = RemoveAt(tq, p)
      BY <1>2
    <3> QED BY <3>1, <3>2
  <2> SUFFICES ASSUME tq' # <<>> PROVE delta'[tq'[1]] # 0
    BY DEF ExpireDue
  <2>3. 1 \in 1..(Len(tq) - 1)
    <3>1. tq' \in Seq(Queued')
      BY <1>6 DEF Lists
    <3> QED BY <1>3, <2>2, <3>1
  <2>4. CASE p = 1
    <3>1. tq'[1] = tq[2] /\ p < Len(tq) /\ 2 \in 1..Len(tq) /\ p + 1 = 2
      BY <1>3, <2>2, <2>3, <2>4
    <3>2. delta'[tq[2]] = delta[tq[2]] + delta[tq[1]] /\ delta[tq[2]] \in Nat
      BY <1>2, <1>3, <2>4, <3>1
    <3> QED BY <2>1, <3>1, <3>2
  <2>5. CASE p # 1
    <3>1. tq'[1] = tq[1] /\ 1 < p /\ 1 \in 1..Len(tq)
      BY <1>3, <2>2, <2>3, <2>5
    <3>2. p < Len(tq) => p + 1 \in 1..Len(tq) /\ p + 1 # 1
      BY <1>3
    <3>3. tq[1] # t /\ (p < Len(tq) => tq[1] # tq[p + 1])
      BY <1>2, <1>3, <3>1, <3>2
    <3>4. delta'[tq[1]] = delta[tq[1]]
      BY <1>2, <2>1, <3>3
    <3> QED BY <2>1, <3>1, <3>4
  <2> QED BY <2>4, <2>5
<1>9. \A u \in Timeouts : delta'[u] >= 0 \/ delta'[u] \in {INACTIVE, EXPIRED}
  <2>1. \A u \in Timeouts : delta[u] >= 0 \/ delta[u] \in {INACTIVE, EXPIRED}
    BY DEF QInv
  <2> QED BY <1>4, <2>1
<1>10. Lists(Unhandled', Expired')
  BY <1>5, <1>7 DEF QInv
<1> QED BY <1>2, <1>6, <1>8, <1>9, <1>10 DEF QInv

\* _nano_sys_clock_tick_announce() takes the ticks off the first timeout
LEMMA QAnnounce ==
    ASSUME QInv, NEW n \in 1..MaxTicks, announce(n)
    PROVE  QInv'
<1>1. /\ clk = "off" /\ tq # <<>> /\ n <= delta[tq[1]]
      /\ delta' = [delta EXCEPT ![tq[1]] = @ - n]
      /\ clk' = "expire" /\ tq' = tq /\ expired' = expired /\ next' = next
  BY DEF announce
<1>2. /\ delta \in [Timeouts -> Int] /\ n \in Nat
      /\ tq[1] \in Timeouts /\ delta[tq[1]] \in Nat
  <2>1. tq \in Seq(Timeouts) /\ delta \in [Timeouts -> Int]
        /\ \A i \in 1..Len(tq) : tq[i] \in Timeouts /\ delta[tq[i]] \in Nat
    BY QueueFacts DEF QInv
  <2>2. 1 \in 1..Len(tq)
    BY <1>1, <2>1
  <2> QED BY <2>1, <2>2, TimeoutQAssumption
<1>3. /\ delta' \in [Timeouts -> Int] /\ delta'[tq[1]] = delta[tq[1]] - n
      /\ \A u \in Timeouts : u # tq[1] => delta'[u] = delta[u]
  BY <1>1, <1>2
<1>4. \A u \in Timeouts : \/ delta'[u] = delta[u]
                          \/ delta[u] \in Nat /\ delta'[u] \in Nat
  BY <1>1, <1>2, <1>3
<1>5. Queued' = Queued /\ Expired' = Expired
  <2>1. \A u \in Timeouts : delta'[u] >= 0 <=> delta[u] >= 0
    BY <1>4
  <2>2. \A u \in Timeouts : delta'[u] = EXPIRED <=> delta[u] = EXPIRED
    BY <1>4 DEF EXPIRED
  <2> QED BY <2>1, <2>2 DEF Queued, Expired
<1>6. Unhandled' = Unhandled
  BY <1>1 DEF Unhandled
<1>7. \A u \in Timeouts : delta'[u] >= 0 \/ delta'[u] \in {INACTIVE, EXPIRED}
  <2>1. \A u \in Timeouts : delta[u] >= 0 \/ delta[u] \in {INACTIVE, EXPIRED}
    BY DEF QInv
  <2> QED BY <1>4, <2>1
<1>8. Lists(Unhandled', Expired') /\ Lists(tq', Queued')
  BY <1>1, <1>5, <1>6 DEF QInv
<1> QED BY <1>1, <1>3, <1>7, <1>8 DEF QInv

\* a timeout that is due moves to the list of expired ones
LEMMA QExpireOne ==
    ASSUME QInv, expire_one
    PROVE  QInv'
<1>1. /\ clk = "expire" /\ tq # <<>> /\ delta[tq[1]] = 0
      /\ tq' = Tail(tq) /\ expired' = <<tq[1]>> \o expired
      /\ delta' = [delta EXCEPT ![tq[1]] = EXPIRED]
      /\ clk' = clk /\ next' = next
  BY DEF expire_one, ExpireDue
<1>2. delta \in [Timeouts -> Int] /\ tq[1] \in Timeouts
  <2>1. tq \in Seq(Timeouts) /\ delta \in [Timeouts -> Int]
    BY QueueFacts DEF QInv
  <2> QED BY <1>1, <2>1
<1>3. /\ delta' \in [Timeouts -> Int] /\ delta'[tq[1]] = EXPIRED
      /\ \A u \in Timeouts : u # tq[1] => delta'[u] = delta[u]
  BY <1>1, <1>2 DEF EXPIRED
<1>4. next = None /\ Unhandled = expired /\ Unhandled' = expired'
  BY <1>1 DEF QInv, Unhandled
<1>5. /\ Queued' = Queued \ {tq[1]} /\ Expired' = Expired \cup {tq[1]}
      /\ tq[1] \notin Expired
  <2>1. \A u \in Timeouts : delta'[u] >= 0 <=> (delta[u] >= 0 /\ u # tq[1])
    BY <1>2, <1>3 DEF EXPIRED
  <2>2. \A u \in Timeouts : delta'[u] = EXPIRED <=> (delta[u] = EXPIRED \/ u = tq[1])
    BY <1>2, <1>3 DEF EXPIRED
  <2>3. \A u : u \in Queued' <=> (u \in Queued /\ u # tq[1])
    BY <2>1 DEF Queued
  <2>4. \A u : u \in Expired' <=> (u \in Expired \/ u = tq[1])
    BY <1>2, <2>2 DEF Expired
  <2>5. tq[1] \notin Expired
    BY <1>1 DEF Expired, EXPIRED
  <2> QED BY <2>3, <2>4, <2>5
<1>6. Lists(tq', Queued')
  <2> DEFINE S == Queued
  <2>1. Lists(tq, S)
    BY DEF QInv
  <2> HIDE DEF S
  <2>2. Lists(Tail(tq), S \ {tq[1]})
    BY <1>1, <2>1, ListsEnds
  <2> QED BY <1>1, <1>5, <2>2 DEF S
<1>7. Lists(Unhandled', Expired')
  <2> DEFINE S == Expired
             e == tq[1]
  <2>1. Lists(expired, S) /\ e \notin S
    BY <1>4, <1>5 DEF QInv
  <2> HIDE DEF S, e
  <2>2. Lists(<<e>> \o expired, S \cup {e})
    BY <2>1, ListsEnds
  <2> QED BY <1>1, <1>4, <1>5, <2>2 DEF S, e
<1>8. expired' \in Seq(Timeouts)
  <2>1. expired \in Seq(Timeouts)
    BY DEF QInv
  <2> QED BY <1>1, <1>2, <2>1
<1>9. \A u \in Timeouts : delta'[u] >= 0 \/ delta'[u] \in {INACTIVE, EXPIRED}
  <2>1. \A u \in Timeouts : delta[u] >= 0 \/ delta[u] \in {INACTIVE, EXPIRED}
    BY DEF QInv
  <2> QED BY <1>3, <2>1
<1> QED BY <1>1, <1>3, <1>4, <1>6, <1>7, <1>8, <1>9, Zenon DEF QInv

(***************************************************************************)
(* The loop over the expired list takes the list's head in hand: what it   *)
(* has to handle is still the list.                                        *)
(***************************************************************************)
LEMMA TakeNext ==
    ASSUME expired \in Seq(Timeouts),
           next' = IF expired = <<>> THEN None ELSE expired[1],
           expired' = IF expired = <<>> THEN expired ELSE Tail(expired)
    PROVE  /\ Unhandled' = expired
           /\ expired' \in Seq(Timeouts) /\ next' \in Timeouts \cup {None}
           /\ next' = None => expired' = <<>>
<1>1. CASE expired = <<>>
  BY <1>1 DEF Unhandled
<1>2. CASE expired # <<>>
  <2>1. next' = expired[1] /\ expired' = Tail(expired)
    BY <1>2
  <2>2. expired[1] \in Timeouts /\ Tail(expired) \in Seq(Timeouts)
    BY <1>2
  <2>3. next' # None
    BY <2>1, <2>2, TimeoutQAssumption
  <2>4. Unhandled' = <<expired[1]>> \o Tail(expired)
    BY <2>1, <2>3 DEF Unhandled
  <2>5. <<expired[1]>> \o Tail(expired) = expired
    BY <1>2
  <2> QED BY <2>1, <2>2, <2>3, <2>4, <2>5
<1> QED BY <1>1, <1>2

\* and when none is left their handling starts
LEMMA QExpireDone ==
    ASSUME QInv, expire_done
    PROVE  QInv' /\ Unhandled' = Unhandled
<1>1. /\ clk = "expire" /\ ~ExpireDue /\ clk' = "handle"
      /\ next' = IF expired = <<>> THEN None ELSE expired[1]
      /\ expired' = IF expired = <<>> THEN expired ELSE Tail(expired)
      /\ tq' = tq /\ delta' = delta
  BY DEF expire_done
<1>2. /\ Unhandled' = expired
      /\ expired' \in Seq(Timeouts) /\ next' \in Timeouts \cup {None}
      /\ next' = None => expired' = <<>>
  <2>1. expired \in Seq(Timeouts)
    BY DEF QInv
  <2> QED BY <1>1, <2>1, TakeNext
<1>3. Unhandled = expired
  BY <1>1 DEF QInv, Unhandled
<1>4. Queued' = Queued /\ Expired' = Expired /\ ~ExpireDue'
  BY <1>1 DEF Queued, Expired, ExpireDue
<1>5. Lists(Unhandled', Expired') /\ Lists(tq', Queued')
  BY <1>1, <1>2, <1>3, <1>4 DEF QInv
<1>6. /\ delta' \in [Timeouts -> Int]
      /\ \A u \in Timeouts : delta'[u] >= 0 \/ delta'[u] \in {INACTIVE, EXPIRED}
  BY <1>1 DEF QInv
<1> QED BY <1>1, <1>2, <1>3, <1>4, <1>5, <1>6 DEF QInv

\* an expired timeout is handled, the one saved in next before it
LEMMA QHandleOne ==
    ASSUME QInv, handle_one
    PROVE  /\ QInv' /\ next \in Timeouts /\ delta[next] = EXPIRED
           /\ Unhandled = <<next>> \o expired /\ Unhandled' = expired
<1>1. /\ clk = "handle" /\ next # None /\ clk' = clk
      /\ delta' = [delta EXCEPT ![next] = INACTIVE]
      /\ next' = IF expired = <<>> THEN None ELSE expired[1]
      /\ expired' = IF expired = <<>> THEN expired ELSE Tail(expired)
      /\ tq' = tq
  BY DEF handle_one
<1>2. /\ Unhandled' = expired
      /\ expired' \in Seq(Timeouts) /\ next' \in Timeouts \cup {None}
      /\ next' = None => expired' = <<>>
  <2>1. expired \in Seq(Timeouts)
    BY DEF QInv
  <2> QED BY <1>1, <2>1, TakeNext
<1>3. Unhandled = <<next>> \o expired /\ next \in Timeouts /\ expired \in Seq(Timeouts)
      /\ delta \in [Timeouts -> Int]
  BY <1>1 DEF QInv, Unhandled
<1>4. Unhandled # <<>> /\ Unhandled[1] = next /\ Tail(Unhandled) = expired
  BY <1>3
<1>5. Lists(Unhandled, Expired)
  BY DEF QInv
<1>6. delta[next] = EXPIRED
  <2>1. next \in Expired
    <3>1. Unhandled \in Seq(Expired)
      BY <1>5 DEF Lists
    <3>2. Unhandled[1] \in Expired
      BY <1>4, <3>1
    <3> QED BY <1>4, <3>2
  <2> QED BY <2>1 DEF Expired
<1>7. /\ delta' \in [Timeouts -> Int] /\ delta'[next] = INACTIVE
      /\ \A u \in Timeouts : u # next => delta'[u] = delta[u]
  BY <1>1, <1>3 DEF INACTIVE
<1>8. Queued' = Queued /\ Expired' = Expired \ {next}
  <2>1. \A u \in Timeouts : delta'[u] >= 0 <=> delta[u] >= 0
    BY <1>6, <1>7 DEF INACTIVE, EXPIRED
  <2>2. \A u \in Timeouts : delta'[u] = EXPIRED <=> (delta[u] = EXPIRED /\ u # next)
    BY <1>6, <1>7 DEF INACTIVE, EXPIRED
  <2> QED BY <2>1, <2>2 DEF Queued, Expired
<1>9. Lists(Unhandled', Expired')
  <2> DEFINE S == Expired
             h == Unhandled
  <2>1. Lists(h, S) /\ h # <<>>
    BY <1>4, <1>5
  <2>2. h[1] = next /\ Tail(h) = expired
    BY <1>4
  <2> HIDE DEF S, h
  <2>3. Lists(Tail(h), S \ {h[1]})
    BY <2>1, ListsEnds
  <2> QED BY <1>2, <1>8, <2>2, <2>3 DEF S
<1>10. Lists(tq', Queued')
  BY <1>1, <1>8 DEF QInv
<1>11. ~ExpireDue'
  <2>1. ~ExpireDue
    BY <1>1 DEF QInv
  <2>2. tq # <<>> => tq[1] \in Timeouts /\ delta[tq[1]] \in Nat
    <3>1. tq \in Seq(Timeouts)
      BY QueueFacts
    <3>2. tq # <<>> => 1 \in 1..Len(tq)
      BY <3>1
    <3> QED BY <3>2, QueueFacts
  <2>3. tq # <<>> => tq[1] # next
    BY <1>6, <2>2 DEF EXPIRED
  <2> QED BY <1>1, <1>7, <2>1, <2>2, <2>3 DEF ExpireDue
<1>12. \A u \in Timeouts : delta'[u] >= 0 \/ delta'[u] \in {INACTIVE, EXPIRED}
  <2>1. \A u \in Timeouts : delta[u] >= 0 \/ delta[u] \in {INACTIVE, EXPIRED}
    BY DEF QInv
  <2> QED BY <1>7, <2>1
<1> QED BY <1>1, <1>2, <1>3, <1>6, <1>7, <1>9, <1>10, <1>11, <1>12, Zenon DEF QInv

(***************************************************************************)
(* The queue's invariant holds in every reachable state.                   *)
(***************************************************************************)
LEMMA QNext ==
    ASSUME QInv, Next
    PROVE  QInv'
<1>1. CASE \E n \in 1..MaxTicks : announce(n)
  BY <1>1, QAnnounce
<1>2. CASE expire_one
  BY <1>2, QExpireOne
<1>3. CASE expire_done
  BY <1>3, QExpireDone
<1>4. CASE handle_one
  BY <1>4, QHandleOne
<1>5. CASE handle_done
  <2>1. /\ clk = "handle" /\ next = None /\ clk' = "off"
        /\ tq' = tq /\ delta' = delta /\ expired' = expired /\ next' = next
    BY <1>5 DEF handle_done
  <2>2. Queued' = Queued /\ Expired' = Expired /\ Unhandled' = Unhandled
        /\ ExpireDue' = ExpireDue
    BY <2>1 DEF Queued, Expired, Unhandled, ExpireDue
  <2> QED BY <2>1, <2>2 DEF QInv
<1>6. CASE \E t \in Timeouts : abort_timeout(t)
  BY <1>6, QAbort
<1>7. CASE \E t \in Timeouts, n \in 1..MaxTicks : add_timeout(t, n)
  BY <1>7, QAdd
<1> QED BY <1>1, <1>2, <1>3, <1>4, <1>5, <1>6, <1>7 DEF Next, Clock

(***************************************************************************)
(* The inductive invariant of the timeout queue: the queue and the expired *)
(* list hold exactly the timeouts marked as such, each once, and outside   *)
(* the clock interrupt nothing is due.                                     *)
(***************************************************************************)
THEOREM QInvariant == Spec => []QInv
<1>1. Init => QInv
  <2> SUFFICES ASSUME Init PROVE QInv
    OBVIOUS
  <2>1. Queued = {} /\ Expired = {} /\ Unhandled = <<>> /\ ~ExpireDue
    BY DEF Init, Queued, Expired, Unhandled, ExpireDue, INACTIVE, EXPIRED
  <2>2. Lists(<<>>, {})
    BY DEF Lists
  <2>3. delta \in [Timeouts -> Int]
        /\ \A t \in Timeouts : delta[t] \in {INACTIVE, EXPIRED}
    BY DEF Init, INACTIVE
  <2> QED BY <2>1, <2>2, <2>3 DEF Init, QInv
<1>2. QInv /\ [Next]_vars => QInv'
  <2> SUFFICES ASSUME QInv, [Next]_vars PROVE QInv'
    OBVIOUS
  <2>1. CASE UNCHANGED vars
    <3>1. Queued' = Queued /\ Expired' = Expired /\ Unhandled' = Unhandled
          /\ ExpireDue' = ExpireDue
      BY <2>1 DEF vars, Queued, Expired, Unhandled, ExpireDue
    <3> QED BY <2>1, <3>1 DEF vars, QInv
  <2> QED BY <2>1, QNext
<1> QED BY <1>1, <1>2, PTL DEF Spec

(***************************************************************************)
(* How often an element stands in a list that holds each once.             *)
(***************************************************************************)
LEMMA ListsCount ==
    ASSUME NEW S, NEW s, Lists(s, S), NEW e
    PROVE  Cardinality({i \in 1..Len(s) : s[i] = e}) = IF e \in S THEN 1 ELSE 0
<1>1. CASE e \in S
  <2>1. PICK i \in 1..Len(s) : s[i] = e
    BY <1>1 DEF Lists
  <2>2. {j \in 1..Len(s) : s[j] = e} = {i}
    BY <2>1 DEF Lists
  <2> QED BY <1>1, <2>2, FS_Singleton
<1>2. CASE e \notin S
  <2>1. {j \in 1..Len(s) : s[j] = e} = {}
    <3>1. s \in Seq(S)
      BY DEF Lists
    <3>2. \A j \in 1..Len(s) : s[j] \in S
      BY <3>1
    <3> QED BY <1>2, <3>2
  <2> QED BY <1>2, <2>1, FS_EmptySet
<1> QED BY <1>1, <1>2

(***************************************************************************)
(* A timeout is linked where its delta says, once: on _timeout_q while it  *)
(* counts down, among the expired ones when it is _EXPIRED.                *)
(***************************************************************************)
THEOREM LinkedCorrect == Spec => []LinkedAsMarked
<1>1. QInv => LinkedAsMarked
  <2> SUFFICES ASSUME QInv, NEW t \in Timeouts
               PROVE  /\ Cardinality({i \in 1..Len(tq) : tq[i] = t})
                            = IF delta[t] >= 0 THEN 1 ELSE 0
                      /\ Cardinality({i \in 1..Len(Unhandled) : Unhandled[i] = t})
                            = IF delta[t] = EXPIRED THEN 1 ELSE 0
    BY DEF LinkedAsMarked
  <2> DEFINE Q == Queued
             E == Expired
             h == Unhandled
  <2>1. Lists(tq, Q) /\ Lists(h, E) /\ (t \in Q <=> delta[t] >= 0) /\ (t \in E <=> delta[t] = EXPIRED)
    BY DEF QInv, Queued, Expired
  <2> HIDE DEF Q, E, h
  <2>2. Cardinality({i \in 1..Len(tq) : tq[i] = t}) = IF t \in Q THEN 1 ELSE 0
    BY <2>1, ListsCount
  <2>3. Cardinality({i \in 1..Len(h) : h[i] = t}) = IF t \in E THEN 1 ELSE 0
    BY <2>1, ListsCount
  <2> QED BY <2>1, <2>2, <2>3 DEF h
<1> QED BY <1>1, QInvariant, PTL

(***************************************************************************)
(* Between two clock interrupts the expired list is empty and no timeout   *)
(* is left on the queue at 0.                                              *)
(***************************************************************************)
THEOREM NeverOverdue == Spec => []NothingOverdue
<1>1. QInv => NothingOverdue
  BY DEF QInv, NothingOverdue
<1> QED BY <1>1, QInvariant, PTL

(***************************************************************************)
(* Refinement of AbsTimeouts.  First the ticks to go of the timeouts on a  *)
(* queue q with deltas d.                                                  *)
(***************************************************************************)
Deltas(q, d) ==
    /\ d \in [Timeouts -> Int]
    /\ \A t \in Timeouts : d[t] >= 0 \/ d[t] \in {INACTIVE, EXPIRED}
    /\ Lists(q, {t \in Timeouts : d[t] >= 0})

DueOf(q, d) == [t \in Timeouts |-> IF d[t] = INACTIVE THEN -1
                                   ELSE IF d[t] = EXPIRED THEN 0
                                   ELSE sums(q, d)[CHOOSE i \in 1..Len(q) : q[i] = t]]

\* the elements of such a queue
LEMMA DeltasFacts ==
    ASSUME NEW q, NEW d, Deltas(q, d)
    PROVE  /\ q \in Seq(Timeouts) /\ Len(q) \in Nat /\ d \in [Timeouts -> Int]
           /\ \A i \in 1..Len(q) : q[i] \in Timeouts /\ d[q[i]] \in Nat
           /\ \A i, j \in 1..Len(q) : q[i] = q[j] => i = j
           /\ \A t \in Timeouts : d[t] >= 0 => \E i \in 1..Len(q) : q[i] = t
<1> DEFINE S == {t \in Timeouts : d[t] >= 0}
<1>1. /\ q \in Seq(S) /\ d \in [Timeouts -> Int]
      /\ \A i, j \in 1..Len(q) : q[i] = q[j] => i = j
      /\ \A e \in S : \E i \in 1..Len(q) : q[i] = e
  BY DEF Deltas, Lists
<1>2. Len(q) \in Nat /\ \A i \in 1..Len(q) : q[i] \in S
  <2> HIDE DEF S
  <2> QED BY <1>1
<1>3. q \in Seq(Timeouts)
  BY <1>1
<1>4. \A i \in 1..Len(q) : q[i] \in Timeouts /\ d[q[i]] \in Nat
  <2> SUFFICES ASSUME NEW i \in 1..Len(q) PROVE q[i] \in Timeouts /\ d[q[i]] \in Nat
    OBVIOUS
  <2>1. q[i] \in Timeouts /\ d[q[i]] >= 0
    BY <1>2
  <2>2. d[q[i]] \in Int
    BY <1>1, <2>1
  <2> QED BY <2>1, <2>2
<1>5. \A t \in Timeouts : d[t] >= 0 => \E i \in 1..Len(q) : q[i] = t
  BY <1>1
<1> QED BY <1>1, <1>2, <1>3, <1>4, <1>5

\* the sums of non-negative deltas are at least the first delta
LEMMA SumsGrow ==
    ASSUME NEW q, NEW d, Deltas(q, d)
    PROVE  /\ \A i \in 0..Len(q) : sums(q, d)[i] \in Nat
           /\ \A i \in 1..Len(q) : sums(q, d)[i] >= d[q[1]]
<1> DEFINE F == sums(q, d)
           L == Len(q)
<1>1. /\ F \in [0..L -> Int] /\ F[0] = 0
      /\ \A i \in 1..L : F[i] = F[i - 1] + d[q[i]]
  BY DeltasFacts, SumsAre
<1>2. L \in Nat /\ \A i \in 1..L : d[q[i]] \in Nat
  BY DeltasFacts
<1> HIDE DEF F
<1> DEFINE S == {i \in 0..L : F[i] \in Nat /\ (i >= 1 => F[i] >= d[q[1]])}
<1>3. 0 \in S
  BY <1>1, <1>2
<1>4. \A i \in 0..(L - 1) : i \in S => i + 1 \in S
  <2> SUFFICES ASSUME NEW i \in 0..(L - 1), i \in S PROVE i + 1 \in S
    OBVIOUS
  <2>1. i + 1 \in 1..L /\ i + 1 \in 0..L /\ (i + 1) - 1 = i
    BY <1>2
  <2>2. F[i + 1] = F[i] + d[q[i + 1]] /\ F[i] \in Nat /\ d[q[i + 1]] \in Nat
    BY <1>1, <1>2, <2>1
  <2>3. F[i + 1] \in Nat
    BY <2>2
  <2>4. F[i + 1] >= d[q[1]]
    <3>1. CASE i = 0
      BY <1>1, <2>2, <3>1
    <3>2. CASE i # 0
      <4>1. F[i] >= d[q[1]] /\ 1 \in 1..L
        BY <1>2, <3>2
      <4> QED BY <1>2, <2>2, <4>1
    <3> QED BY <3>1, <3>2
  <2> QED BY <2>1, <2>3, <2>4
<1>5. \A i \in 0..L : i \in S
  <2> HIDE DEF S, L
  <2> QED BY <1>2, <1>3, <1>4, UpTo
<1>6. \A i \in 1..L : i \in 0..L /\ i >= 1
  BY <1>2
<1> QED BY <1>5, <1>6 DEF F

\* the sums are the only function with their recurrence
LEMMA SumsUnique ==
    ASSUME NEW q, NEW d, Deltas(q, d), NEW G, G[0] = 0,
           \A i \in 1..Len(q) : G[i] = G[i - 1] + d[q[i]]
    PROVE  \A i \in 0..Len(q) : sums(q, d)[i] = G[i]
<1> DEFINE F == sums(q, d)
           L == Len(q)
<1>1. F[0] = 0 /\ \A i \in 1..L : F[i] = F[i - 1] + d[q[i]]
  BY DeltasFacts, SumsAre
<1>2. L \in Nat
  BY DeltasFacts
<1> HIDE DEF F
<1> DEFINE S == {i \in 0..L : F[i] = G[i]}
<1>3. 0 \in S
  BY <1>1, <1>2
<1>4. \A i \in 0..(L - 1) : i \in S => i + 1 \in S
  <2> SUFFICES ASSUME NEW i \in 0..(L - 1), i \in S PROVE i + 1 \in S
    OBVIOUS
  <2>1. i + 1 \in 1..L /\ i + 1 \in 0..L /\ (i + 1) - 1 = i
    BY <1>2
  <2>2. F[i + 1] = F[i] + d[q[i + 1]] /\ G[i + 1] = G[i] + d[q[i + 1]] /\ F[i] = G[i]
    BY <1>1, <2>1
  <2> QED BY <2>1, <2>2
<1>5. \A i \in 0..L : i \in S
  <2> HIDE DEF S, L
  <2> QED BY <1>2, <1>3, <1>4, UpTo
<1> QED BY <1>5 DEF F

\* the ticks to go, timeout by timeout
LEMMA DueIs ==
    ASSUME NEW q, NEW d, Deltas(q, d)
    PROVE  /\ \A t \in Timeouts : /\ d[t] = INACTIVE => DueOf(q, d)[t] = -1
                                  /\ d[t] = EXPIRED => DueOf(q, d)[t] = 0
           /\ \A i \in 1..Len(q) : /\ DueOf(q, d)[q[i]] = sums(q, d)[i]
                                   /\ DueOf(q, d)[q[i]] \in Nat
           /\ DueOf(q, d) \in [Timeouts -> Int]
<1> DEFINE D == DueOf(q, d)
           F == sums(q, d)
<1>1. /\ Len(q) \in Nat /\ d \in [Timeouts -> Int]
      /\ \A i \in 1..Len(q) : q[i] \in Timeouts /\ d[q[i]] \in Nat
      /\ \A i, j \in 1..Len(q) : q[i] = q[j] => i = j
      /\ \A t \in Timeouts : d[t] >= 0 => \E i \in 1..Len(q) : q[i] = t
      /\ \A t \in Timeouts : d[t] >= 0 \/ d[t] \in {INACTIVE, EXPIRED}
  BY DeltasFacts DEF Deltas
<1>2. \A i \in 0..Len(q) : F[i] \in Nat
  BY SumsGrow
<1> HIDE DEF F
<1>3. D = [t \in Timeouts |-> IF d[t] = INACTIVE THEN -1
                              ELSE IF d[t] = EXPIRED THEN 0
                              ELSE F[CHOOSE i \in 1..Len(q) : q[i] = t]]
  BY DEF DueOf, F
<1>4. \A t \in Timeouts : /\ d[t] = INACTIVE => D[t] = -1
                          /\ d[t] = EXPIRED => D[t] = 0
  BY <1>3 DEF INACTIVE, EXPIRED
<1>5. \A i \in 1..Len(q) : D[q[i]] = F[i] /\ F[i] \in Nat
  <2> SUFFICES ASSUME NEW i \in 1..Len(q) PROVE D[q[i]] = F[i] /\ F[i] \in Nat
    OBVIOUS
  <2>1. q[i] \in Timeouts /\ d[q[i]] # INACTIVE /\ d[q[i]] # EXPIRED
    BY <1>1 DEF INACTIVE, EXPIRED
  <2>2. (CHOOSE j \in 1..Len(q) : q[j] = q[i]) = i
    BY <1>1
  <2>3. i \in 0..Len(q)
    BY <1>1
  <2> QED BY <1>2, <1>3, <2>1, <2>2, <2>3
<1>6. \A t \in Timeouts : D[t] \in Int
  <2> SUFFICES ASSUME NEW t \in Timeouts PROVE D[t] \in Int
    OBVIOUS
  <2>1. CASE d[t] >= 0
    <3>1. PICK i \in 1..Len(q) : q[i] = t
      BY <1>1, <2>1
    <3> QED BY <1>5, <3>1
  <2>2. CASE d[t] \in {INACTIVE, EXPIRED}
    BY <1>4, <2>2
  <2> QED BY <1>1, <2>1, <2>2
<1>7. DOMAIN D = Timeouts /\ D = [t \in Timeouts |-> D[t]]
  BY <1>3
<1> HIDE DEF D
<1> QED BY <1>4, <1>5, <1>6, <1>7 DEF D, F

\* the queue's state and its next one
LEMMA DueMapIs ==
    /\ QInv => Deltas(tq, delta) /\ dueMap = DueOf(tq, delta)
    /\ QInv' => Deltas(tq', delta') /\ dueMap' = DueOf(tq', delta')
BY DEF QInv, Deltas, Queued, dueMap, DueOf, ticks_to_go

(***************************************************************************)
(* What each operation does to the ticks to go.  Adding a timeout gives it *)
(* its ticks and changes no other's.                                       *)
(***************************************************************************)
LEMMA DueAdd ==
    ASSUME QInv, QInv', NEW t \in Timeouts, NEW n \in 1..MaxTicks, add_timeout(t, n)
    PROVE  dueMap[t] = -1 /\ dueMap' = [dueMap EXCEPT ![t] = n]
<1>1. PICK p \in 1..(Len(tq) + 1), r \in Nat : Added(t, n, p, r)
  BY AddEffect
<1> DEFINE L == Len(tq)
           F == sums(tq, delta)
           H == sums(tq', delta')
           D == DueOf(tq, delta)
           E == DueOf(tq', delta')
<1>2. /\ delta[t] = INACTIVE /\ r = n - F[p - 1]
      /\ tq' = InsertAt(tq, p, t)
      /\ delta'[t] = r
      /\ p <= L => delta'[tq[p]] = delta[tq[p]] - r /\ tq[p] # t
      /\ \A u \in Timeouts : u # t /\ (p <= L => u # tq[p]) => delta'[u] = delta[u]
  BY <1>1 DEF Added
<1>3. Deltas(tq, delta) /\ Deltas(tq', delta') /\ dueMap = D /\ dueMap' = E
  BY DueMapIs
<1>4. /\ L \in Nat /\ tq \in Seq(Timeouts) /\ n \in Nat
      /\ \A i \in 1..L : tq[i] \in Timeouts /\ delta[tq[i]] \in Nat
      /\ \A i, j \in 1..L : tq[i] = tq[j] => i = j
      /\ \A u \in Timeouts : delta[u] >= 0 => \E i \in 1..L : tq[i] = u
  BY <1>3, DeltasFacts, TimeoutQAssumption
<1>5. /\ Len(tq') = L + 1
      /\ \A j \in 1..(L + 1) : /\ j < p => tq'[j] = tq[j]
                               /\ j = p => tq'[j] = t
                               /\ j > p => tq'[j] = tq[j - 1]
  <2>1. /\ Len(InsertAt(tq, p, t)) = L + 1
        /\ \A j \in 1..(L + 1) :
              InsertAt(tq, p, t)[j]
                 = IF j < p THEN tq[j] ELSE IF j = p THEN t ELSE tq[j - 1]
    BY <1>4, InsertAtProps
  <2>2. tq' = InsertAt(tq, p, t)
    BY <1>2
  <2> HIDE DEF L
  <2> QED BY <1>4, <2>1, <2>2
<1>6. /\ F[0] = 0 /\ \A i \in 0..L : F[i] \in Nat
      /\ \A i \in 1..L : F[i] = F[i - 1] + delta[tq[i]]
  <2>1. F[0] = 0 /\ \A i \in 1..L : F[i] = F[i - 1] + delta[tq[i]]
    BY <1>3, DeltasFacts, SumsAre
  <2>2. \A i \in 0..L : F[i] \in Nat
    BY <1>3, SumsGrow
  <2> QED BY <2>1, <2>2
<1> DEFINE G == [i \in 0..(L + 1) |-> IF i < p THEN F[i]
                                      ELSE IF i = p THEN n ELSE F[i - 1]]
<1>7. G[0] = 0 /\ \A i \in 1..(L + 1) : G[i] = G[i - 1] + delta'[tq'[i]]
  <2>0. L + 1 \in Nat /\ p \in Nat /\ p >= 1 /\ p <= L + 1
    BY <1>4
  <2>1. \A i \in 0..(L + 1) : /\ i < p => G[i] = F[i]
                              /\ i = p => G[i] = n
                              /\ i > p => G[i] = F[i - 1]
    BY <2>0
  <2> HIDE DEF G, F, L
  <2>2. G[0] = 0
    BY <1>6, <2>0, <2>1
  <2>3. ASSUME NEW i \in 1..(L + 1) PROVE G[i] = G[i - 1] + delta'[tq'[i]]
    <3>1. i \in 0..(L + 1) /\ i - 1 \in 0..(L + 1) /\ i \in Nat
      BY <1>4
    <3>2. CASE i < p
      <4>1. i \in 1..L /\ i - 1 < p
        BY <1>4, <2>0, <3>2
      <4>2. tq'[i] = tq[i] /\ G[i] = F[i] /\ G[i - 1] = F[i - 1]
        BY <1>5, <2>1, <3>1, <3>2, <4>1
      <4>3. tq[i] \in Timeouts /\ tq[i] # t
        BY <1>2, <1>4, <4>1 DEF INACTIVE
      <4>4. p <= L => p \in 1..L /\ p # i
        BY <1>4, <2>0, <3>2
      <4>5. p <= L => tq[i] # tq[p]
        BY <1>4, <4>1, <4>4
      <4>6. delta'[tq[i]] = delta[tq[i]]
        BY <1>2, <4>3, <4>5
      <4> QED BY <1>6, <4>1, <4>2, <4>6
    <3>3. CASE i = p
      <4>1. tq'[i] = t /\ G[i] = n /\ G[i - 1] = F[i - 1] /\ i - 1 \in 0..L
        BY <1>4, <1>5, <2>0, <2>1, <3>1, <3>3
      <4>2. r = n - F[i - 1] /\ F[i - 1] \in Nat /\ delta'[t] = r
        BY <1>2, <1>6, <3>3, <4>1
      <4> QED BY <1>4, <4>1, <4>2
    <3>4. CASE i = p + 1
      <4>1. p \in 1..L /\ p <= L /\ i - 1 = p /\ p - 1 \in 0..L
        BY <1>4, <2>0, <3>4
      <4>2. tq'[i] = tq[p] /\ G[i] = F[p] /\ G[i - 1] = n
        BY <1>5, <2>0, <2>1, <3>1, <3>4, <4>1
      <4>3. /\ r = n - F[p - 1] /\ F[p - 1] \in Nat /\ delta[tq[p]] \in Nat
            /\ delta'[tq[p]] = delta[tq[p]] - r /\ F[p] = F[p - 1] + delta[tq[p]]
        BY <1>2, <1>4, <1>6, <4>1
      <4>4. F[p] = n + delta'[tq[p]]
        BY <1>4, <4>3
      <4> QED BY <4>2, <4>4
    <3>5. CASE i > p + 1
      <4>1. i - 1 \in 1..L /\ i - 1 > p /\ (i - 1) - 1 \in 0..L /\ i > p
        BY <1>4, <2>0, <3>1, <3>5
      <4>2. tq'[i] = tq[i - 1] /\ G[i] = F[i - 1] /\ G[i - 1] = F[(i - 1) - 1]
        BY <1>5, <2>1, <3>1, <4>1
      <4>3. tq[i - 1] \in Timeouts /\ tq[i - 1] # t
        BY <1>2, <1>4, <4>1 DEF INACTIVE
      <4>4. p <= L => p \in 1..L /\ p # i - 1
        BY <1>4, <2>0, <4>1
      <4>5. p <= L => tq[i - 1] # tq[p]
        BY <1>4, <4>1, <4>4
      <4>6. delta'[tq[i - 1]] = delta[tq[i - 1]]
        BY <1>2, <4>3, <4>5
      <4> QED BY <1>6, <4>1, <4>2, <4>6
    <3> QED BY <2>0, <3>1, <3>2, <3>3, <3>4, <3>5
  <2> QED BY <2>2, <2>3
<1>8. \A i \in 0..(L + 1) : H[i] = G[i]
  <2> HIDE DEF G, L
  <2> QED BY <1>3, <1>5, <1>7, SumsUnique
<1>9. /\ \A u \in Timeouts : /\ delta[u] = INACTIVE => D[u] = -1
                             /\ delta[u] = EXPIRED => D[u] = 0
      /\ \A i \in 1..L : D[tq[i]] = F[i]
      /\ D \in [Timeouts -> Int]
  BY <1>3, DueIs
<1>10. /\ \A u \in Timeouts : /\ delta'[u] = INACTIVE => E[u] = -1
                              /\ delta'[u] = EXPIRED => E[u] = 0
       /\ \A i \in 1..(L + 1) : E[tq'[i]] = H[i]
       /\ E \in [Timeouts -> Int]
  <2> HIDE DEF L, E, H
  <2>1. /\ \A u \in Timeouts : /\ delta'[u] = INACTIVE => E[u] = -1
                               /\ delta'[u] = EXPIRED => E[u] = 0
        /\ \A i \in 1..Len(tq') : E[tq'[i]] = H[i]
        /\ E \in [Timeouts -> Int]
    BY <1>3, DueIs DEF E, H
  <2> QED BY <1>5, <2>1
<1>11. \A i \in 0..(L + 1) : /\ i < p => G[i] = F[i]
                             /\ i = p => G[i] = n
                             /\ i > p => G[i] = F[i - 1]
  BY <1>4
<1>12. \A u \in Timeouts : delta[u] >= 0 \/ delta[u] \in {INACTIVE, EXPIRED}
  BY <1>3 DEF Deltas
<1> HIDE DEF D, E, F, G, H, L
<1>13. E[t] = n
  <2>1. p \in 1..(L + 1) /\ p \in 0..(L + 1) /\ tq'[p] = t
    BY <1>4, <1>5 DEF L
  <2> QED BY <1>8, <1>10, <1>11, <2>1
<1>14. ASSUME NEW u \in Timeouts, u # t PROVE E[u] = D[u]
  <2>1. CASE delta[u] >= 0
    <3>1. PICK i \in 1..L : tq[i] = u
      BY <1>4, <2>1
    <3>2. CASE i < p
      <4>1. i \in 1..(L + 1) /\ i \in 0..(L + 1)
        BY <1>4
      <4>2. tq'[i] = u /\ H[i] = F[i] /\ E[tq'[i]] = H[i]
        BY <1>5, <1>8, <1>10, <1>11, <3>1, <3>2, <4>1
      <4> QED BY <1>9, <3>1, <4>2
    <3>3. CASE ~(i < p)
      <4>1. i + 1 \in 1..(L + 1) /\ i + 1 \in 0..(L + 1) /\ i + 1 > p /\ (i + 1) - 1 = i
        BY <1>4, <3>3 DEF L
      <4>2. tq'[i + 1] = u /\ H[i + 1] = F[i] /\ E[tq'[i + 1]] = H[i + 1]
        BY <1>5, <1>8, <1>10, <1>11, <3>1, <4>1
      <4> QED BY <1>9, <3>1, <4>2
    <3> QED BY <3>2, <3>3
  <2>2. CASE delta[u] \in {INACTIVE, EXPIRED}
    <3>1. p <= L => p \in 1..L
      BY <1>4 DEF L
    <3>2. p <= L => u # tq[p]
      BY <1>4, <2>2, <3>1 DEF INACTIVE, EXPIRED
    <3>3. delta'[u] = delta[u]
      BY <1>2, <1>14, <3>2
    <3> QED BY <1>9, <1>10, <2>2, <3>3
  <2> QED BY <1>12, <2>1, <2>2
<1>15. D[t] = -1
  BY <1>2, <1>9
<1>16. E = [D EXCEPT ![t] = n]
  BY <1>9, <1>10, <1>13, <1>14
<1> QED BY <1>3, <1>15, <1>16

\* Aborting a timeout changes no other's ticks to go.
LEMMA DueAbort ==
    ASSUME QInv, QInv', NEW t \in Timeouts, abort_timeout(t)
    PROVE  dueMap[t] >= 0 /\ dueMap' = [dueMap EXCEPT ![t] = -1]
<1>1. PICK p \in 1..Len(tq) : Aborted(t, p)
  BY AbortEffect
<1> DEFINE L == Len(tq)
           F == sums(tq, delta)
           H == sums(tq', delta')
           D == DueOf(tq, delta)
           E == DueOf(tq', delta')
<1>2. /\ delta[t] \in Nat /\ tq[p] = t
      /\ tq' = RemoveAt(tq, p)
      /\ delta'[t] = INACTIVE
      /\ p < L => delta'[tq[p + 1]] = delta[tq[p + 1]] + delta[t]
      /\ \A u \in Timeouts : u # t /\ (p < L => u # tq[p + 1]) => delta'[u] = delta[u]
  BY <1>1 DEF Aborted
<1>3. Deltas(tq, delta) /\ Deltas(tq', delta') /\ dueMap = D /\ dueMap' = E
  BY DueMapIs
<1>4. /\ L \in Nat /\ tq \in Seq(Timeouts)
      /\ \A i \in 1..L : tq[i] \in Timeouts /\ delta[tq[i]] \in Nat
      /\ \A i, j \in 1..L : tq[i] = tq[j] => i = j
      /\ \A u \in Timeouts : delta[u] >= 0 => \E i \in 1..L : tq[i] = u
  BY <1>3, DeltasFacts
<1>5. /\ Len(tq') = L - 1
      /\ \A j \in 1..(L - 1) : /\ j < p => tq'[j] = tq[j]
                               /\ j >= p => tq'[j] = tq[j + 1]
  <2>1. /\ Len(RemoveAt(tq, p)) = L - 1
        /\ \A j \in 1..(L - 1) :
              RemoveAt(tq, p)[j] = IF j < p THEN tq[j] ELSE tq[j + 1]
    BY <1>4, RemoveAtProps
  <2>2. tq' = RemoveAt(tq, p)
    BY <1>2
  <2>3. p \in Int
    BY <1>4
  <2> HIDE DEF L
  <2> QED BY <1>4, <2>1, <2>2, <2>3
<1>6. /\ F[0] = 0 /\ \A i \in 0..L : F[i] \in Nat
      /\ \A i \in 1..L : F[i] = F[i - 1] + delta[tq[i]]
  <2>1. F[0] = 0 /\ \A i \in 1..L : F[i] = F[i - 1] + delta[tq[i]]
    BY <1>3, DeltasFacts, SumsAre
  <2>2. \A i \in 0..L : F[i] \in Nat
    BY <1>3, SumsGrow
  <2> QED BY <2>1, <2>2
<1>7. p \in Nat /\ p >= 1 /\ p <= L /\ p \in 1..L
  BY <1>4
<1> DEFINE G == [i \in 0..(L - 1) |-> IF i < p THEN F[i] ELSE F[i + 1]]
<1>8. \A i \in 0..(L - 1) : /\ i < p => G[i] = F[i]
                            /\ i >= p => G[i] = F[i + 1]
  BY <1>4, <1>7
<1> HIDE DEF G, F, L
<1>9. G[0] = 0 /\ \A i \in 1..(L - 1) : G[i] = G[i - 1] + delta'[tq'[i]]
  <2>1. 0 \in 0..(L - 1) /\ 0 < p
    BY <1>4, <1>7
  <2>2. G[0] = 0
    BY <1>6, <1>8, <2>1
  <2>3. ASSUME NEW i \in 1..(L - 1) PROVE G[i] = G[i - 1] + delta'[tq'[i]]
    <3>1. i \in 0..(L - 1) /\ i - 1 \in 0..(L - 1) /\ i \in Nat /\ i \in 1..L /\ i + 1 \in 1..L
      BY <1>4
    <3>2. CASE i < p
      <4>1. i - 1 < p
        BY <1>7, <3>1, <3>2
      <4>2. tq'[i] = tq[i] /\ G[i] = F[i] /\ G[i - 1] = F[i - 1]
        BY <1>5, <1>8, <3>1, <3>2, <4>1
      <4>3. tq[i] \in Timeouts /\ tq[i] # t
        BY <1>2, <1>4, <1>7, <3>1, <3>2
      <4>4. p < L => p + 1 \in 1..L /\ p + 1 # i
        BY <1>4, <1>7, <3>1, <3>2
      <4>5. p < L => tq[i] # tq[p + 1]
        BY <1>4, <3>1, <4>4
      <4>6. delta'[tq[i]] = delta[tq[i]]
        BY <1>2, <4>3, <4>5
      <4> QED BY <1>6, <3>1, <4>2, <4>6
    <3>3. CASE i = p
      <4>1. p < L /\ p - 1 \in 0..(L - 1) /\ p - 1 < p /\ p \in 0..L /\ p - 1 \in 0..L
        BY <1>4, <1>7, <3>1, <3>3
      <4>2. tq'[i] = tq[p + 1] /\ G[i] = F[p + 1] /\ G[i - 1] = F[p - 1]
        BY <1>5, <1>7, <1>8, <3>1, <3>3, <4>1
      <4>3. /\ delta'[tq[p + 1]] = delta[tq[p + 1]] + delta[t]
            /\ F[p] = F[p - 1] + delta[t]
        BY <1>2, <1>6, <1>7, <4>1
      <4>4. F[p + 1] = F[p] + delta[tq[p + 1]]
        <5>1. (p + 1) - 1 = p /\ p + 1 \in 1..L
          BY <1>7, <3>1, <3>3
        <5> QED BY <1>6, <5>1
      <4>5. delta[tq[p + 1]] \in Nat /\ F[p - 1] \in Nat /\ delta[t] \in Nat
        BY <1>2, <1>4, <1>6, <3>1, <3>3, <4>1
      <4>6. F[p + 1] = F[p - 1] + delta'[tq[p + 1]]
        BY <4>3, <4>4, <4>5
      <4> QED BY <4>2, <4>6
    <3>4. CASE i > p
      <4>1. i >= p /\ i - 1 >= p /\ (i - 1) + 1 = i /\ (i + 1) - 1 = i /\ i + 1 # p
        BY <1>7, <3>1, <3>4
      <4>2. tq'[i] = tq[i + 1] /\ G[i] = F[i + 1] /\ G[i - 1] = F[i]
        BY <1>5, <1>8, <3>1, <4>1
      <4>3. tq[i + 1] \in Timeouts /\ tq[i + 1] # t
        BY <1>2, <1>4, <1>7, <3>1, <4>1
      <4>4. p < L => p + 1 \in 1..L /\ p + 1 # i + 1
        BY <1>4, <1>7, <3>1, <3>4
      <4>5. p < L => tq[i + 1] # tq[p + 1]
        BY <1>4, <3>1, <4>4
      <4>6. delta'[tq[i + 1]] = delta[tq[i + 1]]
        BY <1>2, <4>3, <4>5
      <4>7. F[i + 1] = F[i] + delta[tq[i + 1]]
        BY <1>6, <3>1, <4>1
      <4> QED BY <4>2, <4>6, <4>7
    <3> QED BY <1>7, <3>1, <3>2, <3>3, <3>4
  <2> QED BY <2>2, <2>3
<1>10. \A i \in 0..(L - 1) : H[i] = G[i]
  BY <1>3, <1>5, <1>9, SumsUnique
<1>11. /\ \A u \in Timeouts : /\ delta[u] = INACTIVE => D[u] = -1
                              /\ delta[u] = EXPIRED => D[u] = 0
       /\ \A i \in 1..L : D[tq[i]] = F[i] /\ D[tq[i]] \in Nat
       /\ D \in [Timeouts -> Int]
  BY <1>3, DueIs DEF F, L
<1>12. /\ \A u \in Timeouts : /\ delta'[u] = INACTIVE => E[u] = -1
                              /\ delta'[u] = EXPIRED => E[u] = 0
       /\ \A i \in 1..(L - 1) : E[tq'[i]] = H[i]
       /\ E \in [Timeouts -> Int]
  <2> HIDE DEF E, H
  <2>1. /\ \A u \in Timeouts : /\ delta'[u] = INACTIVE => E[u] = -1
                               /\ delta'[u] = EXPIRED => E[u] = 0
        /\ \A i \in 1..Len(tq') : E[tq'[i]] = H[i]
        /\ E \in [Timeouts -> Int]
    BY <1>3, DueIs DEF E, H
  <2> QED BY <1>5, <2>1
<1>13. \A u \in Timeouts : delta[u] >= 0 \/ delta[u] \in {INACTIVE, EXPIRED}
  BY <1>3 DEF Deltas
<1> HIDE DEF D, E, H
<1>14. E[t] = -1
  BY <1>2, <1>12
<1>15. ASSUME NEW u \in Timeouts, u # t PROVE E[u] = D[u]
  <2>1. CASE delta[u] >= 0
    <3>1. PICK i \in 1..L : tq[i] = u
      BY <1>4, <2>1
    <3>2. CASE i < p
      <4>1. i \in 1..(L - 1) /\ i \in 0..(L - 1)
        BY <1>4, <1>7, <3>2
      <4>2. tq'[i] = u /\ H[i] = F[i] /\ E[tq'[i]] = H[i]
        BY <1>5, <1>8, <1>10, <1>12, <3>1, <3>2, <4>1
      <4> QED BY <1>11, <3>1, <4>2
    <3>3. CASE ~(i < p)
      <4>0. i # p
        BY <1>2, <1>15, <3>1
      <4>1. i - 1 \in 1..(L - 1) /\ i - 1 \in 0..(L - 1) /\ i - 1 >= p /\ (i - 1) + 1 = i
        BY <1>4, <1>7, <3>3, <4>0
      <4>2. tq'[i - 1] = u /\ H[i - 1] = F[i] /\ E[tq'[i - 1]] = H[i - 1]
        BY <1>5, <1>8, <1>10, <1>12, <3>1, <4>1
      <4> QED BY <1>11, <3>1, <4>2
    <3> QED BY <3>2, <3>3
  <2>2. CASE delta[u] \in {INACTIVE, EXPIRED}
    <3>1. p < L => p + 1 \in 1..L
      BY <1>4, <1>7
    <3>2. p < L => u # tq[p + 1]
      BY <1>4, <2>2, <3>1 DEF INACTIVE, EXPIRED
    <3>3. delta'[u] = delta[u]
      BY <1>2, <1>15, <3>2
    <3> QED BY <1>11, <1>12, <2>2, <3>3
  <2> QED BY <1>13, <2>1, <2>2
<1>16. D[t] >= 0
  <2>1. D[tq[p]] \in Nat
    BY <1>7, <1>11
  <2> QED BY <1>2, <2>1
<1>17. E = [D EXCEPT ![t] = -1]
  BY <1>11, <1>12, <1>14, <1>15
<1> QED BY <1>3, <1>16, <1>17

\* The ticks announced go off every timeout's ticks to go.
LEMMA DueAnnounce ==
    ASSUME QInv, QInv', NEW n \in 1..MaxTicks, announce(n)
    PROVE  /\ \A t \in Timeouts : dueMap[t] = -1 \/ dueMap[t] >= n
           /\ dueMap' = [t \in Timeouts |-> IF dueMap[t] = -1 THEN -1 ELSE dueMap[t] - n]
<1> DEFINE L == Len(tq)
           F == sums(tq, delta)
           H == sums(tq', delta')
           D == DueOf(tq, delta)
           E == DueOf(tq', delta')
<1>1. /\ clk = "off" /\ tq # <<>> /\ n <= delta[tq[1]] /\ tq' = tq
      /\ delta' = [delta EXCEPT ![tq[1]] = @ - n]
  BY DEF announce
<1>2. Deltas(tq, delta) /\ Deltas(tq', delta') /\ dueMap = D /\ dueMap' = E
  BY DueMapIs
<1>3. /\ L \in Nat /\ tq \in Seq(Timeouts) /\ n \in Nat /\ delta \in [Timeouts -> Int]
      /\ \A i \in 1..L : tq[i] \in Timeouts /\ delta[tq[i]] \in Nat
      /\ \A i, j \in 1..L : tq[i] = tq[j] => i = j
      /\ \A u \in Timeouts : delta[u] >= 0 => \E i \in 1..L : tq[i] = u
  BY <1>2, DeltasFacts, TimeoutQAssumption
<1>4. 1 \in 1..L
  BY <1>1, <1>3
<1>5. /\ delta'[tq[1]] = delta[tq[1]] - n
      /\ \A u \in Timeouts : u # tq[1] => delta'[u] = delta[u]
  BY <1>1, <1>3, <1>4
<1>6. /\ F[0] = 0 /\ \A i \in 0..L : F[i] \in Nat
      /\ \A i \in 1..L : F[i] = F[i - 1] + delta[tq[i]]
  <2>1. F[0] = 0 /\ \A i \in 1..L : F[i] = F[i - 1] + delta[tq[i]]
    BY <1>2, DeltasFacts, SumsAre
  <2>2. \A i \in 0..L : F[i] \in Nat
    BY <1>2, SumsGrow
  <2> QED BY <2>1, <2>2
<1>7. \A i \in 1..L : F[i] >= delta[tq[1]]
  BY <1>2, SumsGrow
<1> DEFINE G == [i \in 0..L |-> IF i = 0 THEN 0 ELSE F[i] - n]
<1>8. G[0] = 0 /\ \A i \in 1..L : G[i] = F[i] - n
  BY <1>3
<1> HIDE DEF G, F, L
<1>9. \A i \in 1..L : G[i] = G[i - 1] + delta'[tq[i]]
  <2> SUFFICES ASSUME NEW i \in 1..L PROVE G[i] = G[i - 1] + delta'[tq[i]]
    OBVIOUS
  <2>1. CASE i = 1
    <3>1. F[1] = delta[tq[1]] /\ delta[tq[1]] \in Nat
      BY <1>3, <1>4, <1>6
    <3>2. G[1] = F[1] - n /\ G[1 - 1] = 0
      BY <1>4, <1>8
    <3> QED BY <1>3, <1>5, <2>1, <3>1, <3>2
  <2>2. CASE i # 1
    <3>1. i - 1 \in 1..L /\ i \in 0..L /\ i - 1 \in 0..L
      BY <1>3, <2>2
    <3>2. tq[i] # tq[1] /\ tq[i] \in Timeouts
      BY <1>3, <1>4, <2>2
    <3>3. delta'[tq[i]] = delta[tq[i]] /\ delta[tq[i]] \in Nat
      BY <1>3, <1>5, <3>2
    <3>4. G[i] = F[i] - n /\ G[i - 1] = F[i - 1] - n /\ F[i - 1] \in Nat
          /\ F[i] = F[i - 1] + delta[tq[i]]
      BY <1>6, <1>8, <3>1
    <3> QED BY <1>3, <3>3, <3>4
  <2> QED BY <2>1, <2>2
<1>10. \A i \in 1..L : H[i] = F[i] - n
  <2>1. \A i \in 0..Len(tq') : H[i] = G[i]
    <3>1. G[0] = 0 /\ \A i \in 1..Len(tq') : G[i] = G[i - 1] + delta'[tq'[i]]
      BY <1>1, <1>8, <1>9 DEF L
    <3> QED BY <1>2, <3>1, SumsUnique
  <2>2. Len(tq') = L /\ \A i \in 1..L : i \in 0..L
    BY <1>1, <1>3 DEF L
  <2> QED BY <1>8, <2>1, <2>2
<1>11. /\ \A u \in Timeouts : /\ delta[u] = INACTIVE => D[u] = -1
                              /\ delta[u] = EXPIRED => D[u] = 0
       /\ \A i \in 1..L : D[tq[i]] = F[i]
  BY <1>2, DueIs DEF F, L
<1>12. /\ \A u \in Timeouts : delta'[u] = INACTIVE => E[u] = -1
       /\ \A i \in 1..L : E[tq[i]] = H[i]
       /\ E \in [Timeouts -> Int]
  <2> HIDE DEF E, H
  <2>1. /\ \A u \in Timeouts : /\ delta'[u] = INACTIVE => E[u] = -1
                               /\ delta'[u] = EXPIRED => E[u] = 0
        /\ \A i \in 1..Len(tq') : E[tq'[i]] = H[i]
        /\ E \in [Timeouts -> Int]
    BY <1>2, DueIs DEF E, H
  <2> QED BY <1>1, <2>1 DEF L
<1>13. \A u \in Timeouts : delta[u] >= 0 \/ delta[u] = INACTIVE
  <2>1. \A u \in Timeouts : delta[u] # EXPIRED
    <3>1. Unhandled = <<>> /\ Lists(Unhandled, Expired)
      BY <1>1 DEF QInv, Unhandled
    <3>2. Expired = {}
      <4>1. \A e \in Expired : \E i \in 1..0 : TRUE
        BY <3>1 DEF Lists
      <4> QED BY <4>1
    <3> QED BY <3>2 DEF Expired
  <2> QED BY <1>2, <2>1 DEF Deltas
<1> HIDE DEF D, E, H
<1>14. ASSUME NEW u \in Timeouts
       PROVE  /\ D[u] = -1 \/ D[u] >= n
              /\ E[u] = IF D[u] = -1 THEN -1 ELSE D[u] - n
  <2>1. CASE delta[u] >= 0
    <3>1. PICK i \in 1..L : tq[i] = u
      BY <1>3, <2>1
    <3>2. D[u] = F[i] /\ E[u] = F[i] - n
      BY <1>10, <1>11, <1>12, <3>1
    <3>3. F[i] >= delta[tq[1]] /\ F[i] \in Nat /\ delta[tq[1]] \in Nat
      <4>1. i \in 0..L
        BY <1>3
      <4> QED BY <1>3, <1>4, <1>6, <1>7, <4>1
    <3> QED BY <1>1, <1>3, <3>2, <3>3
  <2>2. CASE delta[u] = INACTIVE
    <3>1. u # tq[1]
      BY <1>3, <1>4, <2>2 DEF INACTIVE
    <3>2. D[u] = -1 /\ E[u] = -1
      BY <1>5, <1>11, <1>12, <2>2, <3>1
    <3> QED BY <3>2
  <2> QED BY <1>13, <2>1, <2>2
<1>15. E = [t \in Timeouts |-> IF D[t] = -1 THEN -1 ELSE D[t] - n]
  BY <1>12, <1>14
<1> QED BY <1>2, <1>14, <1>15

\* Moving a timeout to the expired list leaves the ticks to go alone.
LEMMA DueExpire ==
    ASSUME QInv, QInv', expire_one
    PROVE  dueMap' = dueMap
<1> DEFINE L == Len(tq)
           F == sums(tq, delta)
           H == sums(tq', delta')
           D == DueOf(tq, delta)
           E == DueOf(tq', delta')
<1>1. /\ tq # <<>> /\ delta[tq[1]] = 0 /\ tq' = Tail(tq)
      /\ delta' = [delta EXCEPT ![tq[1]] = EXPIRED]
  BY DEF expire_one, ExpireDue
<1>2. Deltas(tq, delta) /\ Deltas(tq', delta') /\ dueMap = D /\ dueMap' = E
  BY DueMapIs
<1>3. /\ L \in Nat /\ tq \in Seq(Timeouts) /\ delta \in [Timeouts -> Int]
      /\ \A i \in 1..L : tq[i] \in Timeouts /\ delta[tq[i]] \in Nat
      /\ \A i, j \in 1..L : tq[i] = tq[j] => i = j
      /\ \A u \in Timeouts : delta[u] >= 0 => \E i \in 1..L : tq[i] = u
  BY <1>2, DeltasFacts
<1>4. /\ 1 \in 1..L /\ Len(tq') = L - 1
      /\ \A j \in 1..(L - 1) : tq'[j] = tq[j + 1]
  BY <1>1, <1>3, HeadTailProperties
<1>5. /\ delta'[tq[1]] = EXPIRED
      /\ \A u \in Timeouts : u # tq[1] => delta'[u] = delta[u]
  BY <1>1, <1>3, <1>4
<1>6. F[0] = 0 /\ \A i \in 1..L : F[i] = F[i - 1] + delta[tq[i]]
  BY <1>2, DeltasFacts, SumsAre
<1> DEFINE G == [i \in 0..(L - 1) |-> F[i + 1]]
<1>7. \A i \in 0..(L - 1) : G[i] = F[i + 1]
  OBVIOUS
<1> HIDE DEF G, F, L
<1>8. F[1] = 0
  <2>1. F[1] = F[1 - 1] + delta[tq[1]]
    BY <1>4, <1>6
  <2> QED BY <1>1, <1>6, <2>1
<1>9. G[0] = 0 /\ \A i \in 1..(L - 1) : G[i] = G[i - 1] + delta'[tq'[i]]
  <2>1. 0 \in 0..(L - 1) /\ 0 + 1 = 1
    BY <1>3, <1>4
  <2>2. G[0] = 0
    BY <1>7, <1>8, <2>1
  <2>3. ASSUME NEW i \in 1..(L - 1) PROVE G[i] = G[i - 1] + delta'[tq'[i]]
    <3>1. /\ i \in 0..(L - 1) /\ i - 1 \in 0..(L - 1) /\ i + 1 \in 1..L
          /\ (i - 1) + 1 = i /\ (i + 1) - 1 = i /\ i + 1 # 1
      BY <1>3
    <3>2. tq[i + 1] # tq[1] /\ tq[i + 1] \in Timeouts /\ tq'[i] = tq[i + 1]
      BY <1>3, <1>4, <3>1
    <3>3. delta'[tq'[i]] = delta[tq[i + 1]]
      BY <1>5, <3>2
    <3>4. G[i] = F[i + 1] /\ G[i - 1] = F[i] /\ F[i + 1] = F[i] + delta[tq[i + 1]]
      BY <1>6, <1>7, <3>1
    <3> QED BY <3>3, <3>4
  <2> QED BY <2>2, <2>3
<1>10. \A i \in 0..(L - 1) : H[i] = G[i]
  BY <1>2, <1>4, <1>9, SumsUnique
<1>11. /\ \A u \in Timeouts : /\ delta[u] = INACTIVE => D[u] = -1
                              /\ delta[u] = EXPIRED => D[u] = 0
       /\ \A i \in 1..L : D[tq[i]] = F[i]
       /\ D \in [Timeouts -> Int]
  BY <1>2, DueIs DEF F, L
<1>12. /\ \A u \in Timeouts : /\ delta'[u] = INACTIVE => E[u] = -1
                              /\ delta'[u] = EXPIRED => E[u] = 0
       /\ \A i \in 1..(L - 1) : E[tq'[i]] = H[i]
       /\ E \in [Timeouts -> Int]
  <2> HIDE DEF E, H
  <2>1. /\ \A u \in Timeouts : /\ delta'[u] = INACTIVE => E[u] = -1
                               /\ delta'[u] = EXPIRED => E[u] = 0
        /\ \A i \in 1..Len(tq') : E[tq'[i]] = H[i]
        /\ E \in [Timeouts -> Int]
    BY <1>2, DueIs DEF E, H
  <2> QED BY <1>4, <2>1
<1>13. \A u \in Timeouts : delta[u] >= 0 \/ delta[u] \in {INACTIVE, EXPIRED}
  BY <1>2 DEF Deltas
<1> HIDE DEF D, E, H
<1>14. ASSUME NEW u \in Timeouts PROVE E[u] = D[u]
  <2>1. CASE delta[u] >= 0
    <3>1. PICK i \in 1..L : tq[i] = u
      BY <1>3, <2>1
    <3>2. CASE i = 1
      BY <1>5, <1>8, <1>11, <1>12, <3>1, <3>2
    <3>3. CASE i # 1
      <4>1. i - 1 \in 1..(L - 1) /\ i - 1 \in 0..(L - 1) /\ (i - 1) + 1 = i
        BY <1>3, <3>3
      <4>2. tq'[i - 1] = u /\ H[i - 1] = F[i] /\ E[tq'[i - 1]] = H[i - 1]
        BY <1>4, <1>7, <1>10, <1>12, <3>1, <4>1
      <4> QED BY <1>11, <3>1, <4>2
    <3> QED BY <3>2, <3>3
  <2>2. CASE delta[u] \in {INACTIVE, EXPIRED}
    <3>1. u # tq[1]
      BY <1>1, <2>2 DEF INACTIVE, EXPIRED
    <3>2. delta'[u] = delta[u]
      BY <1>5, <3>1
    <3> QED BY <1>11, <1>12, <2>2, <3>2
  <2> QED BY <1>13, <2>1, <2>2
<1>15. E = D
  BY <1>11, <1>12, <1>14
<1> QED BY <1>2, <1>15

\* Handling an expired timeout ends it, and changes no other's ticks to go.
LEMMA DueHandle ==
    ASSUME QInv, QInv', handle_one
    PROVE  /\ next \in Timeouts /\ dueMap[next] = 0
           /\ dueMap' = [dueMap EXCEPT ![next] = -1]
<1> DEFINE L == Len(tq)
           F == sums(tq, delta)
           H == sums(tq, delta')
           D == DueOf(tq, delta)
           E == DueOf(tq, delta')
<1>1. tq' = tq /\ delta' = [delta EXCEPT ![next] = INACTIVE]
  BY DEF handle_one
<1>2. next \in Timeouts /\ delta[next] = EXPIRED
  BY QHandleOne
<1>3. Deltas(tq, delta) /\ Deltas(tq, delta') /\ dueMap = D /\ dueMap' = E
  <2>1. Deltas(tq, delta) /\ Deltas(tq', delta') /\ dueMap = D /\ dueMap' = DueOf(tq', delta')
    BY DueMapIs
  <2> QED BY <1>1, <2>1
<1>4. /\ L \in Nat /\ delta \in [Timeouts -> Int]
      /\ \A i \in 1..L : tq[i] \in Timeouts /\ delta[tq[i]] \in Nat
      /\ \A u \in Timeouts : delta[u] >= 0 => \E i \in 1..L : tq[i] = u
  BY <1>3, DeltasFacts
<1>5. /\ delta'[next] = INACTIVE
      /\ \A u \in Timeouts : u # next => delta'[u] = delta[u]
  BY <1>1, <1>2, <1>4
<1>6. \A i \in 0..L : H[i] = F[i]
  <2>1. F[0] = 0 /\ \A i \in 1..L : F[i] = F[i - 1] + delta[tq[i]]
    BY <1>3, DeltasFacts, SumsAre
  <2> HIDE DEF F
  <2>2. \A i \in 1..L : delta'[tq[i]] = delta[tq[i]]
    BY <1>2, <1>4, <1>5 DEF EXPIRED
  <2>3. \A i \in 1..L : F[i] = F[i - 1] + delta'[tq[i]]
    BY <2>1, <2>2
  <2> QED BY <1>3, <2>1, <2>3, SumsUnique
<1>7. /\ \A u \in Timeouts : /\ delta[u] = INACTIVE => D[u] = -1
                             /\ delta[u] = EXPIRED => D[u] = 0
      /\ \A i \in 1..L : D[tq[i]] = F[i]
      /\ D \in [Timeouts -> Int]
  BY <1>3, DueIs
<1>8. /\ \A u \in Timeouts : /\ delta'[u] = INACTIVE => E[u] = -1
                             /\ delta'[u] = EXPIRED => E[u] = 0
      /\ \A i \in 1..L : E[tq[i]] = H[i]
      /\ E \in [Timeouts -> Int]
  BY <1>3, DueIs
<1>9. \A u \in Timeouts : delta[u] >= 0 \/ delta[u] \in {INACTIVE, EXPIRED}
  BY <1>3 DEF Deltas
<1> HIDE DEF D, E, F, H
<1>10. ASSUME NEW u \in Timeouts, u # next PROVE E[u] = D[u]
  <2>1. CASE delta[u] >= 0
    <3>1. PICK i \in 1..L : tq[i] = u
      BY <1>4, <2>1
    <3>2. i \in 0..L
      BY <1>4
    <3> QED BY <1>6, <1>7, <1>8, <3>1, <3>2
  <2>2. CASE delta[u] \in {INACTIVE, EXPIRED}
    <3>1. delta'[u] = delta[u]
      BY <1>5, <1>10
    <3> QED BY <1>7, <1>8, <2>2, <3>1
  <2> QED BY <1>9, <2>1, <2>2
<1>11. D[next] = 0 /\ E[next] = -1
  BY <1>2, <1>5, <1>7, <1>8
<1>12. E = [D EXCEPT ![next] = -1]
  BY <1>2, <1>7, <1>8, <1>10, <1>11
<1> QED BY <1>2, <1>3, <1>11, <1>12

(***************************************************************************)
(* The order in which timeouts are added and handled.  Of two elements of  *)
(* a list the older comes first.                                           *)
(***************************************************************************)
Older(o, a, b) == \E i, j \in 1..Len(o) : i < j /\ o[i] = a /\ o[j] = b

\* on a list without duplicates this is a strict order
LEMMA OlderFacts ==
    ASSUME NEW S, NEW o, Lists(o, S)
    PROVE  /\ \A a, b, c : Older(o, a, b) /\ Older(o, b, c) => Older(o, a, c)
           /\ \A a, b : Older(o, a, b) => ~Older(o, b, a) /\ a \in S /\ b \in S
<1>1. /\ o \in Seq(S) /\ Len(o) \in Nat
      /\ \A i \in 1..Len(o) : o[i] \in S
      /\ \A i, j \in 1..Len(o) : o[i] = o[j] => i = j
  BY DEF Lists
<1>2. ASSUME NEW a, NEW b, NEW c, Older(o, a, b), Older(o, b, c) PROVE Older(o, a, c)
  <2>1. PICK i \in 1..Len(o), j \in 1..Len(o) : i < j /\ o[i] = a /\ o[j] = b
    BY <1>2 DEF Older
  <2>2. PICK x \in 1..Len(o), y \in 1..Len(o) : x < y /\ o[x] = b /\ o[y] = c
    BY <1>2 DEF Older
  <2>3. j = x
    BY <1>1, <2>1, <2>2
  <2>4. i < y
    BY <1>1, <2>1, <2>2, <2>3
  <2> QED BY <2>1, <2>2, <2>4 DEF Older
<1>3. ASSUME NEW a, NEW b, Older(o, a, b) PROVE ~Older(o, b, a) /\ a \in S /\ b \in S
  <2>1. PICK i \in 1..Len(o), j \in 1..Len(o) : i < j /\ o[i] = a /\ o[j] = b
    BY <1>3 DEF Older
  <2>2. ASSUME Older(o, b, a) PROVE FALSE
    <3>1. PICK x \in 1..Len(o), y \in 1..Len(o) : x < y /\ o[x] = b /\ o[y] = a
      BY <2>2 DEF Older
    <3>2. j = x /\ i = y
      BY <1>1, <2>1, <3>1
    <3> QED BY <1>1, <2>1, <3>1, <3>2
  <2> QED BY <1>1, <2>1, <2>2
<1> QED BY <1>2, <1>3

\* a new element is younger than all others
LEMMA OlderAppend ==
    ASSUME NEW S, NEW o, Lists(o, S), NEW e
    PROVE  /\ \A a, b : Older(o, a, b) => Older(Append(o, e), a, b)
           /\ \A a \in S : Older(Append(o, e), a, e)
<1> DEFINE r == Append(o, e)
           T == S \cup {e}
<1>1. o \in Seq(T) /\ e \in T /\ Len(o) \in Nat /\ \A a \in S : \E i \in 1..Len(o) : o[i] = a
  BY DEF Lists
<1>2. /\ Len(r) = Len(o) + 1 /\ r[Len(o) + 1] = e
      /\ \A i \in 1..Len(o) : r[i] = o[i]
  <2> HIDE DEF T
  <2> QED BY <1>1, AppendProperties
<1> HIDE DEF r
<1>3. \A i \in 1..Len(o) : i \in 1..Len(r) /\ i < Len(o) + 1
  BY <1>1, <1>2
<1>4. Len(o) + 1 \in 1..Len(r)
  BY <1>1, <1>2
<1>5. ASSUME NEW a, NEW b, Older(o, a, b) PROVE Older(r, a, b)
  <2>1. PICK i \in 1..Len(o), j \in 1..Len(o) : i < j /\ o[i] = a /\ o[j] = b
    BY <1>5 DEF Older
  <2>2. i \in 1..Len(r) /\ j \in 1..Len(r) /\ r[i] = a /\ r[j] = b
    BY <1>2, <1>3, <2>1
  <2> QED BY <2>1, <2>2 DEF Older
<1>6. ASSUME NEW a \in S PROVE Older(r, a, e)
  <2>1. PICK i \in 1..Len(o) : o[i] = a
    BY <1>1
  <2>2. i \in 1..Len(r) /\ r[i] = a /\ i < Len(o) + 1
    BY <1>2, <1>3, <2>1
  <2> QED BY <1>2, <1>4, <2>2 DEF Older
<1> QED BY <1>5, <1>6 DEF r

\* taking an element out leaves the others' order
LEMMA OlderRemove ==
    ASSUME NEW S, NEW o, Lists(o, S), NEW e \in S
    PROVE  /\ Lists(RemoveFirst(o, e), S \ {e})
           /\ \A a, b : Older(o, a, b) /\ a # e /\ b # e => Older(RemoveFirst(o, e), a, b)
<1>1. PICK p \in 1..Len(o) : o[p] = e
  BY DEF Lists
<1> DEFINE r == RemoveFirst(o, e)
<1>2. r = RemoveAt(o, p)
  BY <1>1, RemoveFirstIs
<1>3. Lists(r, S \ {e})
  <2>1. Lists(RemoveAt(o, p), S \ {o[p]})
    BY ListsRemoveAt
  <2> QED BY <1>1, <1>2, <2>1
<1>4. o \in Seq(S) /\ Len(o) \in Nat
  BY DEF Lists
<1>5. /\ Len(r) = Len(o) - 1
      /\ \A j \in 1..(Len(o) - 1) : r[j] = IF j < p THEN o[j] ELSE o[j + 1]
  <2>1. /\ Len(RemoveAt(o, p)) = Len(o) - 1
        /\ \A j \in 1..(Len(o) - 1) : RemoveAt(o, p)[j] = IF j < p THEN o[j] ELSE o[j + 1]
    BY <1>4, RemoveAtProps
  <2> QED BY <1>2, <2>1
<1> HIDE DEF r
<1>6. ASSUME NEW a, NEW b, Older(o, a, b), a # e, b # e PROVE Older(r, a, b)
  <2>1. PICK i \in 1..Len(o), j \in 1..Len(o) : i < j /\ o[i] = a /\ o[j] = b
    BY <1>6 DEF Older
  <2> DEFINE x == IF i < p THEN i ELSE i - 1
             y == IF j < p THEN j ELSE j - 1
  <2>2. i # p /\ j # p
    BY <1>1, <1>6, <2>1
  <2>3. x \in 1..Len(r) /\ y \in 1..Len(r) /\ x < y
    BY <1>4, <1>5, <2>1, <2>2
  <2>4. r[x] = a
    <3>1. CASE i < p
      BY <1>4, <1>5, <2>1, <2>3, <3>1
    <3>2. CASE i > p
      <4>1. x = i - 1 /\ ~(x < p) /\ x + 1 = i /\ x \in 1..(Len(o) - 1)
        BY <1>4, <1>5, <2>3, <3>2
      <4> QED BY <1>5, <2>1, <4>1
    <3> QED BY <1>4, <2>2, <3>1, <3>2
  <2>5. r[y] = b
    <3>1. CASE j < p
      BY <1>4, <1>5, <2>1, <2>3, <3>1
    <3>2. CASE j > p
      <4>1. y = j - 1 /\ ~(y < p) /\ y + 1 = j /\ y \in 1..(Len(o) - 1)
        BY <1>4, <1>5, <2>3, <3>2
      <4> QED BY <1>5, <2>1, <4>1
    <3> QED BY <1>4, <2>2, <3>1, <3>2
  <2> HIDE DEF x, y
  <2> QED BY <2>3, <2>4, <2>5 DEF Older
<1> QED BY <1>3, <1>6 DEF r

(***************************************************************************)
(* Timeouts that fall due together stand on the queue youngest first       *)
(* (_add_timeout() inserts before an equal), and on the expired list,      *)
(* which prepending turns round, oldest first.                             *)
(***************************************************************************)
Active == {t \in Timeouts : delta[t] # INACTIVE}

OInv ==
    /\ Lists(order, Active)
    /\ \A i \in 1..(Len(tq) - 1) :
          delta[tq[i + 1]] = 0 => Older(order, tq[i + 1], tq[i])
    /\ clk = "expire" /\ ExpireDue =>
          \A j \in 1..Len(expired) : Older(order, tq[1], expired[j])
    /\ \A i, j \in 1..Len(Unhandled) :
          i < j => Older(order, Unhandled[i], Unhandled[j])

\* adding keeps the order: the new timeout is the youngest
LEMMA OAdd ==
    ASSUME QInv, OInv, NEW t \in Timeouts, NEW n \in 1..MaxTicks, add_timeout(t, n)
    PROVE  OInv'
<1>1. PICK p \in 1..(Len(tq) + 1), r \in Nat : Added(t, n, p, r)
  BY AddEffect
<1> DEFINE L == Len(tq)
<1>2. /\ delta[t] = INACTIVE /\ r > 0
      /\ tq' = InsertAt(tq, p, t)
      /\ delta' \in [Timeouts -> Int] /\ delta'[t] = r
      /\ p <= L => /\ delta'[tq[p]] = delta[tq[p]] - r /\ r <= delta[tq[p]]
                   /\ tq[p] \in Timeouts /\ tq[p] # t
      /\ \A u \in Timeouts : u # t /\ (p <= L => u # tq[p]) => delta'[u] = delta[u]
      /\ clk' = clk /\ expired' = expired /\ next' = next
      /\ order' = Append(order, t)
  BY <1>1 DEF Added
<1>3. /\ L \in Nat /\ delta \in [Timeouts -> Int] /\ tq \in Seq(Timeouts)
      /\ \A i \in 1..L : tq[i] \in Timeouts /\ delta[tq[i]] \in Nat
      /\ \A i, j \in 1..L : tq[i] = tq[j] => i = j
  BY QueueFacts DEF QInv
<1>4. /\ Len(tq') = L + 1
      /\ \A j \in 1..(L + 1) : /\ j < p => tq'[j] = tq[j]
                               /\ j = p => tq'[j] = t
                               /\ j > p => tq'[j] = tq[j - 1]
  <2>1. /\ Len(InsertAt(tq, p, t)) = L + 1
        /\ \A j \in 1..(L + 1) :
              InsertAt(tq, p, t)[j]
                 = IF j < p THEN tq[j] ELSE IF j = p THEN t ELSE tq[j - 1]
    BY <1>3, InsertAtProps
  <2>2. tq' = InsertAt(tq, p, t)
    BY <1>2
  <2> HIDE DEF L
  <2> QED BY <1>3, <2>1, <2>2
<1>5. \A i \in 1..L : i # p => delta'[tq[i]] = delta[tq[i]]
  <2> SUFFICES ASSUME NEW i \in 1..L, i # p PROVE delta'[tq[i]] = delta[tq[i]]
    OBVIOUS
  <2>1. tq[i] \in Timeouts /\ tq[i] # t
    BY <1>2, <1>3 DEF INACTIVE
  <2>2. p <= L => p \in 1..L
    BY <1>3
  <2>3. p <= L => tq[i] # tq[p]
    BY <1>3, <2>2
  <2> QED BY <1>2, <2>1, <2>3
<1>6. p \in Nat /\ p >= 1 /\ p <= L + 1
  BY <1>3
<1> HIDE DEF L
<1>7. Active' = Active \cup {t} /\ t \notin Active /\ \A i \in 1..L : tq[i] \in Active
  <2>1. \A u \in Timeouts : delta'[u] # INACTIVE <=> (delta[u] # INACTIVE \/ u = t)
    <3> SUFFICES ASSUME NEW u \in Timeouts, u # t
                 PROVE  delta'[u] # INACTIVE <=> delta[u] # INACTIVE
      BY <1>2 DEF INACTIVE
    <3>1. CASE p <= L /\ u = tq[p]
      <4>1. p \in 1..L
        BY <1>3, <1>6, <3>1
      <4> QED BY <1>2, <1>3, <3>1, <4>1 DEF INACTIVE
    <3>2. CASE ~(p <= L /\ u = tq[p])
      BY <1>2, <3>2
    <3> QED BY <3>1, <3>2
  <2>2. \A i \in 1..L : tq[i] \in Active
    BY <1>3 DEF Active, INACTIVE
  <2> QED BY <1>2, <2>1, <2>2 DEF Active
<1>8. /\ Lists(order', Active')
      /\ \A a, b : Older(order, a, b) => Older(order', a, b)
      /\ \A a \in Active : Older(order', a, t)
  <2> DEFINE S == Active
  <2>1. Lists(order, S) /\ t \notin S
    BY <1>7 DEF OInv
  <2> HIDE DEF S
  <2>2. Lists(Append(order, t), S \cup {t})
    BY <2>1, ListsEnds
  <2>3. /\ \A a, b : Older(order, a, b) => Older(Append(order, t), a, b)
        /\ \A a \in S : Older(Append(order, t), a, t)
    BY <2>1, OlderAppend
  <2> QED BY <1>2, <1>7, <2>2, <2>3 DEF S
<1>9. ASSUME NEW i \in 1..L, delta'[tq'[i + 1]] = 0 PROVE Older(order', tq'[i + 1], tq'[i])
  <2>1. i + 1 \in 1..(L + 1) /\ i \in 1..(L + 1) /\ i \in Nat
    BY <1>3
  <2>2. CASE i + 1 < p
    <3>1. i + 1 \in 1..L /\ i \in 1..(L - 1) /\ i + 1 # p /\ i < p
      BY <1>3, <1>6, <2>1, <2>2
    <3>2. tq'[i + 1] = tq[i + 1] /\ tq'[i] = tq[i] /\ delta[tq[i + 1]] = 0
      BY <1>4, <1>5, <1>9, <2>1, <2>2, <3>1
    <3> QED BY <1>8, <3>1, <3>2 DEF OInv, L
  <2>3. CASE i + 1 = p
    <3>1. tq'[i + 1] = t
      BY <1>4, <2>1, <2>3
    <3> QED BY <1>2, <1>9, <3>1
  <2>4. CASE i = p
    <3>1. tq'[i + 1] = tq[i] /\ tq'[i] = t
      <4>1. i + 1 > p /\ (i + 1) - 1 = i
        BY <2>1, <2>4
      <4> QED BY <1>4, <2>1, <2>4, <4>1
    <3> QED BY <1>7, <1>8, <3>1
  <2>5. CASE i > p
    <3>1. i + 1 > p /\ (i + 1) - 1 = i /\ i - 1 \in 1..(L - 1) /\ (i - 1) + 1 = i /\ i # p
      BY <1>3, <1>6, <2>1, <2>5
    <3>2. tq'[i + 1] = tq[i] /\ tq'[i] = tq[i - 1]
      BY <1>4, <2>1, <2>5, <3>1
    <3>3. delta[tq[i]] = 0
      BY <1>5, <1>9, <3>1, <3>2
    <3>4. Older(order, tq[i], tq[i - 1])
      BY <3>1, <3>3 DEF OInv, L
    <3> QED BY <1>8, <3>2, <3>4
  <2> QED BY <1>6, <2>1, <2>2, <2>3, <2>4, <2>5
<1>10. ASSUME clk' = "expire", ExpireDue', NEW j \in 1..Len(expired')
       PROVE  Older(order', tq'[1], expired'[j])
  <2>0. 1 \in 1..(L + 1)
    BY <1>3
  <2>1. p # 1
    <3>1. p = 1 => tq'[1] = t
      BY <1>4, <2>0
    <3> QED BY <1>2, <1>10, <3>1 DEF ExpireDue
  <2>2. 1 < p /\ 1 \in 1..L
    BY <1>3, <1>6, <2>1
  <2>3. tq'[1] = tq[1] /\ delta[tq[1]] = 0
    BY <1>4, <1>5, <1>10, <2>0, <2>1, <2>2 DEF ExpireDue
  <2>4. tq # <<>>
    BY <1>3, <2>2 DEF L
  <2>5. Older(order, tq[1], expired[j])
    BY <1>2, <1>10, <2>3, <2>4 DEF OInv, ExpireDue
  <2> QED BY <1>2, <1>8, <2>3, <2>5
<1>11. Unhandled' = Unhandled
  BY <1>2 DEF Unhandled
<1>12. \A i, j \in 1..Len(Unhandled') : i < j => Older(order', Unhandled'[i], Unhandled'[j])
  BY <1>8, <1>11 DEF OInv
<1>13. (Len(tq) - 1)' = L
  BY <1>3, <1>4
<1> QED BY <1>8, <1>9, <1>10, <1>12, <1>13 DEF OInv

\* aborting keeps the order: what comes together is between the same two
LEMMA OAbort ==
    ASSUME QInv, OInv, NEW t \in Timeouts, abort_timeout(t)
    PROVE  OInv'
<1>1. PICK p \in 1..Len(tq) : Aborted(t, p)
  BY AbortEffect
<1> DEFINE L == Len(tq)
<1>2. /\ delta[t] \in Nat /\ tq[p] = t
      /\ tq' = RemoveAt(tq, p)
      /\ delta'[t] = INACTIVE
      /\ p < L => delta'[tq[p + 1]] = delta[tq[p + 1]] + delta[t]
      /\ \A u \in Timeouts : u # t /\ (p < L => u # tq[p + 1]) => delta'[u] = delta[u]
      /\ clk' = clk /\ expired' = expired /\ next' = next
      /\ order' = RemoveFirst(order, t)
  BY <1>1 DEF Aborted
<1>3. /\ L \in Nat /\ delta \in [Timeouts -> Int] /\ tq \in Seq(Timeouts)
      /\ \A i \in 1..L : tq[i] \in Timeouts /\ delta[tq[i]] \in Nat
      /\ \A i, j \in 1..L : tq[i] = tq[j] => i = j
  BY QueueFacts DEF QInv
<1>4. p \in Nat /\ p \in 1..L
  BY <1>3
<1>5. /\ Len(tq') = L - 1
      /\ \A j \in 1..(L - 1) : /\ j < p => tq'[j] = tq[j]
                               /\ j >= p => tq'[j] = tq[j + 1]
  <2>1. /\ Len(RemoveAt(tq, p)) = L - 1
        /\ \A j \in 1..(L - 1) :
              RemoveAt(tq, p)[j] = IF j < p THEN tq[j] ELSE tq[j + 1]
    BY <1>3, RemoveAtProps
  <2>2. tq' = RemoveAt(tq, p)
    BY <1>2
  <2> HIDE DEF L
  <2> QED BY <1>3, <1>4, <2>1, <2>2
<1> HIDE DEF L
<1>6. \A i \in 1..L : i # p /\ i # p + 1 => delta'[tq[i]] = delta[tq[i]]
  <2> SUFFICES ASSUME NEW i \in 1..L, i # p, i # p + 1 PROVE delta'[tq[i]] = delta[tq[i]]
    OBVIOUS
  <2>1. tq[i] \in Timeouts /\ tq[i] # t
    BY <1>2, <1>3, <1>4
  <2>2. p < L => p + 1 \in 1..L
    BY <1>3, <1>4
  <2>3. p < L => tq[i] # tq[p + 1]
    BY <1>3, <2>2
  <2> QED BY <1>2, <2>1, <2>3
<1>7. Active' = Active \ {t} /\ t \in Active
  <2>1. \A u \in Timeouts : delta'[u] # INACTIVE <=> (delta[u] # INACTIVE /\ u # t)
    <3> SUFFICES ASSUME NEW u \in Timeouts, u # t
                 PROVE  delta'[u] # INACTIVE <=> delta[u] # INACTIVE
      BY <1>2
    <3>1. CASE p < L /\ u = tq[p + 1]
      <4>1. p + 1 \in 1..L
        BY <1>3, <1>4, <3>1
      <4>2. delta[u] \in Nat /\ delta'[u] = delta[u] + delta[t]
        BY <1>2, <1>3, <3>1, <4>1
      <4> QED BY <1>2, <4>2 DEF INACTIVE
    <3>2. CASE ~(p < L /\ u = tq[p + 1])
      BY <1>2, <3>2
    <3> QED BY <3>1, <3>2
  <2> QED BY <1>2, <2>1 DEF Active, INACTIVE
<1>8. /\ Lists(order', Active')
      /\ \A a, b : Older(order, a, b) /\ a # t /\ b # t => Older(order', a, b)
      /\ \A a, b, c : Older(order, a, b) /\ Older(order, b, c) => Older(order, a, c)
  <2> DEFINE S == Active
  <2>1. Lists(order, S) /\ t \in S
    BY <1>7 DEF OInv
  <2> HIDE DEF S
  <2>2. /\ Lists(RemoveFirst(order, t), S \ {t})
        /\ \A a, b : Older(order, a, b) /\ a # t /\ b # t => Older(RemoveFirst(order, t), a, b)
    BY <2>1, OlderRemove
  <2>3. \A a, b, c : Older(order, a, b) /\ Older(order, b, c) => Older(order, a, c)
    BY <2>1, OlderFacts
  <2> QED BY <1>2, <1>7, <2>2, <2>3 DEF S
<1>9. ASSUME p < L, delta'[tq[p + 1]] = 0
      PROVE  delta[tq[p + 1]] = 0 /\ delta[t] = 0 /\ Older(order, tq[p + 1], t)
  <2>1. p + 1 \in 1..L /\ p \in 1..(L - 1)
    BY <1>3, <1>4, <1>9
  <2>2. delta[tq[p + 1]] = 0 /\ delta[t] = 0
    BY <1>2, <1>3, <1>9, <2>1
  <2> QED BY <1>2, <2>1, <2>2 DEF OInv, L
<1>10. ASSUME NEW i \in 1..(L - 2), delta'[tq'[i + 1]] = 0
       PROVE  Older(order', tq'[i + 1], tq'[i])
  <2>1. i + 1 \in 1..(L - 1) /\ i \in 1..(L - 1) /\ i \in Nat /\ i \in 1..L /\ i + 1 \in 1..L
        /\ i + 2 \in 1..L
    BY <1>3
  <2>2. CASE i + 1 < p
    <3>1. i + 1 # p /\ i < p /\ i + 1 # p + 1
      BY <1>4, <2>1, <2>2
    <3>2. tq'[i + 1] = tq[i + 1] /\ tq'[i] = tq[i] /\ delta[tq[i + 1]] = 0
      BY <1>5, <1>6, <1>10, <2>1, <2>2, <3>1
    <3>3. tq[i + 1] # t /\ tq[i] # t
      BY <1>2, <1>3, <1>4, <2>1, <3>1
    <3>4. Older(order, tq[i + 1], tq[i])
      BY <2>1, <3>2 DEF OInv, L
    <3> QED BY <1>8, <3>2, <3>3, <3>4
  <2>3. CASE i + 1 = p
    <3>1. p < L /\ p + 1 \in 1..L /\ i < p /\ p # i /\ p # p + 1
      BY <1>3, <1>4, <2>1, <2>3
    <3>2. tq'[i + 1] = tq[p + 1] /\ tq'[i] = tq[i]
      BY <1>4, <1>5, <2>1, <2>3, <3>1
    <3>3. delta[t] = 0 /\ Older(order, tq[p + 1], t)
      BY <1>9, <1>10, <3>1, <3>2
    <3>4. Older(order, t, tq[i])
      BY <1>2, <2>1, <2>3, <3>3 DEF OInv, L
    <3>5. tq[p + 1] # t /\ tq[i] # t
      BY <1>2, <1>3, <1>4, <2>1, <3>1
    <3> QED BY <1>8, <3>2, <3>3, <3>4, <3>5
  <2>4. CASE i >= p
    <3>1. i + 1 >= p /\ (i + 1) + 1 = i + 2 /\ i + 2 # p /\ i + 2 # p + 1 /\ i + 1 # p
      BY <1>4, <2>1, <2>4
    <3>2. tq'[i + 1] = tq[i + 2] /\ tq'[i] = tq[i + 1]
      BY <1>5, <2>1, <2>4, <3>1
    <3>3. delta[tq[i + 2]] = 0
      BY <1>6, <1>10, <2>1, <3>1, <3>2
    <3>4. Older(order, tq[i + 2], tq[i + 1])
      BY <2>1, <3>1, <3>3 DEF OInv, L
    <3>5. tq[i + 2] # t /\ tq[i + 1] # t
      BY <1>2, <1>3, <1>4, <2>1, <3>1
    <3> QED BY <1>8, <3>2, <3>4, <3>5
  <2> QED BY <1>4, <2>1, <2>2, <2>3, <2>4
<1>11. /\ Unhandled' = Unhandled
       /\ \A i \in 1..Len(Unhandled) : Unhandled[i] # t
  <2>1. Unhandled \in Seq(Expired)
    BY DEF QInv, Lists
  <2>2. \A i \in 1..Len(Unhandled) : Unhandled[i] \in Expired
    BY <2>1
  <2>3. t \notin Expired
    BY <1>2 DEF Expired, EXPIRED
  <2>4. Unhandled' = Unhandled
    BY <1>2 DEF Unhandled
  <2> QED BY <2>2, <2>3, <2>4
<1>12. ASSUME clk' = "expire", ExpireDue', NEW j \in 1..Len(expired')
       PROVE  Older(order', tq'[1], expired'[j])
  <2>1. 1 \in 1..(L - 1) /\ 1 \in 1..L /\ 2 \in 1..L /\ tq # <<>>
    <3>1. tq' \in Seq(Timeouts)
      <4>1. RemoveAt(tq, p) \in Seq(Timeouts)
        BY <1>3, RemoveAtProps DEF L
      <4> QED BY <1>2, <4>1
    <3>2. tq' # <<>>
      BY <1>12 DEF ExpireDue
    <3>3. Len(tq') >= 1
      BY <3>1, <3>2
    <3>4. L >= 2
      BY <1>3, <1>5, <3>3
    <3> QED BY <1>3, <3>4 DEF L
  <2>2. clk = "expire" /\ delta'[tq'[1]] = 0 /\ expired' = expired
    BY <1>2, <1>12 DEF ExpireDue
  <2>3. Unhandled = expired
    BY <2>2 DEF QInv, Unhandled
  <2>4. expired[j] # t /\ j \in 1..Len(expired)
    BY <1>11, <2>2, <2>3
  <2>5. CASE p = 1
    <3>1. tq'[1] = tq[2] /\ p < L /\ p + 1 = 2
      BY <1>3, <1>5, <2>1, <2>5
    <3>2. delta[t] = 0 /\ Older(order, tq[2], t)
      BY <1>9, <2>2, <3>1
    <3>3. Older(order, t, expired[j])
      BY <1>2, <2>1, <2>2, <2>4, <2>5, <3>2 DEF OInv, ExpireDue
    <3>4. tq[2] # t
      BY <1>2, <1>3, <2>1, <2>5
    <3> QED BY <1>8, <2>2, <2>4, <3>1, <3>2, <3>3, <3>4
  <2>6. CASE p # 1
    <3>1. 1 < p /\ 1 # p + 1 /\ tq'[1] = tq[1]
      BY <1>4, <1>5, <2>1, <2>6
    <3>2. delta[tq[1]] = 0 /\ tq[1] # t
      BY <1>2, <1>3, <1>4, <1>6, <2>1, <2>2, <2>6, <3>1
    <3>3. Older(order, tq[1], expired[j])
      BY <2>1, <2>2, <2>4, <3>2 DEF OInv, ExpireDue
    <3> QED BY <1>8, <2>2, <2>4, <3>1, <3>2, <3>3
  <2> QED BY <2>5, <2>6
<1>13. \A i, j \in 1..Len(Unhandled') : i < j => Older(order', Unhandled'[i], Unhandled'[j])
  BY <1>8, <1>11 DEF OInv
<1>14. (Len(tq) - 1)' = L - 2
  BY <1>3, <1>5
<1> QED BY <1>8, <1>10, <1>12, <1>13, <1>14 DEF OInv

\* only the first delta changes when ticks are announced
LEMMA OAnnounce ==
    ASSUME QInv, OInv, NEW n \in 1..MaxTicks, announce(n)
    PROVE  OInv'
<1>1. /\ clk = "off" /\ tq # <<>> /\ n <= delta[tq[1]] /\ tq' = tq
      /\ delta' = [delta EXCEPT ![tq[1]] = @ - n]
      /\ expired' = expired /\ next' = next /\ order' = order
  BY DEF announce
<1>2. /\ Len(tq) \in Nat /\ tq \in Seq(Timeouts) /\ delta \in [Timeouts -> Int]
      /\ \A i \in 1..Len(tq) : tq[i] \in Timeouts /\ delta[tq[i]] \in Nat
      /\ \A i, j \in 1..Len(tq) : tq[i] = tq[j] => i = j
      /\ n \in Nat
  BY QueueFacts, TimeoutQAssumption DEF QInv
<1>3. 1 \in 1..Len(tq)
  BY <1>1, <1>2
<1>4. /\ delta'[tq[1]] = delta[tq[1]] - n
      /\ \A u \in Timeouts : u # tq[1] => delta'[u] = delta[u]
  BY <1>1, <1>2, <1>3
<1>5. Active' = Active
  <2>1. \A u \in Timeouts : delta'[u] # INACTIVE <=> delta[u] # INACTIVE
    BY <1>1, <1>2, <1>3, <1>4 DEF INACTIVE
  <2> QED BY <2>1 DEF Active
<1>6. expired' = <<>> /\ Unhandled' = <<>>
  BY <1>1 DEF QInv, Unhandled
<1>7. ASSUME NEW i \in 1..(Len(tq) - 1), delta'[tq[i + 1]] = 0
      PROVE  Older(order, tq[i + 1], tq[i])
  <2>1. i + 1 \in 1..Len(tq) /\ i + 1 # 1
    BY <1>2
  <2>2. tq[i + 1] # tq[1] /\ tq[i + 1] \in Timeouts
    BY <1>2, <1>3, <2>1
  <2>3. delta[tq[i + 1]] = 0
    BY <1>4, <1>7, <2>2
  <2> QED BY <2>3 DEF OInv
<1>8. Lists(order', Active')
  BY <1>1, <1>5 DEF OInv
<1>9. \A j \in 1..Len(expired') : FALSE
  BY <1>6
<1>10. \A j \in 1..Len(Unhandled') : FALSE
  BY <1>6
<1> QED BY <1>1, <1>7, <1>8, <1>9, <1>10 DEF OInv

\* the first of the queue goes in front of the expired ones, all of them younger
LEMMA OExpire ==
    ASSUME QInv, OInv, expire_one
    PROVE  OInv'
<1>1. /\ clk = "expire" /\ ExpireDue /\ tq # <<>> /\ delta[tq[1]] = 0 /\ tq' = Tail(tq)
      /\ delta' = [delta EXCEPT ![tq[1]] = EXPIRED]
      /\ expired' = <<tq[1]>> \o expired
      /\ clk' = clk /\ next' = next /\ order' = order
  BY DEF expire_one, ExpireDue
<1>2. /\ Len(tq) \in Nat /\ tq \in Seq(Timeouts) /\ delta \in [Timeouts -> Int]
      /\ \A i \in 1..Len(tq) : tq[i] \in Timeouts /\ delta[tq[i]] \in Nat
      /\ \A i, j \in 1..Len(tq) : tq[i] = tq[j] => i = j
      /\ expired \in Seq(Timeouts) /\ Len(expired) \in Nat
  BY QueueFacts DEF QInv
<1>3. /\ 1 \in 1..Len(tq) /\ Len(tq') = Len(tq) - 1
      /\ \A j \in 1..(Len(tq) - 1) : tq'[j] = tq[j + 1]
  BY <1>1, <1>2, HeadTailProperties
<1>4. /\ delta'[tq[1]] = EXPIRED
      /\ \A u \in Timeouts : u # tq[1] => delta'[u] = delta[u]
  BY <1>1, <1>2, <1>3
<1>5. Active' = Active
  <2>1. \A u \in Timeouts : delta'[u] # INACTIVE <=> delta[u] # INACTIVE
    BY <1>1, <1>4 DEF INACTIVE, EXPIRED
  <2> QED BY <2>1 DEF Active
<1>6. Lists(order, Active) /\ Lists(order', Active')
  BY <1>1, <1>5 DEF OInv
<1>7. Unhandled = expired /\ Unhandled' = expired'
  BY <1>1 DEF QInv, Unhandled
<1>8. /\ Len(expired') = Len(expired) + 1 /\ expired'[1] = tq[1]
      /\ \A j \in 1..Len(expired') :
            j # 1 => j - 1 \in 1..Len(expired) /\ expired'[j] = expired[j - 1]
  <2>0. tq[1] \in Timeouts
    BY <1>2, <1>3
  <2>1. <<tq[1]>> \in Seq(Timeouts) /\ Len(<<tq[1]>>) = 1 /\ <<tq[1]>>[1] = tq[1]
    BY <2>0
  <2> DEFINE e == <<tq[1]>>
  <2>2. e \in Seq(Timeouts) /\ Len(e) = 1 /\ e[1] = tq[1]
    BY <2>1
  <2> HIDE DEF e
  <2>3. /\ Len(e \o expired) = Len(e) + Len(expired)
        /\ \A j \in 1..(Len(e) + Len(expired)) :
              (e \o expired)[j] = IF j <= Len(e) THEN e[j] ELSE expired[j - Len(e)]
    <3>1. e \in Seq(Timeouts) /\ expired \in Seq(Timeouts)
      BY <1>2, <2>2
    <3> QED BY ONLY <3>1, ConcatProperties
  <2>4. expired' = e \o expired
    BY <1>1 DEF e
  <2> QED BY <1>2, <2>2, <2>3, <2>4
<1>9. \A j \in 1..Len(expired) : Older(order, tq[1], expired[j])
  BY <1>1 DEF OInv
<1>10. ASSUME NEW i \in 1..(Len(tq) - 2), delta'[tq'[i + 1]] = 0
       PROVE  Older(order, tq'[i + 1], tq'[i])
  <2>1. /\ i \in 1..(Len(tq) - 1) /\ i + 1 \in 1..(Len(tq) - 1)
        /\ (i + 1) + 1 \in 1..Len(tq) /\ (i + 1) + 1 # 1
    BY <1>2
  <2>2. tq'[i] = tq[i + 1] /\ tq'[i + 1] = tq[(i + 1) + 1]
    BY <1>3, <2>1
  <2>3. tq[(i + 1) + 1] # tq[1] /\ tq[(i + 1) + 1] \in Timeouts
    BY <1>2, <1>3, <2>1
  <2>4. delta[tq[(i + 1) + 1]] = 0
    BY <1>4, <1>10, <2>2, <2>3
  <2> DEFINE m == i + 1
  <2>5. m \in 1..(Len(tq) - 1) /\ delta[tq[m + 1]] = 0
    BY <2>1, <2>4
  <2> HIDE DEF m
  <2>6. Older(order, tq[m + 1], tq[m])
    BY <2>5 DEF OInv
  <2> QED BY <2>2, <2>6 DEF m
<1>11. ASSUME ExpireDue', NEW j \in 1..Len(expired')
       PROVE  Older(order, tq'[1], expired'[j])
  <2>1. 1 \in 1..(Len(tq) - 1) /\ 2 \in 1..Len(tq)
    <3>1. tq' \in Seq(Timeouts)
      BY <1>1, <1>2
    <3>2. tq' # <<>>
      BY <1>11 DEF ExpireDue
    <3>3. Len(tq') >= 1
      BY <3>1, <3>2
    <3> QED BY <1>2, <1>3, <3>3
  <2>2. tq'[1] = tq[2] /\ delta'[tq'[1]] = 0
    BY <1>3, <1>11, <2>1 DEF ExpireDue
  <2>3. tq[2] \in Timeouts /\ tq[2] # tq[1]
    BY <1>2, <1>3, <2>1
  <2>4. delta[tq[2]] = 0
    BY <1>4, <2>2, <2>3
  <2>5. Older(order, tq[2], tq[1])
    <3>1. 1 + 1 = 2
      OBVIOUS
    <3> QED BY <2>1, <2>4, <3>1 DEF OInv
  <2>6. CASE j = 1
    BY <1>8, <2>2, <2>5, <2>6
  <2>7. CASE j # 1
    <3>1. j - 1 \in 1..Len(expired) /\ expired'[j] = expired[j - 1]
      BY <1>8, <2>7
    <3>2. Older(order, tq[1], expired[j - 1])
      BY <1>9, <3>1
    <3> DEFINE S == Active
    <3>3. Lists(order, S)
      BY <1>6
    <3> HIDE DEF S
    <3>4. Older(order, tq[2], expired[j - 1])
      BY <2>5, <3>2, <3>3, OlderFacts
    <3> QED BY <2>2, <3>1, <3>4
  <2> QED BY <2>6, <2>7
<1>12. ASSUME NEW i \in 1..Len(expired'), NEW j \in 1..Len(expired'), i < j
       PROVE  Older(order, expired'[i], expired'[j])
  <2>1. j # 1 /\ i \in Int /\ j \in Int
    BY <1>2, <1>8, <1>12
  <2>2. j - 1 \in 1..Len(expired) /\ expired'[j] = expired[j - 1]
    BY <1>8, <2>1
  <2>3. CASE i = 1
    BY <1>8, <1>9, <2>2, <2>3
  <2>4. CASE i # 1
    <3>1. i - 1 \in 1..Len(expired) /\ expired'[i] = expired[i - 1] /\ i - 1 < j - 1
      BY <1>8, <1>12, <2>1, <2>4
    <3>2. Older(order, expired[i - 1], expired[j - 1])
      BY <1>7, <2>2, <3>1 DEF OInv
    <3> QED BY <2>2, <3>1, <3>2
  <2> QED BY <2>3, <2>4
<1>13. (Len(tq) - 1)' = Len(tq) - 2
  BY <1>2, <1>3
<1>14. \A i, j \in 1..Len(Unhandled') : i < j => Older(order', Unhandled'[i], Unhandled'[j])
  BY <1>1, <1>7, <1>12
<1> QED BY <1>1, <1>6, <1>10, <1>11, <1>13, <1>14 DEF OInv

\* the first expired timeout is the oldest, and the others keep their order
LEMMA OHandle ==
    ASSUME QInv, OInv, handle_one
    PROVE  OInv' /\ \A u \in Expired : u # next => Older(order, next, u)
<1>1. /\ clk = "handle" /\ clk' = clk /\ tq' = tq
      /\ delta' = [delta EXCEPT ![next] = INACTIVE]
      /\ order' = RemoveFirst(order, next)
  BY DEF handle_one
<1>2. /\ next \in Timeouts /\ delta[next] = EXPIRED
      /\ Unhandled = <<next>> \o expired /\ Unhandled' = expired
  BY QHandleOne
<1>3. /\ Len(tq) \in Nat /\ delta \in [Timeouts -> Int]
      /\ \A i \in 1..Len(tq) : tq[i] \in Timeouts /\ delta[tq[i]] \in Nat
      /\ expired \in Seq(Timeouts) /\ Len(expired) \in Nat
  BY QueueFacts DEF QInv
<1>4. /\ delta'[next] = INACTIVE
      /\ \A u \in Timeouts : u # next => delta'[u] = delta[u]
  BY <1>1, <1>2, <1>3
<1>5. /\ Len(Unhandled) = Len(expired) + 1 /\ Unhandled[1] = next
      /\ \A j \in 1..Len(expired) :
            /\ j + 1 \in 1..Len(Unhandled) /\ Unhandled[j + 1] = expired[j]
  <2> DEFINE e == <<next>>
  <2>1. e \in Seq(Timeouts) /\ Len(e) = 1 /\ e[1] = next
    BY <1>2
  <2> HIDE DEF e
  <2>2. /\ Len(e \o expired) = Len(e) + Len(expired)
        /\ \A j \in 1..(Len(e) + Len(expired)) :
              (e \o expired)[j] = IF j <= Len(e) THEN e[j] ELSE expired[j - Len(e)]
    <3>1. e \in Seq(Timeouts) /\ expired \in Seq(Timeouts)
      BY <1>3, <2>1
    <3> QED BY ONLY <3>1, ConcatProperties
  <2>3. Unhandled = e \o expired
    BY <1>2 DEF e
  <2>4. Len(Unhandled) = Len(expired) + 1 /\ Unhandled[1] = next
    BY <1>3, <2>1, <2>2, <2>3
  <2>5. ASSUME NEW j \in 1..Len(expired)
        PROVE  j + 1 \in 1..Len(Unhandled) /\ Unhandled[j + 1] = expired[j]
    <3>1. /\ j + 1 \in 1..(Len(e) + Len(expired)) /\ ~(j + 1 <= Len(e))
          /\ (j + 1) - Len(e) = j /\ j + 1 \in 1..Len(Unhandled)
      BY <1>3, <2>1, <2>4
    <3>2. (e \o expired)[j + 1] = expired[(j + 1) - Len(e)]
      BY <2>2, <3>1
    <3> QED BY <2>3, <3>1, <3>2
  <2> QED BY <2>4, <2>5
<1>6. \A j \in 1..Len(expired) : expired[j] # next
  <2>1. \A i, j \in 1..Len(Unhandled) : Unhandled[i] = Unhandled[j] => i = j
    BY DEF QInv, Lists
  <2> SUFFICES ASSUME NEW j \in 1..Len(expired), expired[j] = next PROVE FALSE
    OBVIOUS
  <2>2. j + 1 \in 1..Len(Unhandled) /\ 1 \in 1..Len(Unhandled) /\ j + 1 # 1
    BY <1>3, <1>5
  <2> QED BY <1>5, <2>1, <2>2
<1>7. Active' = Active \ {next} /\ next \in Active
  <2>1. \A u \in Timeouts : delta'[u] # INACTIVE <=> (delta[u] # INACTIVE /\ u # next)
    BY <1>4
  <2> QED BY <1>2, <2>1 DEF Active, INACTIVE, EXPIRED
<1>8. /\ Lists(order', Active')
      /\ \A a, b : Older(order, a, b) /\ a # next /\ b # next => Older(order', a, b)
  <2> DEFINE S == Active
             h == next
  <2>1. Lists(order, S) /\ h \in S
    BY <1>7 DEF OInv
  <2> HIDE DEF S, h
  <2>2. /\ Lists(RemoveFirst(order, h), S \ {h})
        /\ \A a, b : Older(order, a, b) /\ a # h /\ b # h => Older(RemoveFirst(order, h), a, b)
    BY <2>1, OlderRemove
  <2> QED BY <1>1, <1>7, <2>2 DEF S, h
<1>9. ASSUME NEW i \in 1..(Len(tq) - 1), delta'[tq[i + 1]] = 0
      PROVE  Older(order', tq[i + 1], tq[i])
  <2>1. i \in 1..Len(tq) /\ i + 1 \in 1..Len(tq)
    BY <1>3
  <2>2. tq[i] # next /\ tq[i + 1] # next /\ tq[i + 1] \in Timeouts
    BY <1>2, <1>3, <2>1 DEF EXPIRED
  <2>3. delta[tq[i + 1]] = 0
    BY <1>4, <1>9, <2>2
  <2>4. Older(order, tq[i + 1], tq[i])
    BY <2>3 DEF OInv
  <2> QED BY <1>8, <2>2, <2>4
<1>10. ASSUME NEW i \in 1..Len(expired), NEW j \in 1..Len(expired), i < j
       PROVE  Older(order', expired[i], expired[j])
  <2>1. i + 1 < j + 1
    BY <1>3, <1>10
  <2>2. Older(order, expired[i], expired[j])
    <3> DEFINE x == i + 1
               y == j + 1
    <3>1. x \in 1..Len(Unhandled) /\ y \in 1..Len(Unhandled) /\ x < y
          /\ Unhandled[x] = expired[i] /\ Unhandled[y] = expired[j]
      BY <1>5, <2>1
    <3> HIDE DEF x, y
    <3>2. Older(order, Unhandled[x], Unhandled[y])
      BY <3>1 DEF OInv
    <3> QED BY <3>1, <3>2
  <2> QED BY <1>6, <1>8, <2>2
<1>11. ASSUME NEW u \in Expired, u # next PROVE Older(order, next, u)
  <2>1. PICK y \in 1..Len(Unhandled) : Unhandled[y] = u
    BY DEF QInv, Lists
  <2>2. 1 \in 1..Len(Unhandled) /\ 1 < y
    <3>1. y # 1
      BY <1>5, <1>11, <2>1
    <3> QED BY <1>3, <1>5, <3>1
  <2>3. Older(order, Unhandled[1], Unhandled[y])
    BY <2>2 DEF OInv
  <2> QED BY <1>5, <2>1, <2>3
<1>12. \A i, j \in 1..Len(Unhandled') : i < j => Older(order', Unhandled'[i], Unhandled'[j])
  BY <1>2, <1>10
<1>13. OInv'
  BY <1>1, <1>8, <1>9, <1>12 DEF OInv
<1> QED BY <1>11, <1>13

\* every step keeps the order
LEMMA ONext ==
    ASSUME QInv, OInv, Next
    PROVE  OInv'
<1>1. CASE \E n \in 1..MaxTicks : announce(n)
  BY <1>1, OAnnounce
<1>2. CASE expire_one
  BY <1>2, OExpire
<1>3. CASE expire_done
  <2>1. clk' = "handle" /\ tq' = tq /\ delta' = delta /\ order' = order
    BY <1>3 DEF expire_done
  <2>2. Unhandled' = Unhandled /\ Active' = Active
    BY <1>3, <2>1, QExpireDone DEF Active
  <2> QED BY <2>1, <2>2 DEF OInv
<1>4. CASE handle_one
  BY <1>4, OHandle
<1>5. CASE handle_done
  <2>1. /\ clk' = "off" /\ tq' = tq /\ delta' = delta /\ order' = order
        /\ expired' = expired /\ next' = next
    BY <1>5 DEF handle_done
  <2>2. Unhandled' = Unhandled /\ Active' = Active
    BY <2>1 DEF Active, Unhandled
  <2> QED BY <2>1, <2>2 DEF OInv
<1>6. CASE \E t \in Timeouts : abort_timeout(t)
  BY <1>6, OAbort
<1>7. CASE \E t \in Timeouts, n \in 1..MaxTicks : add_timeout(t, n)
  BY <1>7, OAdd
<1> QED BY <1>1, <1>2, <1>3, <1>4, <1>5, <1>6, <1>7 DEF Next, Clock

(***************************************************************************)
(* Timeouts are handled in the order they were added among those that fall *)
(* due together: OInv holds in every reachable state.                      *)
(***************************************************************************)
THEOREM OrderInvariant == Spec => []OInv
<1>1. Init => OInv
  <2> SUFFICES ASSUME Init PROVE OInv
    OBVIOUS
  <2>1. Active = {} /\ order = <<>> /\ tq = <<>> /\ Unhandled = <<>> /\ clk = "off"
    BY DEF Init, Active, Unhandled
  <2>2. Lists(<<>>, {})
    BY DEF Lists
  <2>3. Len(tq) = 0 /\ Len(Unhandled) = 0
    BY <2>1
  <2>4. Lists(order, Active)
    BY <2>1, <2>2
  <2> QED BY <2>1, <2>3, <2>4 DEF OInv
<1>2. QInv /\ OInv /\ [Next]_vars => OInv'
  <2> SUFFICES ASSUME QInv, OInv, [Next]_vars PROVE OInv'
    OBVIOUS
  <2>1. CASE UNCHANGED vars
    <3>1. Active' = Active /\ Unhandled' = Unhandled /\ ExpireDue' = ExpireDue
      BY <2>1 DEF vars, Active, Unhandled, ExpireDue
    <3> QED BY <2>1, <3>1 DEF vars, OInv
  <2> QED BY <2>1, ONext
<1> QED BY <1>1, <1>2, QInvariant, PTL DEF Spec

\* AbsTimeouts and TimeoutQ remove from the order alike
LEMMA AbsRemoveFirst ==
    ASSUME NEW s, NEW e
    PROVE  Abs!RemoveFirst(s, e) = RemoveFirst(s, e)
BY Zenon DEF Abs!RemoveFirst, Abs!RemoveAt, Abs!SelectInSeq, Abs!Min,
             RemoveFirst, RemoveAt, SelectInSeq, Min

(***************************************************************************)
(* The clock interrupt handles the oldest of the timeouts that are due.    *)
(***************************************************************************)
LEMMA FiresOldest ==
    ASSUME QInv, QInv', OInv, handle_one
    PROVE  \E t \in Timeouts : Abs!Fire(t)
<1>1. /\ clk = "handle" /\ order' = RemoveFirst(order, next)
      /\ outcome' = [outcome EXCEPT ![next] = "fired"]
  BY DEF handle_one
<1>2. next \in Timeouts /\ dueMap[next] = 0 /\ dueMap' = [dueMap EXCEPT ![next] = -1]
  BY DueHandle
<1>3. ASSUME NEW i \in 1..Len(order), NEW j \in 1..Len(order), i < j, order[j] = next
      PROVE  dueMap[order[i]] # 0
  <2> DEFINE u == order[i]
             S == Active
  <2>1. Lists(order, S)
    BY DEF OInv
  <2>2. Older(order, u, next)
    BY <1>3 DEF Older
  <2>3. ~Older(order, next, u) /\ u \in S
    <3> DEFINE h == next
    <3>1. Older(order, u, h)
      BY <2>2
    <3> HIDE DEF S, u, h
    <3>2. ~Older(order, h, u) /\ u \in S
      BY <2>1, <3>1, OlderFacts
    <3> QED BY <3>2 DEF h
  <2> HIDE DEF u
  <2>4. u \in Timeouts /\ delta[u] # INACTIVE
    BY <2>3 DEF Active
  <2>5. delta[u] # EXPIRED
    <3>1. u # next
      BY <2>2, <2>3
    <3>2. \A v \in Expired : v # next => Older(order, next, v)
      BY OHandle
    <3> QED BY <2>3, <2>4, <3>1, <3>2 DEF Expired
  <2>6. Deltas(tq, delta) /\ dueMap = DueOf(tq, delta)
    BY DueMapIs
  <2>7. delta[u] >= 0
    BY <2>4, <2>5, <2>6 DEF Deltas
  <2>8. PICK m \in 1..Len(tq) : tq[m] = u
    BY <2>4, <2>7, QueueFacts
  <2>9. dueMap[u] = sums(tq, delta)[m]
    BY <2>6, <2>8, DueIs
  <2>10. sums(tq, delta)[m] >= delta[tq[1]]
    BY <2>6, SumsGrow
  <2>11. sums(tq, delta)[m] \in Nat
    <3>1. m \in 0..Len(tq)
      BY QueueFacts
    <3> QED BY <2>6, <3>1, SumsGrow
  <2>12. delta[tq[1]] \in Nat /\ delta[tq[1]] # 0
    <3>1. Len(tq) \in Nat /\ 1 \in 1..Len(tq)
      BY QueueFacts
    <3>2. tq # <<>> /\ delta[tq[1]] \in Nat
      BY <3>1, QueueFacts
    <3> QED BY <1>1, <3>2 DEF QInv, ExpireDue
  <2> QED BY <2>9, <2>10, <2>11, <2>12 DEF u
<1>4. \A i, j \in 1..Len(order) : i < j /\ order[j] = next => dueMap[order[i]] # 0
  BY <1>3
<1>5. Abs!Fire(next)
  BY <1>1, <1>2, <1>4, AbsRemoveFirst DEF Abs!Fire
<1> QED BY <1>2, <1>5

(***************************************************************************)
(* The delta list implements AbsTimeouts: a timeout fires once its ticks   *)
(* have been announced, unless it is aborted first, and the timeouts that  *)
(* fall due on one tick fire before the next one, oldest first.            *)
(***************************************************************************)
THEOREM TimeoutsRefine == Spec => Refines
<1>1. Init => Abs!Init
  <2> SUFFICES ASSUME Init PROVE Abs!Init
    OBVIOUS
  <2>1. dueMap = [t \in Timeouts |-> -1]
    BY DEF Init, dueMap
  <2> QED BY <2>1 DEF Init, Abs!Init
<1>2. QInv /\ QInv' /\ OInv /\ [Next]_vars => [Abs!Next]_<<dueMap, order, outcome>>
  <2> SUFFICES ASSUME QInv, QInv', OInv, [Next]_vars
               PROVE  [Abs!Next]_<<dueMap, order, outcome>>
    OBVIOUS
  <2>1. CASE \E n \in 1..MaxTicks : announce(n)
    <3>1. PICK n \in 1..MaxTicks : announce(n)
      BY <2>1
    <3>2. /\ \A t \in Timeouts : dueMap[t] = -1 \/ dueMap[t] >= n
          /\ dueMap' = [t \in Timeouts |-> IF dueMap[t] = -1 THEN -1 ELSE dueMap[t] - n]
      BY <3>1, DueAnnounce
    <3>3. order' = order /\ outcome' = outcome
      BY <3>1 DEF announce
    <3>4. Abs!Announce(n)
      BY <3>2, <3>3 DEF Abs!Announce
    <3> QED BY <3>4 DEF Abs!Next
  <2>2. CASE expire_one
    <3>1. dueMap' = dueMap
      BY <2>2, DueExpire
    <3>2. order' = order /\ outcome' = outcome
      BY <2>2 DEF expire_one
    <3> QED BY <3>1, <3>2
  <2>3. CASE expire_done \/ handle_done \/ UNCHANGED vars
    <3>1. tq' = tq /\ delta' = delta /\ order' = order /\ outcome' = outcome
      BY <2>3 DEF expire_done, handle_done, vars
    <3>2. dueMap = DueOf(tq, delta) /\ dueMap' = DueOf(tq', delta')
      BY DueMapIs
    <3> QED BY <3>1, <3>2
  <2>4. CASE handle_one
    <3>1. \E t \in Timeouts : Abs!Fire(t)
      BY <2>4, FiresOldest
    <3> QED BY <3>1 DEF Abs!Next
  <2>5. CASE \E t \in Timeouts : abort_timeout(t)
    <3>1. PICK t \in Timeouts : abort_timeout(t)
      BY <2>5
    <3>2. dueMap[t] >= 0 /\ dueMap' = [dueMap EXCEPT ![t] = -1]
      BY <3>1, DueAbort
    <3>3. order' = RemoveFirst(order, t) /\ outcome' = [outcome EXCEPT ![t] = "aborted"]
      BY <3>1 DEF abort_timeout
    <3>4. Abs!Abort(t)
      BY <3>2, <3>3, AbsRemoveFirst DEF Abs!Abort
    <3> QED BY <3>4 DEF Abs!Next
  <2>6. CASE \E t \in Timeouts, n \in 1..MaxTicks : add_timeout(t, n)
    <3>1. PICK t \in Timeouts, n \in 1..MaxTicks : add_timeout(t, n)
      BY <2>6
    <3>2. dueMap[t] = -1 /\ dueMap' = [dueMap EXCEPT ![t] = n]
      BY <3>1, DueAdd
    <3>3. order' = Append(order, t) /\ outcome' = [outcome EXCEPT ![t] = "none"]
      BY <3>1 DEF add_timeout
    <3>4. Abs!Add(t, n)
      BY <3>2, <3>3 DEF Abs!Add
    <3> QED BY <3>4 DEF Abs!Next
  <2> QED BY <2>1, <2>2, <2>3, <2>4, <2>5, <2>6 DEF Next, Clock
<1> QED BY <1>1, <1>2, QInvariant, OrderInvariant, PTL DEF Spec, Refines, Abs!Spec
=============================================================================
