----------------------------- MODULE ListProofs -----------------------------
(***************************************************************************)
(* Lemmas about the least element of a set of numbers and about sequences  *)
(* as the kernel's linked lists: what inserting and removing a node does   *)
(* to the others.                                                          *)
(***************************************************************************)
EXTENDS Integers, SequencesExt, SequenceTheorems, WellFoundedInduction, TLAPS

(***************************************************************************)
(* A non-empty set of naturals has a least element: what the bitmap search *)
(* of _get_highest_ready_prio() relies on.                                 *)
(***************************************************************************)
LEMMA NatMin ==
    ASSUME NEW S \in SUBSET Nat, S # {}
    PROVE  \E x \in S : \A y \in S : x <= y
<1> DEFINE R == OpToRel(<, Nat)
<1>1. IsWellFoundedOn(R, Nat)
  BY NatLessThanWellFounded
<1>2. \A u, v \in Nat : u < v => <<u, v>> \in R
  BY DEF OpToRel
<1> HIDE DEF R
<1>3. PICK x \in S : \A y \in S : ~(<<y, x>> \in R)
  BY <1>1, WFMin
<1>4. ASSUME NEW y \in S PROVE x <= y
  <2>1. ~(y < x)
    BY <1>2, <1>3
  <2> QED BY <2>1
<1> QED BY <1>4

(***************************************************************************)
(* What is left of a list when sys_dlist_remove() takes out its i-th node. *)
(***************************************************************************)
LEMMA RemoveAtProps ==
    ASSUME NEW T, NEW s \in Seq(T), NEW i \in 1..Len(s)
    PROVE  /\ RemoveAt(s, i) \in Seq(T)
           /\ Len(RemoveAt(s, i)) = Len(s) - 1
           /\ \A j \in 1..(Len(s) - 1) :
                 RemoveAt(s, i)[j] = IF j < i THEN s[j] ELSE s[j + 1]
<1> DEFINE a == SubSeq(s, 1, i - 1)
           b == SubSeq(s, i + 1, Len(s))
<1>0. Len(s) \in Nat /\ \A j \in 1..Len(s) : s[j] \in T
  BY LenProperties, ElementOfSeq
<1>1. /\ a \in Seq(T) /\ Len(a) = i - 1
      /\ \A j \in 1..(i - 1) : a[j] = s[j]
  BY <1>0, SubSeqProperties
<1>2. /\ b \in Seq(T) /\ Len(b) = Len(s) - i
      /\ \A j \in 1..(Len(s) - i) : b[j] = s[j + i]
  BY <1>0, SubSeqProperties
<1> HIDE DEF a, b
<1>3. RemoveAt(s, i) = a \o b
  BY DEF RemoveAt, a, b
<1>4. /\ a \o b \in Seq(T) /\ Len(a \o b) = Len(a) + Len(b)
      /\ \A j \in 1..(Len(a) + Len(b)) :
            (a \o b)[j] = IF j <= Len(a) THEN a[j] ELSE b[j - Len(a)]
  BY <1>1, <1>2, ConcatProperties
<1> QED BY <1>0, <1>1, <1>2, <1>3, <1>4

(***************************************************************************)
(* Min of a non-empty set of list positions.                               *)
(***************************************************************************)
LEMMA MinNat ==
    ASSUME NEW S \in SUBSET Nat, S # {}
    PROVE  Min(S) \in S /\ \A i \in S : Min(S) <= i
<1>1. PICK x \in S : \A y \in S : x <= y
  BY NatMin
<1> QED BY <1>1 DEF Min

(***************************************************************************)
(* A list with a node inserted before its i-th one.                        *)
(***************************************************************************)
LEMMA InsertAtProps ==
    ASSUME NEW T, NEW s \in Seq(T), NEW i \in 1..(Len(s) + 1), NEW e \in T
    PROVE  /\ InsertAt(s, i, e) \in Seq(T)
           /\ Len(InsertAt(s, i, e)) = Len(s) + 1
           /\ \A j \in 1..(Len(s) + 1) :
                 InsertAt(s, i, e)[j] = IF j < i THEN s[j]
                                        ELSE IF j = i THEN e ELSE s[j - 1]
<1> DEFINE a == SubSeq(s, 1, i - 1)
           b == SubSeq(s, i, Len(s))
           c == a \o <<e>>
<1>0. Len(s) \in Nat /\ \A j \in 1..Len(s) : s[j] \in T
  BY LenProperties, ElementOfSeq
<1>1. /\ a \in Seq(T) /\ Len(a) = i - 1
      /\ \A j \in 1..(i - 1) : a[j] = s[j]
  BY <1>0, SubSeqProperties
<1>2. /\ b \in Seq(T) /\ Len(b) = Len(s) - i + 1
      /\ \A j \in 1..(Len(s) - i + 1) : b[j] = s[j + i - 1]
  <2>1. CASE i <= Len(s)
    BY <1>0, <2>1, SubSeqProperties
  <2>2. CASE i = Len(s) + 1
    <3>1. b = <<>>
      BY <1>0, <2>2, SubSeqEmpty
    <3> QED BY <1>0, <2>2, <3>1
  <2> QED BY <1>0, <2>1, <2>2
<1>3. InsertAt(s, i, e) = c \o b
  BY DEF InsertAt
<1> HIDE DEF a, b
<1>4. <<e>> \in Seq(T) /\ Len(<<e>>) = 1 /\ <<e>>[1] = e
  OBVIOUS
<1>5. /\ c \in Seq(T) /\ Len(c) = i
      /\ \A j \in 1..i : c[j] = IF j < i THEN s[j] ELSE e
  <2>1. /\ c \in Seq(T) /\ Len(c) = Len(a) + Len(<<e>>)
        /\ \A j \in 1..(Len(a) + Len(<<e>>)) :
              c[j] = IF j <= Len(a) THEN a[j] ELSE <<e>>[j - Len(a)]
    BY <1>1, <1>4, ConcatProperties
  <2> HIDE DEF c
  <2>2. i \in Nat /\ Len(a) + Len(<<e>>) = i /\ Len(a) = i - 1
    BY <1>0, <1>1, <1>4
  <2>3. \A j \in 1..i : j < i => c[j] = s[j]
    BY <1>1, <2>1, <2>2
  <2>4. c[i] = e
    <3>1. i \in 1..(Len(a) + Len(<<e>>)) /\ ~(i <= Len(a)) /\ i - Len(a) = 1
      BY <2>2
    <3>2. c[i] = <<e>>[i - Len(a)]
      BY <2>1, <3>1
    <3> QED BY <1>4, <3>1, <3>2
  <2> QED BY <2>1, <2>2, <2>3, <2>4
<1> HIDE DEF c
<1>6. /\ c \o b \in Seq(T) /\ Len(c \o b) = Len(c) + Len(b)
      /\ \A j \in 1..(Len(c) + Len(b)) :
            (c \o b)[j] = IF j <= Len(c) THEN c[j] ELSE b[j - Len(c)]
  BY <1>2, <1>5, ConcatProperties
<1>7. Len(c) + Len(b) = Len(s) + 1
  BY <1>0, <1>2, <1>5
<1>8. ASSUME NEW j \in 1..(Len(s) + 1)
      PROVE  (c \o b)[j] = IF j < i THEN s[j] ELSE IF j = i THEN e ELSE s[j - 1]
  <2>1. CASE j <= i
    BY <1>0, <1>5, <1>6, <1>7, <2>1
  <2>2. CASE j > i
    <3>1. (c \o b)[j] = b[j - i]
      BY <1>0, <1>5, <1>6, <1>7, <2>2
    <3>2. j - i \in 1..(Len(s) - i + 1) /\ (j - i) + i - 1 = j - 1
      BY <1>0, <2>2
    <3> QED BY <1>2, <2>2, <3>1, <3>2
  <2>3. j <= i \/ j > i
    BY <1>0
  <2> QED BY <2>1, <2>2, <2>3
<1> QED BY <1>3, <1>6, <1>7, <1>8

(***************************************************************************)
(* Induction up to a number n, as a fact about the set S of the numbers    *)
(* that have the property.                                                 *)
(***************************************************************************)
LEMMA UpTo ==
    ASSUME NEW n \in Nat, NEW S, 0 \in S,
           \A i \in 0..(n - 1) : i \in S => i + 1 \in S
    PROVE  \A i \in 0..n : i \in S
<1> DEFINE B == {i \in 0..n : i \notin S}
<1>1. SUFFICES ASSUME B # {} PROVE FALSE
  OBVIOUS
<1>2. PICK x \in B : \A y \in B : x <= y
  <2>1. B \in SUBSET Nat
    OBVIOUS
  <2> HIDE DEF B
  <2> QED BY <1>1, <2>1, NatMin
<1>3. x \in 0..n /\ x # 0 /\ x \notin S
  OBVIOUS
<1>4. x - 1 \in 0..(n - 1) /\ x - 1 \in 0..n /\ ~(x <= x - 1) /\ (x - 1) + 1 = x
  BY <1>3
<1>5. x - 1 \in S
  BY <1>2, <1>4
<1> QED BY <1>3, <1>4, <1>5

(***************************************************************************)
(* A linked list s of exactly the elements of S, each once.                *)
(***************************************************************************)
Lists(s, S) ==
    /\ s \in Seq(S)
    /\ \A i, j \in 1..Len(s) : s[i] = s[j] => i = j
    /\ \A e \in S : \E i \in 1..Len(s) : s[i] = e

\* inserting a new element
LEMMA ListsInsert ==
    ASSUME NEW S, NEW s, Lists(s, S), NEW e, e \notin S, NEW p \in 1..(Len(s) + 1)
    PROVE  Lists(InsertAt(s, p, e), S \cup {e})
<1> DEFINE r == InsertAt(s, p, e)
           T == S \cup {e}
<1>1. s \in Seq(T) /\ e \in T /\ Len(s) \in Nat /\ \A i \in 1..Len(s) : s[i] \in S
  BY DEF Lists
<1>2. /\ r \in Seq(T) /\ Len(r) = Len(s) + 1
      /\ \A j \in 1..(Len(s) + 1) :
            r[j] = IF j < p THEN s[j] ELSE IF j = p THEN e ELSE s[j - 1]
  <2> HIDE DEF T
  <2> QED BY <1>1, InsertAtProps
<1> HIDE DEF r
<1>3. ASSUME NEW i \in 1..Len(r), NEW j \in 1..Len(r), r[i] = r[j] PROVE i = j
  <2>1. \A a \in 1..Len(r) : /\ a < p => a \in 1..Len(s) /\ r[a] = s[a]
                             /\ a = p => r[a] = e
                             /\ a > p => a - 1 \in 1..Len(s) /\ r[a] = s[a - 1]
    BY <1>1, <1>2
  <2>2. \A a, b \in 1..Len(s) : s[a] = s[b] => a = b
    BY DEF Lists
  <2>3. i \in Int /\ j \in Int /\ p \in Int
    BY <1>1, <1>2
  <2>4. /\ i < p => i \in 1..Len(s) /\ r[i] = s[i] /\ r[i] \in S
        /\ i = p => r[i] = e
        /\ i > p => i - 1 \in 1..Len(s) /\ r[i] = s[i - 1] /\ r[i] \in S
    BY <1>1, <2>1
  <2>5. /\ j < p => j \in 1..Len(s) /\ r[j] = s[j] /\ r[j] \in S
        /\ j = p => r[j] = e
        /\ j > p => j - 1 \in 1..Len(s) /\ r[j] = s[j - 1] /\ r[j] \in S
    BY <1>1, <2>1
  <2>6. CASE i = p
    <3>1. j = p
      BY ONLY <1>3, <2>3, <2>4, <2>5, <2>6, e \notin S
    <3> QED BY <2>6, <3>1
  <2>7. CASE i < p
    <3>1. j # p
      BY ONLY <1>3, <2>4, <2>5, <2>7, e \notin S
    <3>2. CASE j < p
      BY ONLY <1>3, <2>2, <2>4, <2>5, <2>7, <3>2
    <3>3. CASE j > p
      <4>1. i = j - 1
        BY ONLY <1>3, <2>2, <2>4, <2>5, <2>7, <3>3
      <4> QED BY ONLY <2>3, <2>7, <3>3, <4>1
    <3> QED BY ONLY <2>3, <3>1, <3>2, <3>3
  <2>8. CASE i > p
    <3>1. j # p
      BY ONLY <1>3, <2>3, <2>4, <2>5, <2>8, e \notin S
    <3>2. CASE j < p
      <4>1. i - 1 = j
        BY ONLY <1>3, <2>2, <2>4, <2>5, <2>8, <3>2
      <4> QED BY ONLY <2>3, <2>8, <3>2, <4>1
    <3>3. CASE j > p
      <4>1. i - 1 = j - 1
        BY ONLY <1>3, <2>2, <2>4, <2>5, <2>8, <3>3
      <4> QED BY ONLY <2>3, <4>1
    <3> QED BY ONLY <2>3, <3>1, <3>2, <3>3
  <2> QED BY ONLY <2>3, <2>6, <2>7, <2>8
<1>4. ASSUME NEW x \in S \cup {e} PROVE \E i \in 1..Len(r) : r[i] = x
  <2>1. CASE x = e
    <3>1. p \in 1..Len(r) /\ r[p] = e
      BY <1>1, <1>2
    <3> QED BY <2>1, <3>1
  <2>2. CASE x \in S
    <3>1. PICK i \in 1..Len(s) : s[i] = x
      BY <2>2 DEF Lists
    <3>2. CASE i < p
      <4>1. i \in 1..Len(r) /\ r[i] = s[i]
        BY <1>1, <1>2, <3>2
      <4> QED BY <3>1, <4>1
    <3>3. CASE ~(i < p)
      <4>1. i + 1 \in 1..Len(r) /\ r[i + 1] = s[(i + 1) - 1] /\ (i + 1) - 1 = i
        BY <1>1, <1>2, <3>3
      <4> QED BY <3>1, <4>1
    <3> QED BY <3>2, <3>3
  <2> QED BY <2>1, <2>2
<1> QED BY <1>2, <1>3, <1>4 DEF Lists, r

\* removing the element at position p
LEMMA ListsRemoveAt ==
    ASSUME NEW S, NEW s, Lists(s, S), NEW p \in 1..Len(s)
    PROVE  Lists(RemoveAt(s, p), S \ {s[p]})
<1> DEFINE r == RemoveAt(s, p)
<1>1. /\ s \in Seq(S) /\ Len(s) \in Nat /\ \A i \in 1..Len(s) : s[i] \in S
      /\ \A a, b \in 1..Len(s) : s[a] = s[b] => a = b
  BY DEF Lists
<1>2. /\ r \in Seq(S) /\ Len(r) = Len(s) - 1
      /\ \A j \in 1..(Len(s) - 1) : r[j] = IF j < p THEN s[j] ELSE s[j + 1]
  BY <1>1, RemoveAtProps
<1> HIDE DEF r
<1>3. \A a \in 1..Len(r) : /\ a < p => a \in 1..Len(s) /\ r[a] = s[a]
                           /\ a >= p => a + 1 \in 1..Len(s) /\ r[a] = s[a + 1]
  BY <1>1, <1>2
<1>4. ASSUME NEW i \in 1..Len(r), NEW j \in 1..Len(r), r[i] = r[j] PROVE i = j
  <2>1. i \in Int /\ j \in Int /\ p \in Int
    BY <1>1, <1>2
  <2>2. CASE i < p /\ j < p
    BY <1>1, <1>3, <1>4, <2>1, <2>2
  <2>3. CASE i >= p /\ j >= p
    BY <1>1, <1>3, <1>4, <2>1, <2>3
  <2>4. CASE i < p /\ j >= p
    BY <1>1, <1>3, <1>4, <2>1, <2>4
  <2>5. CASE i >= p /\ j < p
    BY <1>1, <1>3, <1>4, <2>1, <2>5
  <2> QED BY <2>1, <2>2, <2>3, <2>4, <2>5
<1>5. ASSUME NEW i \in 1..Len(r) PROVE r[i] \in S \ {s[p]}
  BY <1>1, <1>3
<1>6. r \in Seq(S \ {s[p]})
  BY <1>2, <1>5
<1>7. ASSUME NEW x \in S \ {s[p]} PROVE \E i \in 1..Len(r) : r[i] = x
  <2>1. PICK i \in 1..Len(s) : s[i] = x
    BY DEF Lists
  <2>2. i # p
    BY <2>1
  <2>3. CASE i < p
    <3>1. i \in 1..Len(r) /\ r[i] = s[i]
      BY <1>1, <1>2, <2>3
    <3> QED BY <2>1, <3>1
  <2>4. CASE i > p
    <3>1. i - 1 \in 1..Len(r) /\ r[i - 1] = s[(i - 1) + 1] /\ (i - 1) + 1 = i
      BY <1>1, <1>2, <2>4
    <3> QED BY <2>1, <3>1
  <2> QED BY <2>2, <2>3, <2>4
<1> QED BY <1>4, <1>6, <1>7 DEF Lists, r

\* RemoveFirst() of the element at position p
LEMMA RemoveFirstIs ==
    ASSUME NEW S, NEW s, Lists(s, S), NEW p \in 1..Len(s)
    PROVE  RemoveFirst(s, s[p]) = RemoveAt(s, p)
<1> DEFINE I == {i \in 1..Len(s) : s[i] = s[p]}
<1>1. I = {p}
  BY DEF Lists
<1>2. I \in SUBSET Nat /\ I # {}
  OBVIOUS
<1>3. RemoveFirst(s, s[p]) = RemoveAt(s, Min(I))
  BY <1>1 DEF RemoveFirst, SelectInSeq
<1> HIDE DEF I
<1>4. Min(I) \in I
  BY <1>2, MinNat
<1> QED BY <1>1, <1>3, <1>4

\* taking the first element off, and putting a new one in front or at the end
LEMMA ListsEnds ==
    ASSUME NEW S, NEW s, Lists(s, S)
    PROVE  /\ s # <<>> => /\ Tail(s) = RemoveAt(s, 1) /\ 1 \in 1..Len(s)
                          /\ Lists(Tail(s), S \ {s[1]})
           /\ \A e : e \notin S => /\ Lists(<<e>> \o s, S \cup {e})
                                   /\ Lists(Append(s, e), S \cup {e})
<1>1. s \in Seq(S) /\ Len(s) \in Nat
  BY DEF Lists
<1>2. ASSUME s # <<>>
      PROVE  Tail(s) = RemoveAt(s, 1) /\ 1 \in 1..Len(s)
  <2>1. 1 \in 1..Len(s)
    BY <1>1, <1>2
  <2>2. /\ RemoveAt(s, 1) \in Seq(S) /\ Len(RemoveAt(s, 1)) = Len(s) - 1
        /\ \A j \in 1..(Len(s) - 1) :
              RemoveAt(s, 1)[j] = IF j < 1 THEN s[j] ELSE s[j + 1]
    BY <1>1, <2>1, RemoveAtProps
  <2>3. /\ Tail(s) \in Seq(S) /\ Len(Tail(s)) = Len(s) - 1
        /\ \A j \in 1..(Len(s) - 1) : Tail(s)[j] = s[j + 1]
    BY <1>1, <1>2, HeadTailProperties
  <2>4. \A j \in 1..(Len(s) - 1) : Tail(s)[j] = RemoveAt(s, 1)[j]
    BY <2>2, <2>3
  <2> QED BY <2>1, <2>2, <2>3, <2>4, SeqEqual
<1>3. ASSUME NEW e, e \notin S
      PROVE  Lists(<<e>> \o s, S \cup {e}) /\ Lists(Append(s, e), S \cup {e})
  <2> DEFINE T == S \cup {e}
             p == Len(s) + 1
  <2>0. s \in Seq(T) /\ e \in T /\ 1 \in 1..(Len(s) + 1) /\ p \in 1..(Len(s) + 1)
    BY <1>1
  <2> HIDE DEF T
  <2>1. /\ <<e>> \o s \in Seq(T) /\ Len(<<e>> \o s) = Len(s) + 1
        /\ \A j \in 1..(Len(s) + 1) : (<<e>> \o s)[j] = IF j = 1 THEN e ELSE s[j - 1]
    <3>1. <<e>> \in Seq(T) /\ s \in Seq(T) /\ Len(<<e>>) = 1
          /\ <<e>>[1] = e
      BY <1>1, <2>0
    <3>2. /\ <<e>> \o s \in Seq(T) /\ Len(<<e>> \o s) = 1 + Len(s)
          /\ \A j \in 1..(1 + Len(s)) :
                (<<e>> \o s)[j] = IF j <= 1 THEN <<e>>[j] ELSE s[j - 1]
      BY <3>1, ConcatProperties
    <3> QED BY <1>1, <2>0, <3>1, <3>2
  <2>2. /\ Append(s, e) \in Seq(T) /\ Len(Append(s, e)) = Len(s) + 1
        /\ \A j \in 1..(Len(s) + 1) :
              Append(s, e)[j] = IF j = Len(s) + 1 THEN e ELSE s[j]
    BY <1>1, <2>0, AppendProperties
  <2>3. /\ InsertAt(s, 1, e) \in Seq(T) /\ Len(InsertAt(s, 1, e)) = Len(s) + 1
        /\ \A j \in 1..(Len(s) + 1) :
              InsertAt(s, 1, e)[j] = IF j < 1 THEN s[j] ELSE IF j = 1 THEN e ELSE s[j - 1]
    BY <1>1, <2>0, InsertAtProps
  <2>4. /\ InsertAt(s, p, e) \in Seq(T) /\ Len(InsertAt(s, p, e)) = Len(s) + 1
        /\ \A j \in 1..(Len(s) + 1) :
              InsertAt(s, p, e)[j] = IF j < p THEN s[j] ELSE IF j = p THEN e ELSE s[j - 1]
    <3> HIDE DEF p
    <3> QED BY ONLY <2>0, InsertAtProps
  <2>5. <<e>> \o s = InsertAt(s, 1, e)
    <3>1. \A j \in 1..(Len(s) + 1) : (<<e>> \o s)[j] = InsertAt(s, 1, e)[j]
      BY <1>1, <2>1, <2>3
    <3> QED BY <2>1, <2>3, <3>1, SeqEqual
  <2>6. Append(s, e) = InsertAt(s, Len(s) + 1, e)
    <3>1. \A j \in 1..(Len(s) + 1) : Append(s, e)[j] = InsertAt(s, Len(s) + 1, e)[j]
      BY <1>1, <2>2, <2>4
    <3> QED BY <2>2, <2>4, <3>1, SeqEqual
  <2>7. Lists(InsertAt(s, 1, e), S \cup {e}) /\ Lists(InsertAt(s, Len(s) + 1, e), S \cup {e})
    <3> HIDE DEF p
    <3>1. p = Len(s) + 1
      BY DEF p
    <3>2. Lists(InsertAt(s, p, e), S \cup {e})
      BY <1>3, <2>0, ListsInsert
    <3>3. Lists(InsertAt(s, 1, e), S \cup {e})
      BY <1>3, <2>0, ListsInsert
    <3> QED BY <3>1, <3>2, <3>3
  <2> QED BY <2>5, <2>6, <2>7
<1>4. ASSUME s # <<>> PROVE Lists(Tail(s), S \ {s[1]})
  <2>1. Tail(s) = RemoveAt(s, 1) /\ 1 \in 1..Len(s)
    BY <1>2, <1>4
  <2>2. Lists(RemoveAt(s, 1), S \ {s[1]})
    BY <2>1, ListsRemoveAt
  <2> QED BY <2>1, <2>2
<1> QED BY <1>2, <1>3, <1>4

=============================================================================
