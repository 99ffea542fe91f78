--------------------------- MODULE TimedListProofs ---------------------------
(***************************************************************************)
(* Safety of the timer service of lib/timer.c and of the alarm thread of   *)
(* lib/alarm.c for any number of timers, alarms, clients and controllers:  *)
(* what their sorted list holds and what their workers may rest on.        *)
(***************************************************************************)
EXTENDS CavanTimer, CavanAlarm, SequenceTheorems, WellFoundedInduction, TLAPS

-----------------------------------------------------------------------------
(* The list operations.                                                      *)

\* No node is linked twice.
Injective(s) == \A i, j \in DOMAIN s : i # j => s[i] # s[j]

\* The list is sorted by the times f, each node in it once.
Sorted(s, f) == \A i, j \in DOMAIN s : i < j => s[i] # s[j] /\ f[s[i]] <= f[s[j]]

\* r is s with n inserted at place p.
Inserted(S, s, p, n, r) ==
    /\ r \in Seq(S) /\ Len(r) = Len(s) + 1 /\ r[p] = n
    /\ \A i \in 1..(Len(s) + 1) : i < p => r[i] = s[i]
    /\ \A i \in 1..(Len(s) + 1) : i > p => r[i] = s[i - 1]

\* Nothing before place p is later than t, the node there is.
FirstLater(s, p, t) ==
    /\ \A i \in 1..(p - 1) : time[s[i]] <= t
    /\ p <= Len(s) => time[s[p]] > t

\* The least-number principle, for the first node of a list that matches.
LEMMA LeastNat ==
    ASSUME NEW T \in SUBSET Nat, T # {}
    PROVE  \E x \in T : \A y \in T : x <= y
  <1> DEFINE R == OpToRel(<, Nat)
  <1>1. IsWellFoundedOn(R, Nat)
    BY NatLessThanWellFounded
  <1>2. \A x, y \in Nat : x < y => <<x, y>> \in R
    BY DEF OpToRel
  <1> HIDE DEF R
  <1>3. PICK x \in T : \A y \in T : ~ (<<y, x>> \in R)
    BY <1>1, WFMin
  <1>4. ASSUME NEW y \in T PROVE ~(y < x)
    <2>1. x \in Nat /\ y \in Nat
      OBVIOUS
    <2>2. <<y, x>> \notin R
      BY <1>3
    <2> QED
      BY <1>2, <2>1, <2>2, Zenon
  <1>5. \A y \in T : x <= y
    <2> SUFFICES ASSUME NEW y \in T PROVE x <= y
      OBVIOUS
    <2> QED
      BY <1>4
  <1> QED
    BY <1>5

\* Min finds it.
LEMMA MinIsLeast ==
    ASSUME NEW T \in SUBSET Nat, T # {}
    PROVE  Min(T) \in T /\ \A y \in T : Min(T) <= y
  BY LeastNat DEF Min

\* What double_link_insert_base makes of the list: the nodes before the place stay,
\* the others move one place back.
LEMMA InsertAtShape ==
    ASSUME NEW S, NEW s \in Seq(S), NEW p \in 1..(Len(s) + 1), NEW n \in S
    PROVE  Inserted(S, s, p, n, InsertAt(s, p, n))
  <1> DEFINE a == SubSeq(s, 1, p - 1)
             b == SubSeq(s, p, Len(s))
             ab == a \o <<n>>
  <1>0. Len(s) \in Nat
    BY LenProperties
  <1>1. a \in Seq(S) /\ Len(a) = p - 1 /\ \A i \in 1..(p - 1) : a[i] = s[i]
    BY SubSeqProperties
  <1>2. b \in Seq(S) /\ Len(b) = Len(s) - p + 1 /\ \A i \in 1..(Len(s) - p + 1) : b[i] = s[p + i - 1]
    <2>1. CASE p <= Len(s)
      BY <2>1, SubSeqProperties
    <2>2. CASE p = Len(s) + 1
      BY <2>2
    <2> QED
      BY <2>1, <2>2
  <1>3. <<n>> \in Seq(S) /\ Len(<<n>>) = 1 /\ <<n>>[1] = n
    OBVIOUS
  <1> HIDE DEF a, b
  <1>4. ab \in Seq(S) /\ Len(ab) = p /\ ab[p] = n /\ \A i \in 1..(p - 1) : ab[i] = s[i]
    <2>1. ab \in Seq(S) /\ Len(ab) = Len(a) + Len(<<n>>)
      BY <1>1, <1>3, ConcatProperties
    <2>2. \A i \in 1..Len(ab) : ab[i] = IF i <= Len(a) THEN a[i] ELSE <<n>>[i - Len(a)]
      BY <1>1, <1>3, ConcatProperties
    <2> HIDE DEF ab
    <2>3. Len(ab) = p
      BY <1>1, <1>3, <2>1
    <2>4. ab[p] = n
      BY <1>1, <1>3, <2>2, <2>3
    <2>5. \A i \in 1..(p - 1) : ab[i] = s[i]
      BY <1>1, <2>2, <2>3
    <2> QED
      BY <2>1, <2>3, <2>4, <2>5
  <1> HIDE DEF ab
  <1>5. ab \o b \in Seq(S) /\ Len(ab \o b) = Len(s) + 1
    <2>1. ab \o b \in Seq(S) /\ Len(ab \o b) = Len(ab) + Len(b)
      BY <1>2, <1>4, ConcatProperties
    <2> QED
      BY <1>0, <1>2, <1>4, <2>1
  <1>6. ASSUME NEW i \in 1..(Len(s) + 1)
        PROVE  (ab \o b)[i] = IF i < p THEN s[i] ELSE IF i = p THEN n ELSE s[i - 1]
    <2>1. CASE i <= p
      BY <1>2, <1>4, <2>1, ConcatProperties
    <2>2. CASE i > p
      <3>1. (ab \o b)[i] = b[i - p]
        BY <1>2, <1>4, <2>2, ConcatProperties
      <3>2. i - p \in 1..(Len(s) - p + 1) /\ p + (i - p) - 1 = i - 1
        BY <2>2
      <3>3. b[i - p] = s[i - 1]
        BY <1>2, <3>2
      <3> QED
        BY <2>2, <3>1, <3>3
    <2> QED
      <3>1. i <= p \/ i > p
        BY <1>0
      <3> QED
        BY <2>1, <2>2, <3>1, Zenon
  <1>7. InsertAt(s, p, n) = ab \o b
    BY DEF InsertAt, ab, a, b
  <1>8. (ab \o b)[p] = n
    BY <1>2, <1>4, ConcatProperties
  <1>9. ASSUME NEW i \in 1..(Len(s) + 1)
        PROVE  (i < p => (ab \o b)[i] = s[i]) /\ (i > p => (ab \o b)[i] = s[i - 1])
    <2>1. i < p => ~(i = p)
      BY <1>0
    <2>2. i > p => ~(i < p) /\ ~(i = p)
      BY <1>0
    <2> QED
      BY <1>6, <2>1, <2>2, Zenon
  <1> QED
    BY <1>5, <1>7, <1>8, <1>9 DEF Inserted

\* What double_link_remove_base makes of it.
LEMMA RemoveAtShape ==
    ASSUME NEW S, NEW s \in Seq(S), NEW p \in 1..Len(s)
    PROVE  LET r == RemoveAt(s, p)
           IN  /\ r \in Seq(S)
               /\ Len(r) = Len(s) - 1
               /\ \A i \in 1..(Len(s) - 1) : r[i] = IF i < p THEN s[i] ELSE s[i + 1]
  <1> DEFINE a == SubSeq(s, 1, p - 1)
             b == SubSeq(s, p + 1, Len(s))
  <1>0. Len(s) \in Nat
    BY LenProperties
  <1>1. a \in Seq(S) /\ Len(a) = p - 1 /\ \A i \in 1..(p - 1) : a[i] = s[i]
    BY SubSeqProperties
  <1>2. b \in Seq(S) /\ Len(b) = Len(s) - p /\ \A i \in 1..(Len(s) - p) : b[i] = s[p + i]
    <2>1. CASE p < Len(s)
      BY <2>1, SubSeqProperties
    <2>2. CASE p = Len(s)
      BY <2>2
    <2> QED
      BY <2>1, <2>2
  <1> HIDE DEF a, b
  <1>3. a \o b \in Seq(S) /\ Len(a \o b) = Len(s) - 1
    <2>1. a \o b \in Seq(S) /\ Len(a \o b) = Len(a) + Len(b)
      BY <1>1, <1>2, ConcatProperties
    <2> QED
      BY <1>0, <1>1, <1>2, <2>1
  <1>4. ASSUME NEW i \in 1..(Len(s) - 1)
        PROVE  (a \o b)[i] = IF i < p THEN s[i] ELSE s[i + 1]
    <2>1. CASE i < p
      BY <1>1, <1>2, <2>1, ConcatProperties
    <2>2. CASE i >= p
      <3>1. (a \o b)[i] = b[i - (p - 1)]
        BY <1>1, <1>2, <2>2, ConcatProperties
      <3>2. i - (p - 1) \in 1..(Len(s) - p) /\ p + (i - (p - 1)) = i + 1
        BY <2>2
      <3>3. b[i - (p - 1)] = s[i + 1]
        BY <1>2, <3>2
      <3> QED
        BY <2>2, <3>1, <3>3
    <2> QED
      <3>1. i < p \/ i >= p
        BY <1>0
      <3> QED
        BY <2>1, <2>2, <3>1, Zenon
  <1>5. RemoveAt(s, p) = a \o b
    BY DEF RemoveAt, a, b
  <1> QED
    BY <1>3, <1>4, <1>5

\* Where double_link_cond_insert_append puts a node.
LEMMA InsertSortedPlace ==
    ASSUME NEW S, NEW s \in Seq(S), NEW n \in S, NEW t \in Nat, time \in [S -> Nat]
    PROVE  \E p \in 1..(Len(s) + 1) :
               InsertSorted(s, n, t) = InsertAt(s, p, n) /\ FirstLater(s, p, t)
  <1> DEFINE later == {i \in DOMAIN s : time[s[i]] > t}
             p == IF later = {} THEN Len(s) + 1 ELSE Min(later)
  <1>1. Len(s) \in Nat /\ DOMAIN s = 1..Len(s) /\ \A i \in 1..Len(s) : s[i] \in S
    BY LenProperties
  <1>2. later \in SUBSET Nat
    BY <1>1
  <1>3. \A i \in 1..Len(s) : i \notin later => time[s[i]] <= t
    BY <1>1
  <1>4. later # {} => Min(later) \in later /\ \A y \in later : Min(later) <= y
    BY <1>2, MinIsLeast
  <1>5. InsertSorted(s, n, t) = InsertAt(s, p, n)
    BY DEF InsertSorted
  <1>6. \A i \in later : i \in 1..Len(s) /\ time[s[i]] > t
    BY <1>1
  <1>7. CASE later = {}
    <2> HIDE DEF later
    <2> QED
      BY <1>1, <1>3, <1>5, <1>7 DEF FirstLater
  <1>8. CASE later # {}
    <2> HIDE DEF later
    <2>1. PICK q : q = Min(later)
      OBVIOUS
    <2>2. q \in 1..Len(s) /\ time[s[q]] > t
      BY <1>4, <1>6, <1>8, <2>1
    <2>3. \A i \in 1..(q - 1) : time[s[i]] <= t
      BY <1>1, <1>3, <1>4, <1>8, <2>1, <2>2
    <2>4. q \in 1..(Len(s) + 1) /\ InsertSorted(s, n, t) = InsertAt(s, q, n)
      BY <1>1, <1>5, <1>8, <2>1, <2>2
    <2> QED
      BY <2>2, <2>3, <2>4 DEF FirstLater
  <1> QED
    BY <1>7, <1>8

\* An insertion adds the node and keeps the others, each linked once.
LEMMA InsertSortedNodes ==
    ASSUME NEW S, NEW s \in Seq(S), NEW n \in S, NEW t \in Nat, time \in [S -> Nat]
    PROVE  LET r == InsertSorted(s, n, t)
           IN  /\ r \in Seq(S)
               /\ r # <<>>
               /\ ToSet(r) = ToSet(s) \cup {n}
               /\ Injective(s) /\ n \notin ToSet(s) => Injective(r)
  <1>1. PICK p \in 1..(Len(s) + 1) : InsertSorted(s, n, t) = InsertAt(s, p, n)
    BY InsertSortedPlace, Zenon
  <1> DEFINE r == InsertAt(s, p, n)
  <1>2. r = InsertAt(s, p, n)
    OBVIOUS
  <1>3. /\ r \in Seq(S) /\ Len(r) = Len(s) + 1 /\ r[p] = n
        /\ \A i \in 1..(Len(s) + 1) : i < p => r[i] = s[i]
        /\ \A i \in 1..(Len(s) + 1) : i > p => r[i] = s[i - 1]
    <2>1. Inserted(S, s, p, n, r)
      BY InsertAtShape
    <2> HIDE DEF r
    <2> QED
      BY <2>1 DEF Inserted
  <1> HIDE DEF r
  <1>4. Len(s) \in Nat /\ DOMAIN s = 1..Len(s) /\ DOMAIN r = 1..(Len(s) + 1)
    BY <1>3, LenProperties
  <1>5. r # <<>>
    BY <1>4
  <1>6. ASSUME NEW x \in ToSet(r) PROVE x \in ToSet(s) \cup {n}
    <2>1. PICK i \in 1..(Len(s) + 1) : x = r[i]
      BY <1>4, <1>6 DEF ToSet
    <2>2. x = n \/ \E j \in 1..Len(s) : x = s[j]
      <3>1. CASE i < p
        BY <1>1, <1>3, <1>4, <2>1, <3>1
      <3>2. CASE i > p
        <4>1. i - 1 \in 1..Len(s) /\ x = s[i - 1]
          BY <1>1, <1>3, <1>4, <2>1, <3>2
        <4> QED
          BY <4>1
      <3>3. CASE i = p
        BY <1>3, <2>1, <3>3
      <3> QED
        BY <1>1, <1>4, <2>1, <3>1, <3>2, <3>3
    <2> QED
      BY <1>4, <2>2 DEF ToSet
  <1>7. n \in ToSet(r)
    <2>1. p \in 1..(Len(s) + 1) /\ r[p] = n
      BY <1>1, <1>3, <1>4
    <2> QED
      BY <1>4, <2>1 DEF ToSet
  <1>8. ASSUME NEW x \in ToSet(s) PROVE x \in ToSet(r)
    <2>1. PICK j \in 1..Len(s) : x = s[j]
      BY <1>4, <1>8 DEF ToSet
    <2>2. CASE j < p
      <3>1. j \in 1..Len(r) /\ r[j] = x
        BY <1>3, <1>4, <2>1, <2>2
      <3> QED
        BY <1>3, <1>4, <3>1 DEF ToSet
    <2>3. CASE j >= p
      <3>1. j + 1 \in 1..Len(r) /\ r[j + 1] = x
        BY <1>1, <1>3, <1>4, <2>1, <2>3
      <3> QED
        BY <1>3, <1>4, <3>1 DEF ToSet
    <2> QED
      BY <1>4, <2>2, <2>3
  <1>9. ASSUME Injective(s), n \notin ToSet(s) PROVE Injective(r)
    <2>1. \A i \in 1..Len(s) : s[i] # n
      BY <1>4, <1>9 DEF ToSet
    <2>2. \A i, j \in 1..Len(s) : i # j => s[i] # s[j]
      BY <1>4, <1>9 DEF Injective
    <2>3. ASSUME NEW i \in 1..(Len(s) + 1), NEW j \in 1..(Len(s) + 1), i < j
          PROVE  r[i] # r[j]
      <3>1. CASE i < p /\ j < p
        BY <1>1, <1>3, <1>4, <2>2, <2>3, <3>1
      <3>2. CASE i < p /\ j = p
        BY <1>1, <1>3, <1>4, <2>1, <2>3, <3>2
      <3>3. CASE i < p /\ j > p
        BY <1>1, <1>3, <1>4, <2>2, <2>3, <3>3
      <3>4. CASE i = p
        BY <1>1, <1>3, <1>4, <2>1, <2>3, <3>4
      <3>5. CASE i > p
        <4>1. /\ r[i] = s[i - 1] /\ r[j] = s[j - 1]
              /\ i - 1 \in 1..Len(s) /\ j - 1 \in 1..Len(s) /\ i - 1 # j - 1
          BY <1>1, <1>3, <1>4, <2>3, <3>5
        <4> QED
          BY <2>2, <4>1
      <3> QED
        BY <1>4, <2>3, <3>1, <3>2, <3>3, <3>4, <3>5
    <2> QED
      BY <1>4, <2>3 DEF Injective
  <1> QED
    BY <1>1, <1>2, <1>3, <1>5, <1>6, <1>7, <1>8, <1>9

\* A node that is not linked yet is linked once.
LEMMA InsertSortedOnce ==
    ASSUME NEW S, NEW s \in Seq(S), NEW n \in S, NEW t \in Nat, time \in [S -> Nat],
           Injective(s), n \notin ToSet(s)
    PROVE  /\ ToSet(InsertSorted(s, n, t)) = ToSet(s) \cup {n}
           /\ Injective(InsertSorted(s, n, t))
  <1>1. ToSet(InsertSorted(s, n, t)) = ToSet(s) \cup {n}
    BY InsertSortedNodes
  <1>2. Injective(s) /\ n \notin ToSet(s) => Injective(InsertSorted(s, n, t))
    BY InsertSortedNodes
  <1> QED
    BY <1>1, <1>2

\* An insertion keeps the list sorted, once the node's time is what it was inserted for.
LEMMA InsertSortedSorts ==
    ASSUME NEW S, NEW s \in Seq(S), NEW n \in S, NEW t \in Nat, time \in [S -> Nat],
           Sorted(s, time), n \notin ToSet(s)
    PROVE  Sorted(InsertSorted(s, n, t), [time EXCEPT ![n] = t])
  <1>0. PICK p \in 1..(Len(s) + 1) :
            InsertSorted(s, n, t) = InsertAt(s, p, n) /\ FirstLater(s, p, t)
    BY InsertSortedPlace, Zenon
  <1>1. /\ InsertSorted(s, n, t) = InsertAt(s, p, n)
        /\ \A i \in 1..(p - 1) : time[s[i]] <= t
        /\ p <= Len(s) => time[s[p]] > t
    BY <1>0 DEF FirstLater
  <1> DEFINE r == InsertAt(s, p, n)
  <1>2. r = InsertAt(s, p, n)
    OBVIOUS
  <1>3. /\ r \in Seq(S) /\ Len(r) = Len(s) + 1 /\ r[p] = n
        /\ \A i \in 1..(Len(s) + 1) : i < p => r[i] = s[i]
        /\ \A i \in 1..(Len(s) + 1) : i > p => r[i] = s[i - 1]
    <2>1. Inserted(S, s, p, n, r)
      BY InsertAtShape
    <2> HIDE DEF r
    <2> QED
      BY <2>1 DEF Inserted
  <1> HIDE DEF r
  <1>4. /\ Len(s) \in Nat /\ DOMAIN s = 1..Len(s) /\ DOMAIN r = 1..(Len(s) + 1)
        /\ \A i \in 1..Len(s) : s[i] \in S
    BY <1>3, LenProperties
  <1>5. PICK f : f = [time EXCEPT ![n] = t]
    OBVIOUS
  <1>6. f[n] = t /\ \A m \in S \ {n} : f[m] = time[m]
    BY <1>5
  <1>7. \A i \in 1..Len(s) : s[i] # n /\ f[s[i]] = time[s[i]] /\ f[s[i]] \in Nat
    BY <1>4, <1>6 DEF ToSet
  <1>8. \A i, j \in 1..Len(s) : i < j => s[i] # s[j] /\ f[s[i]] <= f[s[j]]
    BY <1>4, <1>7 DEF Sorted
  <1>9. \A i \in 1..Len(s) : i < p => f[s[i]] <= t
    BY <1>1, <1>4, <1>7
  <1>10. \A i \in 1..Len(s) : i >= p => t <= f[s[i]]
    <2>1. ASSUME NEW i \in 1..Len(s), i >= p PROVE t <= f[s[i]]
      <3>1. p \in 1..Len(s) /\ f[s[p]] > t
        BY <1>1, <1>4, <1>7, <2>1
      <3>2. i = p \/ f[s[p]] <= f[s[i]]
        BY <1>4, <1>8, <2>1, <3>1
      <3>3. f[s[p]] \in Nat /\ f[s[i]] \in Nat
        BY <1>7, <3>1
      <3> QED
        BY <3>1, <3>2, <3>3
    <2> QED
      BY <2>1
  <1>11. ASSUME NEW i \in 1..(Len(s) + 1), NEW j \in 1..(Len(s) + 1), i < j
         PROVE  r[i] # r[j] /\ f[r[i]] <= f[r[j]]
    <2>1. CASE i < p /\ j < p
      <3>1. r[i] = s[i] /\ r[j] = s[j] /\ i \in 1..Len(s) /\ j \in 1..Len(s)
        BY <1>3, <1>4, <1>11, <2>1
      <3> QED
        BY <1>8, <1>11, <3>1
    <2>2. CASE i < p /\ j = p
      <3>1. r[i] = s[i] /\ r[j] = n /\ i \in 1..Len(s)
        BY <1>3, <1>4, <1>11, <2>2
      <3> QED
        BY <1>6, <1>7, <1>9, <2>2, <3>1
    <2>3. CASE i < p /\ j > p
      <3>1. r[i] = s[i] /\ r[j] = s[j - 1] /\ i \in 1..Len(s) /\ j - 1 \in 1..Len(s) /\ i < j - 1
        BY <1>3, <1>4, <1>11, <2>3
      <3> QED
        BY <1>8, <3>1
    <2>4. CASE i = p
      <3>1. r[i] = n /\ r[j] = s[j - 1] /\ j - 1 \in 1..Len(s) /\ j - 1 >= p
        BY <1>3, <1>4, <1>11, <2>4
      <3> QED
        BY <1>6, <1>7, <1>10, <3>1
    <2>5. CASE i > p
      <3>1. /\ r[i] = s[i - 1] /\ r[j] = s[j - 1]
            /\ i - 1 \in 1..Len(s) /\ j - 1 \in 1..Len(s) /\ i - 1 < j - 1
        BY <1>3, <1>4, <1>11, <2>5
      <3> QED
        BY <1>8, <3>1
    <2> QED
      BY <1>4, <1>11, <2>1, <2>2, <2>3, <2>4, <2>5
  <1> QED
    BY <1>1, <1>2, <1>4, <1>5, <1>11 DEF Sorted

\* A removal takes the node out and leaves the others as they were.
LEMMA UnlinkNodes ==
    ASSUME NEW S, NEW s \in Seq(S), NEW n
    PROVE  LET r == Unlink(s, n)
           IN  /\ r \in Seq(S)
               /\ ToSet(r) \subseteq ToSet(s)
               /\ Injective(s) => Injective(r) /\ ToSet(r) = ToSet(s) \ {n}
               /\ \A f : Sorted(s, f) => Sorted(r, f)
  <1> DEFINE places == {i \in DOMAIN s : s[i] = n}
  <1>1. Len(s) \in Nat /\ DOMAIN s = 1..Len(s)
    BY LenProperties
  <1>2. places \in SUBSET Nat
    BY <1>1
  <1>3. \A i \in DOMAIN s : s[i] = n => i \in places
    OBVIOUS
  <1>4. \A i \in places : i \in 1..Len(s) /\ s[i] = n
    BY <1>1
  <1>5. Unlink(s, n) = IF places = {} THEN s ELSE RemoveAt(s, Min(places))
    BY DEF Unlink
  <1> HIDE DEF places
  <1>6. CASE places = {}
    <2>1. Unlink(s, n) = s
      BY <1>5, <1>6
    <2>2. n \notin ToSet(s)
      BY <1>3, <1>6 DEF ToSet
    <2> QED
      BY <2>1, <2>2
  <1>7. CASE places # {}
    <2>1. PICK p : p = Min(places)
      OBVIOUS
    <2>2. p \in 1..Len(s) /\ s[p] = n
      BY <1>2, <1>4, <1>7, <2>1, MinIsLeast
    <2>3. PICK r : r = Unlink(s, n)
      OBVIOUS
    <2>4. r = RemoveAt(s, p)
      BY <1>5, <1>7, <2>1, <2>3
    <2>5. /\ r \in Seq(S) /\ Len(r) = Len(s) - 1
          /\ \A i \in 1..(Len(s) - 1) : r[i] = IF i < p THEN s[i] ELSE s[i + 1]
      BY <2>2, <2>4, RemoveAtShape
    <2>6. DOMAIN r = 1..(Len(s) - 1)
      BY <2>5, LenProperties
    <2>7. ASSUME NEW i \in 1..(Len(s) - 1), NEW j \in 1..(Len(s) - 1), i < j
          PROVE  \E k, l \in 1..Len(s) : k < l /\ k # p /\ l # p /\ r[i] = s[k] /\ r[j] = s[l]
      <3>1. CASE j < p
        <4>1. i \in 1..Len(s) /\ j \in 1..Len(s) /\ i # p /\ j # p /\ r[i] = s[i] /\ r[j] = s[j]
          BY <1>1, <2>2, <2>5, <2>7, <3>1
        <4> QED
          BY <2>7, <4>1
      <3>2. CASE i < p /\ j >= p
        <4>1. /\ i \in 1..Len(s) /\ j + 1 \in 1..Len(s) /\ i < j + 1 /\ i # p /\ j + 1 # p
              /\ r[i] = s[i] /\ r[j] = s[j + 1]
          BY <1>1, <2>2, <2>5, <2>7, <3>2
        <4> QED
          BY <4>1
      <3>3. CASE i >= p
        <4>1. /\ i + 1 \in 1..Len(s) /\ j + 1 \in 1..Len(s) /\ i + 1 < j + 1
              /\ i + 1 # p /\ j + 1 # p /\ r[i] = s[i + 1] /\ r[j] = s[j + 1]
          BY <1>1, <2>2, <2>5, <2>7, <3>3
        <4> QED
          BY <4>1
      <3> QED
        BY <1>1, <2>2, <2>7, <3>1, <3>2, <3>3
    <2>8. ASSUME NEW i \in 1..(Len(s) - 1)
          PROVE  \E k \in 1..Len(s) : k # p /\ r[i] = s[k]
      <3>1. CASE i < p
        <4>1. i \in 1..Len(s) /\ i # p /\ r[i] = s[i]
          BY <1>1, <2>2, <2>5, <2>8, <3>1
        <4> QED
          BY <4>1
      <3>2. CASE i >= p
        <4>1. i + 1 \in 1..Len(s) /\ i + 1 # p /\ r[i] = s[i + 1]
          BY <1>1, <2>2, <2>5, <2>8, <3>2
        <4> QED
          BY <4>1
      <3> QED
        BY <1>1, <2>2, <3>1, <3>2
    <2>9. ToSet(r) \subseteq ToSet(s)
      BY <1>1, <2>6, <2>8 DEF ToSet
    <2>10. ASSUME Injective(s) PROVE Injective(r) /\ ToSet(r) = ToSet(s) \ {n}
      <3>1. \A i, j \in 1..Len(s) : i # j => s[i] # s[j]
        BY <1>1, <2>10 DEF Injective
      <3>2. ASSUME NEW i \in 1..(Len(s) - 1), NEW j \in 1..(Len(s) - 1), i < j
            PROVE  r[i] # r[j]
        <4>1. PICK k, l \in 1..Len(s) : k < l /\ r[i] = s[k] /\ r[j] = s[l]
          BY <2>7, <3>2
        <4> QED
          BY <1>1, <3>1, <4>1
      <3>3. Injective(r)
        BY <1>1, <2>6, <3>2 DEF Injective
      <3>4. n \notin ToSet(r)
        <4> SUFFICES ASSUME NEW i \in 1..(Len(s) - 1), r[i] = n PROVE FALSE
          BY <2>6 DEF ToSet
        <4>1. PICK k \in 1..Len(s) : k # p /\ r[i] = s[k]
          BY <2>8
        <4> QED
          BY <2>2, <3>1, <4>1
      <3>5. ASSUME NEW x \in ToSet(s), x # n PROVE x \in ToSet(r)
        <4>1. PICK k \in 1..Len(s) : x = s[k]
          BY <1>1, <3>5 DEF ToSet
        <4>2. CASE k < p
          <5>1. k \in 1..(Len(s) - 1) /\ r[k] = x
            BY <1>1, <2>2, <2>5, <4>1, <4>2
          <5> QED
            BY <2>6, <5>1 DEF ToSet
        <4>3. CASE k > p
          <5>1. k - 1 \in 1..(Len(s) - 1) /\ r[k - 1] = x
            BY <1>1, <2>2, <2>5, <4>1, <4>3
          <5> QED
            BY <2>6, <5>1 DEF ToSet
        <4> QED
          BY <1>1, <2>2, <3>5, <4>1, <4>2, <4>3
      <3> QED
        BY <2>9, <3>3, <3>4, <3>5
    <2>11. ASSUME NEW f, Sorted(s, f) PROVE Sorted(r, f)
      <3>1. ASSUME NEW i \in 1..(Len(s) - 1), NEW j \in 1..(Len(s) - 1), i < j
            PROVE  r[i] # r[j] /\ f[r[i]] <= f[r[j]]
        <4>1. PICK k, l \in 1..Len(s) : k < l /\ r[i] = s[k] /\ r[j] = s[l]
          BY <2>7, <3>1
        <4>2. s[k] # s[l] /\ f[s[k]] <= f[s[l]]
          BY <1>1, <2>11, <4>1 DEF Sorted
        <4> QED
          BY <4>1, <4>2
      <3> QED
        BY <2>6, <3>1 DEF Sorted
    <2> QED
      BY <2>3, <2>5, <2>9, <2>10, <2>11
  <1> QED
    BY <1>6, <1>7

\* Taking the first node off.
LEMMA TailNodes ==
    ASSUME NEW S, NEW s \in Seq(S), s # <<>>
    PROVE  /\ Tail(s) \in Seq(S)
           /\ Head(s) \in S /\ Head(s) \in ToSet(s)
           /\ ToSet(s) = ToSet(Tail(s)) \cup {Head(s)}
           /\ Injective(s) => Injective(Tail(s)) /\ Head(s) \notin ToSet(Tail(s))
           /\ \A f : Sorted(s, f) => Sorted(Tail(s), f)
  <1>1. /\ Len(s) \in Nat \ {0} /\ DOMAIN s = 1..Len(s) /\ Head(s) = s[1] /\ s[1] \in S
        /\ Tail(s) \in Seq(S) /\ Len(Tail(s)) = Len(s) - 1
        /\ \A i \in 1..(Len(s) - 1) : Tail(s)[i] = s[i + 1]
    BY HeadTailProperties, EmptySeq, LenProperties
  <1>2. PICK r : r = Tail(s)
    OBVIOUS
  <1>3. /\ r \in Seq(S) /\ DOMAIN r = 1..(Len(s) - 1) /\ \A i \in 1..(Len(s) - 1) : r[i] = s[i + 1]
    BY <1>1, <1>2, LenProperties
  <1>4. s[1] \in ToSet(s) /\ ToSet(s) = ToSet(r) \cup {s[1]}
    <2>1. \A i \in 1..(Len(s) - 1) : i + 1 \in 1..Len(s)
      BY <1>1
    <2>2. 1 \in 1..Len(s)
      BY <1>1
    <2>3. s[1] \in ToSet(s) /\ ToSet(r) \subseteq ToSet(s)
      BY <1>1, <1>3, <2>1, <2>2 DEF ToSet
    <2>4. ASSUME NEW i \in 1..Len(s), i # 1 PROVE s[i] \in ToSet(r)
      <3>1. i - 1 \in 1..(Len(s) - 1) /\ r[i - 1] = s[i]
        BY <1>1, <1>3, <2>4
      <3> QED
        BY <1>3, <3>1 DEF ToSet
    <2>5. ToSet(s) \subseteq ToSet(r) \cup {s[1]}
      BY <1>1, <2>4 DEF ToSet
    <2> QED
      BY <2>3, <2>5
  <1>5. ASSUME Injective(s) PROVE Injective(r) /\ s[1] \notin ToSet(r)
    <2>1. \A i, j \in 1..Len(s) : i # j => s[i] # s[j]
      BY <1>1, <1>5 DEF Injective
    <2>2. \A i \in 1..(Len(s) - 1) : s[i + 1] # s[1]
      BY <1>1, <2>1
    <2>3. \A i, j \in 1..(Len(s) - 1) : i # j => s[i + 1] # s[j + 1]
      BY <1>1, <2>1
    <2>4. s[1] \notin ToSet(r)
      BY <1>3, <2>2 DEF ToSet
    <2>5. Injective(r)
      BY <1>3, <2>3 DEF Injective
    <2> QED
      BY <2>4, <2>5
  <1>6. ASSUME NEW f, Sorted(s, f) PROVE Sorted(r, f)
    <2>1. \A i, j \in 1..Len(s) : i < j => s[i] # s[j] /\ f[s[i]] <= f[s[j]]
      BY <1>1, <1>6 DEF Sorted
    <2>2. \A i, j \in 1..(Len(s) - 1) : i < j => s[i + 1] # s[j + 1] /\ f[s[i + 1]] <= f[s[j + 1]]
      BY <1>1, <2>1
    <2>3. ASSUME NEW i \in DOMAIN r, NEW j \in DOMAIN r, i < j
          PROVE  r[i] # r[j] /\ f[r[i]] <= f[r[j]]
      <3>1. i \in 1..(Len(s) - 1) /\ j \in 1..(Len(s) - 1) /\ r[i] = s[i + 1] /\ r[j] = s[j + 1]
        BY <1>3
      <3> QED
        BY <2>2, <2>3, <3>1
    <2> QED
      BY <2>3 DEF Sorted
  <1> QED
    BY <1>1, <1>2, <1>4, <1>5, <1>6

-----------------------------------------------------------------------------
(* The timer service.                                                        *)

\* The types the order of the list rests on; the timer whose handler runs is one.
TimerTypes ==
    /\ now \in Nat
    /\ link \in Seq(Timers)
    /\ time \in [Timers -> Nat]
    /\ hpc = "run" => running \in Timers
    /\ cpc \in [Controllers -> {"idle", "stop", "wake", "stopped"}]

\* What a worker that is about to rest, or rests, has found: it suspends itself only
\* over an empty list, sleeps only in the middle of its handler, and its sleep is
\* SLEEP until it is signalled.
Resting ==
    /\ wpc \in {"none", "created", "cond_wait", "exited"} => hpc = "enter"
    /\ wpc = "timedwait" => hpc = "msleep" /\ state # "SUSPEND"
    /\ state = "NONE" => wpc = "none"
    /\ wpc \in {"handler", "cond_wait"} /\ state = "SUSPEND" => link = <<>>
    /\ wpc = "handler" /\ state = "SUSPEND" => hpc = "return"
    /\ wpc = "timedwait" /\ ~signalled /\ ~Stopping => state = "SLEEP"

TimerInv == TimerTypes /\ Resting /\ SortedOnce /\ RestsForFirst

\* A controller's step never takes a stop back, and before any stop it only starts.
LEMMA ManageStops ==
    ASSUME TimerTypes, NEW c \in Controllers, Manage(c)
    PROVE  /\ cpc' \in [Controllers -> {"idle", "stop", "wake", "stopped"}]
           /\ Stopping' \/ (~Stopping /\ cavan_timer_service_start(c))
  <1>1. CASE cavan_timer_service_start(c)
    BY <1>1 DEF cavan_timer_service_start, cavan_thread_start, TimerTypes, Stopping
  <1>2. CASE cavan_timer_service_stop(c)
    BY <1>2 DEF cavan_timer_service_stop, cavan_thread_stop, TimerTypes, Stopping
  <1>3. CASE Stop(c)
    <2>1. \E l \in {"stop", "wake", "stopped"} : cpc' = [cpc EXCEPT ![c] = l]
      BY <1>3 DEF Stop, StopAsk, StopDone, StopWake, StopKill
    <2> QED
      BY <2>1 DEF TimerTypes, Stopping
  <1>4. CASE StopEnd(c)
    BY <1>4 DEF StopEnd, cavan_thread_deinit, TimerTypes, Stopping
  <1> QED
    BY <1>1, <1>2, <1>3, <1>4 DEF Manage

\* What the steps of a controller leave alone.
LEMMA ManageFrame ==
    ASSUME NEW c \in Controllers, Manage(c)
    PROVE  /\ UNCHANGED <<now, link, time, waiting, running, hpc, relinked>>
           /\ state' = "NONE" => state = "NONE" /\ wpc' = wpc
           /\ state' = "SUSPEND" => state = "SUSPEND" /\ wpc' = wpc
           /\ wpc' = wpc \/ (wpc' = "created" /\ state = "NONE")
  <1>1. CASE cavan_timer_service_start(c)
    BY <1>1 DEF cavan_timer_service_start, cavan_thread_start, timerVars
  <1>2. CASE cavan_timer_service_stop(c)
    BY <1>2 DEF cavan_timer_service_stop, cavan_thread_stop
  <1>3. CASE Stop(c) /\ UNCHANGED timerVars
    BY <1>3 DEF Stop, StopAsk, StopDone, StopWake, StopKill, timerVars
  <1>4. CASE StopEnd(c)
    BY <1>4 DEF StopEnd, cavan_thread_deinit
  <1> QED
    BY <1>1, <1>2, <1>3, <1>4 DEF Manage

\* The lists the clients and the worker make, and their types.
LEMMA TimerTypesStep ==
    ASSUME TimerTypes, TimerNext
    PROVE  TimerTypes'
  <1>1. CASE Tick
    BY <1>1 DEF Tick, TimerTypes, threadVars
  <1>2. ASSUME NEW t \in Timers, NEW d \in Delays, cavan_timer_insert(t, d)
        PROVE  TimerTypes'
    <2>1. now + d \in Nat
      BY TimerAssumption DEF TimerTypes
    <2>2. Unlink(link, t) \in Seq(Timers)
      BY UnlinkNodes DEF TimerTypes
    <2>3. InsertSorted(Unlink(link, t), t, now + d) \in Seq(Timers)
      BY <2>1, <2>2, InsertSortedNodes DEF TimerTypes
    <2> QED
      BY <1>2, <2>1, <2>3 DEF cavan_timer_insert, Client, TimerTypes
  <1>3. ASSUME NEW t \in Timers, cavan_timer_remove(t)
        PROVE  TimerTypes'
    <2>1. Unlink(link, t) \in Seq(Timers)
      BY UnlinkNodes DEF TimerTypes
    <2> QED
      BY <1>3, <2>1 DEF cavan_timer_remove, Client, TimerTypes
  <1>4. CASE EnterEmpty
    BY <1>4 DEF EnterEmpty, HandlerSuspend, TimerTypes
  <1>5. CASE EnterWait
    BY <1>5 DEF EnterWait, TimerTypes, threadVars
  <1>6. CASE EnterRun
    <2>1. Tail(link) \in Seq(Timers) /\ First \in Timers
      BY <1>6, TailNodes DEF EnterRun, TimerTypes, First
    <2> QED
      BY <1>6, <2>1 DEF EnterRun, TimerTypes, threadVars
  <1>7. CASE MSleep
    BY <1>7 DEF MSleep, SleepUntil, TimerTypes
  <1>8. CASE Wake
    BY <1>8 DEF Wake, SleepReturn, TimerTypes
  <1>9. CASE Relock
    BY <1>9 DEF Relock, TimerTypes, threadVars
  <1>10. CASE RanOnce
    BY <1>10 DEF RanOnce, TimerTypes, threadVars
  <1>11. CASE RanAgain
    <2>1. PICK d \in Delays \ {0} :
             /\ time' = [time EXCEPT ![running] = now + d]
             /\ link' = link \/ link' = InsertSorted(link, running, now + d)
      BY <1>11 DEF RanAgain
    <2>2. now + d \in Nat /\ running \in Timers
      BY <1>11, TimerAssumption DEF RanAgain, TimerTypes
    <2>3. InsertSorted(link, running, now + d) \in Seq(Timers)
      BY <2>2, InsertSortedNodes DEF TimerTypes
    <2>4. time' \in [Timers -> Nat] /\ link' \in Seq(Timers)
      BY <2>1, <2>2, <2>3 DEF TimerTypes
    <2> QED
      BY <1>11, <2>4 DEF RanAgain, TimerTypes
  <1>12. CASE ReturnToLoop
    BY <1>12 DEF ReturnToLoop, HandlerReturn, TimerTypes
  <1>13. CASE Loop
    BY <1>13 DEF Loop, MainEntry, CondWaitReturn, SigHandler, TimerTypes, timerVars
  <1>14. ASSUME NEW c \in Controllers, Manage(c)
         PROVE  TimerTypes'
    BY <1>14, ManageStops, ManageFrame DEF TimerTypes
  <1> QED
    BY <1>1, <1>2, <1>3, <1>4, <1>5, <1>6, <1>7, <1>8, <1>9, <1>10, <1>11, <1>12, <1>13, <1>14
    DEF TimerNext, Handler

\* The list stays sorted: a client takes the timer off the list before it links it by
\* its new deadline, and the worker links a timer it has taken off, unless that timer
\* has been linked meanwhile, which is what relinked records.
LEMMA SortedStep ==
    ASSUME TimerTypes, SortedOnce, TimerNext
    PROVE  SortedOnce'
  <1>0. relinked \/ Sorted(link, time)
    BY DEF SortedOnce, Sorted
  <1> SUFFICES relinked' \/ Sorted(link', time')
    BY DEF SortedOnce, Sorted
  <1>1. ASSUME UNCHANGED <<link, time, relinked>> PROVE relinked' \/ Sorted(link', time')
    BY <1>0, <1>1 DEF Sorted
  <1>2. ASSUME NEW t \in Timers, NEW d \in Delays, cavan_timer_insert(t, d)
        PROVE  relinked' \/ Sorted(link', time')
    <2>1. now + d \in Nat
      BY TimerAssumption DEF TimerTypes
    <2>2. CASE ~relinked
      <3>1. Sorted(link, time)
        BY <1>0, <2>2
      <3>2. Injective(link)
        BY <3>1, LenProperties DEF Injective, Sorted, TimerTypes
      <3>3. PICK s : s = Unlink(link, t)
        OBVIOUS
      <3>4. s \in Seq(Timers) /\ t \notin ToSet(s) /\ Sorted(s, time)
        BY <3>1, <3>2, <3>3, UnlinkNodes DEF TimerTypes
      <3>5. Sorted(InsertSorted(s, t, now + d), [time EXCEPT ![t] = now + d])
        BY <2>1, <3>4, InsertSortedSorts DEF TimerTypes
      <3> QED
        BY <1>2, <3>3, <3>5 DEF cavan_timer_insert
    <2>3. CASE relinked
      BY <1>2, <2>3 DEF cavan_timer_insert, Client
    <2> QED
      BY <2>2, <2>3
  <1>3. ASSUME NEW t \in Timers, cavan_timer_remove(t)
        PROVE  relinked' \/ Sorted(link', time')
    <2>1. Sorted(link, time) => Sorted(Unlink(link, t), time)
      BY UnlinkNodes DEF TimerTypes
    <2> QED
      BY <1>0, <1>3, <2>1 DEF cavan_timer_remove, Client
  <1>4. CASE EnterRun
    <2>1. Sorted(link, time) => Sorted(Tail(link), time)
      BY <1>4, TailNodes DEF EnterRun, TimerTypes
    <2> QED
      BY <1>0, <1>4, <2>1 DEF EnterRun
  <1>5. CASE RanAgain
    <2>1. PICK d \in Delays \ {0} :
             /\ time' = [time EXCEPT ![running] = now + d]
             /\ IF running \in Range(link)
                THEN relinked' = TRUE
                ELSE link' = InsertSorted(link, running, now + d) /\ UNCHANGED relinked
      BY <1>5 DEF RanAgain
    <2>2. now + d \in Nat /\ running \in Timers
      BY <1>5, TimerAssumption DEF RanAgain, TimerTypes
    <2>3. CASE running \in Range(link)
      <3>1. relinked'
        BY <2>1, <2>3, Zenon
      <3> QED
        BY <3>1, Zenon
    <2>4. CASE running \notin Range(link)
      <3>1. running \notin ToSet(link)
        BY <2>4 DEF Range, ToSet
      <3>2. Sorted(link, time) => Sorted(InsertSorted(link, running, now + d), [time EXCEPT ![running] = now + d])
        BY <2>2, <3>1, InsertSortedSorts DEF TimerTypes
      <3> QED
        BY <1>0, <2>1, <2>4, <3>2
    <2> QED
      BY <2>3, <2>4
  <1>6. CASE Tick \/ EnterEmpty \/ EnterWait \/ MSleep \/ Wake \/ Relock \/ RanOnce \/ ReturnToLoop \/ Loop
    <2>1. UNCHANGED <<link, time, relinked>>
      BY <1>6, Zenon
      DEF Tick, EnterEmpty, EnterWait, MSleep, Wake, Relock, RanOnce, ReturnToLoop, Loop, timerVars
    <2> QED
      BY <1>1, <2>1
  <1>7. ASSUME NEW c \in Controllers, Manage(c)
        PROVE  relinked' \/ Sorted(link', time')
    BY <1>1, <1>7, ManageFrame
  <1> QED
    BY <1>0, <1>2, <1>3, <1>4, <1>5, <1>6, <1>7 DEF TimerNext, Handler

\* A resume ends a suspension, interrupts a sleep and is remembered.
LEMMA ResumeEffect ==
    ASSUME Resume
    PROVE  /\ pending'
           /\ state' # "SUSPEND"
           /\ state' = "NONE" => state = "NONE"
           /\ state' # state => signalled' = (signalled \/ wpc \in Waits)
           /\ state = "SLEEP" => state' # state
           /\ state' = state => signalled' = signalled
  <1>1. CASE state \in {"WAIT_EVENT", "SUSPEND", "SLEEP"}
    BY <1>1, Zenon DEF Resume, CondSignal
  <1>2. CASE state \notin {"WAIT_EVENT", "SUSPEND", "SLEEP"}
    BY <1>2, Zenon DEF Resume
  <1> QED
    BY <1>1, <1>2

\* A client's call under service->lock, whatever it does to the list.
LEMMA ClientRests ==
    ASSUME Resting, RestsForFirst, Client, Resume
    PROVE  Resting' /\ RestsForFirst'
  <1>1. /\ UNCHANGED <<waiting, hpc, relinked, wpc, cpc>>
        /\ state # "NONE"
    BY DEF Client
  <1>2. Stopping' = Stopping
    BY <1>1 DEF Stopping
  <1>3. wpc = "timedwait" /\ ~signalled' => Stopping
    <2>1. CASE state = "SLEEP" /\ wpc = "timedwait"
      BY <2>1, ResumeEffect DEF Waits
    <2>2. CASE state # "SLEEP" /\ wpc = "timedwait" /\ ~Stopping
      <3>1. signalled
        BY <2>2 DEF Resting
      <3>2. signalled'
        BY <3>1, ResumeEffect, Zenon
      <3> QED
        BY <3>2
    <2> QED
      BY <2>1, <2>2
  <1>4. Resting'
    <2>1. state' # "SUSPEND" /\ state' # "NONE"
      BY <1>1, ResumeEffect
    <2> QED
      BY <1>1, <1>2, <1>3, <2>1 DEF Resting
  <1>5. RestsForFirst'
    <2>1. state' # "SUSPEND" /\ pending'
      BY ResumeEffect
    <2> QED
      BY <1>1, <1>2, <1>3, <2>1 DEF RestsForFirst
  <1> QED
    BY <1>4, <1>5

\* The main loop's own steps keep the list and the handler's place.
LEMMA LoopRests ==
    ASSUME TimerTypes, Resting, RestsForFirst, Loop \/ ReturnToLoop
    PROVE  Resting' /\ RestsForFirst'
  <1>1. UNCHANGED <<link, waiting, relinked, cpc>>
    BY DEF Loop, ReturnToLoop, HandlerReturn, MainEntry, CondWaitReturn, SigHandler, timerVars
  <1>2. Stopping' = Stopping
    BY <1>1 DEF Stopping
  <1>3. CASE MainEntry /\ UNCHANGED timerVars
    <2>1. wpc' = "handler" /\ state' = "RUNNING" /\ hpc' = "enter"
      BY <1>3 DEF MainEntry, timerVars, Resting
    <2> QED
      BY <1>1, <1>2, <2>1 DEF Resting, RestsForFirst
  <1>4. CASE SigHandler /\ UNCHANGED timerVars
    <2>1. wpc' = "killed" /\ state' = state /\ wpc # "none"
      BY <1>4 DEF SigHandler, Gone
    <2> QED
      BY <1>1, <2>1 DEF Resting, RestsForFirst
  <1>5. CASE CondWaitReturn /\ UNCHANGED timerVars
    <2>1. hpc' = "enter" /\ wpc = "cond_wait"
      BY <1>5 DEF CondWaitReturn, timerVars, Resting
    <2>2. CASE state = "SUSPEND"
      <3>1. state' = state /\ wpc' = wpc
        BY <1>5, <2>2 DEF CondWaitReturn
      <3> QED
        BY <1>1, <2>1, <2>2, <3>1 DEF Resting, RestsForFirst
    <2>3. CASE state # "SUSPEND"
      <3>1. wpc' \in {"handler", "exited"} /\ state' \in {"RUNNING", "STOPPED"}
        BY <1>5, <2>3 DEF CondWaitReturn, Switch
      <3> QED
        BY <1>1, <2>1, <3>1 DEF Resting, RestsForFirst
    <2> QED
      BY <2>2, <2>3
  <1>6. CASE ReturnToLoop
    <2>1. hpc' = "enter" /\ wpc = "handler"
      BY <1>6 DEF ReturnToLoop, HandlerReturn
    <2>2. \/ wpc' \in {"handler", "exited"} /\ state' \in {"RUNNING", "STOPPED"}
          \/ wpc' = "cond_wait" /\ state' = "SUSPEND" /\ state = "SUSPEND"
      BY <1>6 DEF ReturnToLoop, HandlerReturn, Switch
    <2> QED
      BY <1>1, <2>1, <2>2 DEF Resting, RestsForFirst
  <1> QED
    BY <1>3, <1>4, <1>5, <1>6 DEF Loop

\* The steps of the handler.  It remembers the first timer before it lets go of the
\* lock, and suspends under it.
LEMMA HandlerRests ==
    ASSUME TimerTypes, Resting, RestsForFirst, Handler \/ Wake
    PROVE  Resting' /\ RestsForFirst'
  <1>1. CASE EnterEmpty
    <2>1. /\ wpc = "handler" /\ wpc' = "handler" /\ hpc = "enter" /\ hpc' = "return"
          /\ link' = link /\ link = <<>> /\ (state' = state \/ state' = "SUSPEND")
      BY <1>1 DEF EnterEmpty, HandlerSuspend, Suspended
    <2> QED
      BY <2>1 DEF Resting, RestsForFirst
  <1>2. CASE EnterWait
    <2>1. /\ wpc' = "handler" /\ hpc' = "msleep" /\ hpc = "enter" /\ wpc = "handler" /\ state' = state
          /\ link' = link /\ link # <<>> /\ waiting' = First
      BY <1>2 DEF EnterWait, threadVars
    <2> QED
      BY <2>1 DEF Resting, RestsForFirst, First
  <1>3. CASE EnterRun
    <2>1. wpc = "handler" /\ wpc' = "handler" /\ hpc = "enter" /\ hpc' = "run" /\ state' = state
      BY <1>3 DEF EnterRun, threadVars
    <2> QED
      BY <2>1 DEF Resting, RestsForFirst
  <1>4. CASE MSleep
    <2>1. UNCHANGED <<link, waiting, relinked, cpc>> /\ hpc = "msleep" /\ wpc = "handler"
      BY <1>4 DEF MSleep, SleepUntil
    <2>2. Stopping' = Stopping
      BY <2>1 DEF Stopping
    <2>3. \/ hpc' = "relock" /\ wpc' = wpc /\ state' = state
          \/ hpc' = "msleep" /\ wpc' = "timedwait" /\ state' = "SLEEP" /\ ~pending
      BY <1>4 DEF MSleep, SleepUntil
    <2> QED
      BY <2>1, <2>2, <2>3 DEF Resting, RestsForFirst, First
  <1>5. CASE Wake
    <2>1. wpc = "timedwait" /\ wpc' = "handler" /\ hpc' = "relock" /\ link' = link
      BY <1>5 DEF Wake, SleepReturn
    <2>2. state' = state \/ state' = "RUNNING"
      BY <1>5 DEF Wake, SleepReturn
    <2> QED
      BY <2>1, <2>2 DEF Resting, RestsForFirst
  <1>6. CASE Relock \/ RanOnce
    <2>1. wpc = "handler" /\ wpc' = "handler" /\ hpc \in {"relock", "run"} /\ hpc' = "return" /\ state' = state
      BY <1>6 DEF Relock, RanOnce, threadVars
    <2> QED
      BY <2>1 DEF Resting, RestsForFirst
  <1>7. CASE RanAgain
    <2>1. wpc = "handler" /\ wpc' = "handler" /\ hpc' = "return" /\ Resume
      BY <1>7 DEF RanAgain
    <2> QED
      BY <2>1, ResumeEffect DEF Resting, RestsForFirst
  <1>8. CASE ReturnToLoop
    BY <1>8, LoopRests
  <1> QED
    BY <1>1, <1>2, <1>3, <1>4, <1>5, <1>6, <1>7, <1>8 DEF Handler

LEMMA RestsStep ==
    ASSUME TimerTypes, Resting, RestsForFirst, TimerNext
    PROVE  Resting' /\ RestsForFirst'
  <1>1. CASE Tick
    <2>1. /\ UNCHANGED <<link, waiting, hpc, relinked, wpc, state, signalled, pending>>
          /\ Stopping' = Stopping
      BY <1>1 DEF Tick, threadVars, Stopping
    <2> QED
      BY <2>1 DEF Resting, RestsForFirst, First
  <1>2. ASSUME NEW t \in Timers, NEW d \in Delays, cavan_timer_insert(t, d)
        PROVE  Resting' /\ RestsForFirst'
    BY <1>2, ClientRests DEF cavan_timer_insert
  <1>3. ASSUME NEW t \in Timers, cavan_timer_remove(t)
        PROVE  Resting' /\ RestsForFirst'
    BY <1>3, ClientRests DEF cavan_timer_remove
  <1>4. ASSUME NEW c \in Controllers, Manage(c)
        PROVE  Resting' /\ RestsForFirst'
    <2>1. CASE Stopping'
      BY <1>4, <2>1, ManageFrame DEF Resting, RestsForFirst
    <2>2. CASE ~Stopping'
      <3>1. cavan_timer_service_start(c)
        BY <1>4, <2>2, ManageStops
      <3>2. wpc' = "created" /\ state' = "IDLE" /\ hpc' = hpc /\ state = "NONE"
        BY <3>1 DEF cavan_timer_service_start, cavan_thread_start, timerVars
      <3> QED
        BY <3>2 DEF Resting, RestsForFirst
    <2> QED
      BY <2>1, <2>2
  <1> QED
    BY <1>1, <1>2, <1>3, <1>4, HandlerRests, LoopRests DEF TimerNext, Handler

\* The timer service's invariant, for any timers, clients, delays and controllers.
THEOREM TimerInvariant == TimerSafeSpec => []TimerInv
  <1>1. TimerInit => TimerInv
    <2> SUFFICES ASSUME TimerInit PROVE TimerInv
      OBVIOUS
    <2>1. TimerTypes
      BY DEF TimerInit, ThreadInit, TimerTypes
    <2>2. Resting /\ RestsForFirst
      BY DEF TimerInit, ThreadInit, Resting, RestsForFirst
    <2>3. SortedOnce
      BY DEF TimerInit, SortedOnce
    <2> QED
      BY <2>1, <2>2, <2>3 DEF TimerInv
  <1>2. TimerInv /\ [TimerNext]_vars => TimerInv'
    <2> SUFFICES ASSUME TimerInv, [TimerNext]_vars PROVE TimerInv'
      OBVIOUS
    <2>1. CASE TimerNext
      BY <2>1, TimerTypesStep, SortedStep, RestsStep DEF TimerInv
    <2>2. CASE UNCHANGED vars
      <3>1. /\ UNCHANGED <<now, link, time, waiting, running, hpc, relinked, wpc, state,
                           signalled, pending, cpc>>
            /\ Stopping' = Stopping
        BY <2>2 DEF vars, threadVars, timerVars, Stopping
      <3>2. TimerTypes' /\ SortedOnce'
        BY <3>1 DEF TimerInv, TimerTypes, SortedOnce
      <3>3. Resting' /\ RestsForFirst'
        BY <3>1 DEF TimerInv, Resting, RestsForFirst, First
      <3> QED
        BY <3>2, <3>3 DEF TimerInv
    <2> QED
      BY <2>1, <2>2
  <1> QED
    BY <1>1, <1>2, PTL DEF TimerSafeSpec

\* The timers stay sorted by deadline, each in the list once, through every insert,
\* removal and periodic return, until a timer is linked twice.
THEOREM TimersSorted == TimerSafeSpec => []SortedOnce
  BY TimerInvariant, PTL DEF TimerInv

\* The worker never rests past the first timer: it sleeps for the one that is first,
\* and is suspended only when there is none.
THEOREM WorkerRestsForFirst == TimerSafeSpec => []RestsForFirst
  BY TimerInvariant, PTL DEF TimerInv

-----------------------------------------------------------------------------
(* The alarm thread.                                                         *)

\* The types the ownership of the nodes rests on; the worker holds the lock
\* while its handler is between enter and return.
AlarmTypes ==
    /\ link \in Seq(Nodes)
    /\ time \in [Nodes -> Nat]
    /\ alive \subseteq Nodes
    /\ locked \in BOOLEAN /\ (hpc \in {"suspend", "run"} => locked)
    /\ IF hpc = "run" THEN running \in Nodes ELSE running = NoNode
    /\ apc \in [Clients -> {"idle", "insert", "delete"}]
    /\ target \in [Clients -> Nodes \cup {NoNode}]
    /\ dangling \subseteq Clients

\* The nodes the alarm thread refers to.
Referred == ToSet(link) \cup ({running} \ {NoNode})

\* A node on its way into the list belongs to one client and to nobody else.
InsertOwned ==
    \A c \in Clients : apc[c] = "insert" =>
        /\ target[c] \in alive \ Referred
        /\ \A d \in Clients : c # d /\ apc[d] = "insert" => target[d] # target[c]

\* A remove request whose node has not been freed finds it in the list or running.
DeleteFound ==
    \A c \in Clients :
        /\ apc[c] = "delete" /\ c \notin dangling => target[c] \in Referred
        /\ apc[c] = "idle" <=> target[c] = NoNode

LinkedOnce == Injective(link) /\ running \notin ToSet(link)

AlarmInv == AlarmTypes /\ InsertOwned /\ DeleteFound /\ LinkedOnce /\ ListedAlive

\* Its types are kept by every step.
LEMMA AlarmTypesStep ==
    ASSUME AlarmTypes, InsertOwned, AlarmNext
    PROVE  AlarmTypes'
  <1>1. CASE AlarmTick
    BY <1>1 DEF AlarmTick, AlarmTypes, clientVars
  <1>2. CASE cavan_alarm_sighandler
    BY <1>2 DEF cavan_alarm_sighandler, AlarmTypes, clientVars
  <1>3. ASSUME NEW c \in Clients, AlarmAdd(c)
        PROVE  AlarmTypes'
    <2>1. PICK n \in Nodes \ alive, d \in Dates :
             /\ time' = [time EXCEPT ![n] = IF d < now THEN d + Day ELSE d]
             /\ alive' = alive \cup {n}
             /\ target' = [target EXCEPT ![c] = n]
             /\ apc' = [apc EXCEPT ![c] = "insert"]
      BY <1>3, Zenon DEF AlarmAdd
    <2>2. (IF d < now THEN d + Day ELSE d) \in Nat
      BY AlarmAssumption
    <2>3. time' \in [Nodes -> Nat]
      BY <2>1, <2>2 DEF AlarmTypes
    <2> QED
      BY <1>3, <2>1, <2>3 DEF AlarmAdd, AlarmTypes
  <1>4. ASSUME NEW c \in Clients, cavan_alarm_insert_node(c)
        PROVE  AlarmTypes'
    <2>1. target[c] \in Nodes
      BY <1>4 DEF cavan_alarm_insert_node, InsertOwned, AlarmTypes
    <2>2. InsertSorted(link, target[c], time[target[c]]) \in Seq(Nodes)
      BY <2>1, InsertSortedNodes DEF AlarmTypes
    <2> QED
      BY <1>4, <2>2 DEF cavan_alarm_insert_node, AlarmTypes
  <1>5. ASSUME NEW c \in Clients, AlarmFind(c)
        PROVE  AlarmTypes'
    <2>1. PICK n \in ToSet(link) : target' = [target EXCEPT ![c] = n]
      BY <1>5 DEF AlarmFind
    <2>2. n \in Nodes
      BY <2>1, LenProperties DEF ToSet, AlarmTypes
    <2> QED
      BY <1>5, <2>1, <2>2 DEF AlarmFind, AlarmTypes
  <1>6. ASSUME NEW c \in Clients, cavan_alarm_delete_node(c)
        PROVE  AlarmTypes'
    <2>1. link' \in Seq(Nodes)
      BY <1>6, UnlinkNodes DEF cavan_alarm_delete_node, AlarmTypes
    <2>2. alive' \subseteq Nodes /\ dangling' \subseteq Clients
      BY <1>6 DEF cavan_alarm_delete_node, FreeNode, AlarmTypes
    <2> QED
      BY <1>6, <2>1, <2>2 DEF cavan_alarm_delete_node, AlarmTypes
  <1>7. CASE ArmAlarm
    BY <1>7 DEF ArmAlarm, Enter, AlarmTypes, clientVars
  <1>8. CASE TakeAlarm
    <2>1. Tail(link) \in Seq(Nodes) /\ First \in Nodes
      BY <1>8, TailNodes DEF TakeAlarm, First, AlarmTypes
    <2> QED
      BY <1>8, <2>1 DEF TakeAlarm, Enter, AlarmTypes, clientVars
  <1>9. CASE Suspend
    BY <1>9 DEF Suspend, AlarmTypes, clientVars
  <1>10. CASE Ran
    <2>1. running \in Nodes /\ time[running] \in Nat /\ time[running] + Repeat \in Nat
      BY <1>10, AlarmAssumption DEF Ran, AlarmTypes
    <2>2. InsertSorted(link, running, time[running] + Repeat) \in Seq(Nodes)
      BY <2>1, InsertSortedNodes DEF AlarmTypes
    <2>3. link' \in Seq(Nodes) /\ time' \in [Nodes -> Nat]
      BY <1>10, <2>1, <2>2 DEF Ran, AlarmTypes
    <2>4. alive' \subseteq Nodes /\ dangling' \subseteq Clients
      BY <1>10 DEF Ran, FreeNode, AlarmTypes
    <2> QED
      BY <1>10, <2>3, <2>4 DEF Ran, AlarmTypes
  <1>11. CASE AlarmReturn
    BY <1>11 DEF AlarmReturn, AlarmTypes, clientVars
  <1>12. CASE UNCHANGED alarmVars
    BY <1>12 DEF alarmVars, AlarmTypes
  <1>13. CASE SigalrmTraps
    <2>1. locked' = locked \/ locked' = TRUE
      BY <1>13, Zenon DEF SigalrmTraps
    <2>2. UNCHANGED <<link, time, alive, hpc, running, apc, target, dangling>>
      BY <1>13, Zenon DEF SigalrmTraps, clientVars
    <2> QED
      BY <2>1, <2>2 DEF AlarmTypes
  <1>14. CASE AlarmLoop \/ Killed \/ \E c \in Controllers : AlarmManage(c)
    BY <1>12, <1>14 DEF AlarmLoop, Killed, AlarmManage
  <1> QED
    BY <1>1, <1>2, <1>3, <1>4, <1>5, <1>6, <1>7, <1>8, <1>9, <1>10, <1>11, <1>13, <1>14
    DEF AlarmNext, AlarmHandler

\* The rest of the invariant depends on who refers to which node only.
LEMMA AlarmOwnUnchanged ==
    ASSUME InsertOwned, DeleteFound, LinkedOnce, ListedAlive,
           UNCHANGED <<link, alive, running, apc, target, dangling>>
    PROVE  InsertOwned' /\ DeleteFound' /\ LinkedOnce' /\ ListedAlive'
  BY DEF InsertOwned, DeleteFound, LinkedOnce, ListedAlive, Referred, Injective, ToSet

\* A step that changes what the thread refers to, frees at most what it no longer refers
\* to and marks the clients that held it, keeps the ownership.
LEMMA AlarmOwnStep ==
    ASSUME AlarmTypes, InsertOwned, DeleteFound, LinkedOnce, ListedAlive, AlarmNext
    PROVE  InsertOwned' /\ DeleteFound' /\ LinkedOnce' /\ ListedAlive'
  <1> DEFINE Goal == InsertOwned' /\ DeleteFound' /\ LinkedOnce' /\ ListedAlive'
  <1>0. ToSet(link) \subseteq Nodes /\ NoNode \notin Nodes /\ NoNode \notin Clients
    BY AlarmAssumption, LenProperties DEF ToSet, AlarmTypes
  <1>1. Referred \subseteq alive
    BY DEF ListedAlive, Referred
  <1>2. ASSUME NEW c \in Clients, AlarmAdd(c)
        PROVE  Goal
    <2>1. PICK n \in Nodes \ alive :
             /\ alive' = alive \cup {n}
             /\ target' = [target EXCEPT ![c] = n]
             /\ apc' = [apc EXCEPT ![c] = "insert"]
      BY <1>2, Zenon DEF AlarmAdd
    <2>2. UNCHANGED <<link, running, dangling>> /\ apc[c] = "idle"
      BY <1>2 DEF AlarmAdd, Request
    <2>3. Referred' = Referred /\ n \notin Referred
      BY <1>1, <2>1, <2>2 DEF Referred
    <2>4. LinkedOnce' /\ ListedAlive'
      BY <2>1, <2>2 DEF LinkedOnce, ListedAlive, Injective
    <2>5. InsertOwned'
      BY <2>1, <2>3 DEF InsertOwned, AlarmTypes
    <2>6. DeleteFound'
      BY <1>0, <2>1, <2>2, <2>3 DEF DeleteFound, AlarmTypes
    <2> QED
      BY <2>4, <2>5, <2>6
  <1>3. ASSUME NEW c \in Clients, cavan_alarm_insert_node(c)
        PROVE  Goal
    <2>1. /\ link' = InsertSorted(link, target[c], time[target[c]])
          /\ apc' = [apc EXCEPT ![c] = "idle"] /\ target' = [target EXCEPT ![c] = NoNode]
          /\ UNCHANGED <<alive, running, dangling>> /\ apc[c] = "insert" /\ ~locked
      BY <1>3 DEF cavan_alarm_insert_node
    <2>2. target[c] \in Nodes /\ target[c] \in alive /\ target[c] \notin Referred
      BY <2>1 DEF InsertOwned, AlarmTypes
    <2>3. running = NoNode /\ Referred = ToSet(link)
      BY <1>0, <2>1 DEF AlarmTypes, Referred
    <2>4. ToSet(link') = ToSet(link) \cup {target[c]} /\ Injective(link')
      <3>1. link \in Seq(Nodes) /\ time \in [Nodes -> Nat] /\ time[target[c]] \in Nat
        BY <2>2 DEF AlarmTypes
      <3>2. Injective(link) /\ target[c] \notin ToSet(link)
        BY <2>2, <2>3 DEF LinkedOnce
      <3> QED
        <4>1. PICK r : r = InsertSorted(link, target[c], time[target[c]])
          OBVIOUS
        <4>2. ToSet(r) = ToSet(link) \cup {target[c]} /\ Injective(r)
          <5>1. /\ ToSet(InsertSorted(link, target[c], time[target[c]]))
                     = ToSet(link) \cup {target[c]}
                /\ Injective(InsertSorted(link, target[c], time[target[c]]))
            BY <2>2, <3>1, <3>2, InsertSortedOnce
          <5> QED
            BY <4>1, <5>1
        <4>3. link' = r
          BY <2>1, <4>1
        <4> QED
          BY <4>2, <4>3
    <2>5. Referred' = Referred \cup {target[c]}
      BY <1>0, <2>1, <2>3, <2>4 DEF Referred
    <2>6. LinkedOnce' /\ ListedAlive'
      BY <1>0, <2>1, <2>2, <2>3, <2>4 DEF LinkedOnce, ListedAlive
    <2>7. InsertOwned'
      BY <2>1, <2>5 DEF InsertOwned, AlarmTypes
    <2>8. DeleteFound'
      BY <2>1, <2>5 DEF DeleteFound, AlarmTypes
    <2> QED
      BY <2>6, <2>7, <2>8
  <1>4. ASSUME NEW c \in Clients, AlarmFind(c)
        PROVE  Goal
    <2>1. PICK n \in ToSet(link) : target' = [target EXCEPT ![c] = n]
      BY <1>4 DEF AlarmFind
    <2>2. /\ apc' = [apc EXCEPT ![c] = "delete"] /\ apc[c] = "idle"
          /\ UNCHANGED <<link, alive, running, dangling>>
      BY <1>4 DEF AlarmFind, Request
    <2>3. Referred' = Referred /\ n \in Referred /\ n \in Nodes
      BY <1>0, <2>1, <2>2 DEF Referred
    <2>4. LinkedOnce' /\ ListedAlive'
      BY <2>2 DEF LinkedOnce, ListedAlive, Injective
    <2>5. InsertOwned'
      BY <2>1, <2>2, <2>3 DEF InsertOwned, AlarmTypes
    <2>6. DeleteFound'
      BY <1>0, <2>1, <2>2, <2>3 DEF DeleteFound, AlarmTypes
    <2> QED
      BY <2>4, <2>5, <2>6
  <1>5. ASSUME NEW c \in Clients, cavan_alarm_delete_node(c)
        PROVE  Goal
    <2>1. /\ apc' = [apc EXCEPT ![c] = "idle"] /\ target' = [target EXCEPT ![c] = NoNode]
          /\ UNCHANGED running /\ apc[c] = "delete" /\ ~locked
      BY <1>5 DEF cavan_alarm_delete_node
    <2>2. CASE c \in dangling
      <3>1. UNCHANGED <<link, alive>> /\ dangling' = dangling \ {c}
        BY <1>5, <2>2 DEF cavan_alarm_delete_node
      <3>2. Referred' = Referred
        BY <2>1, <3>1 DEF Referred
      <3>3. LinkedOnce' /\ ListedAlive'
        BY <2>1, <3>1 DEF LinkedOnce, ListedAlive, Injective
      <3>4. InsertOwned'
        BY <2>1, <3>1, <3>2 DEF InsertOwned, AlarmTypes
      <3>5. DeleteFound'
        BY <2>1, <3>1, <3>2 DEF DeleteFound, AlarmTypes
      <3> QED
        BY <3>3, <3>4, <3>5
    <2>3. CASE c \notin dangling
      <3>1. /\ link' = Unlink(link, target[c]) /\ alive' = alive \ {target[c]}
            /\ dangling' = (dangling \ {c}) \cup {d \in Clients \ {c} : target[d] = target[c]}
        BY <1>5, <2>3 DEF cavan_alarm_delete_node, FreeNode
      <3>2. running = NoNode /\ Referred = ToSet(link)
        BY <1>0, <2>1 DEF AlarmTypes, Referred
      <3>3. target[c] \in Referred
        BY <2>1, <2>3 DEF DeleteFound
      <3>4. ToSet(link') = ToSet(link) \ {target[c]} /\ Injective(link')
        BY <3>1, UnlinkNodes DEF AlarmTypes, LinkedOnce
      <3>5. Referred' = Referred \ {target[c]}
        BY <1>0, <2>1, <3>2, <3>4 DEF Referred
      <3>6. LinkedOnce' /\ ListedAlive'
        BY <1>0, <1>1, <2>1, <3>1, <3>2, <3>4 DEF LinkedOnce, ListedAlive
      <3>7. InsertOwned'
        BY <2>1, <3>1, <3>3, <3>5 DEF InsertOwned, AlarmTypes
      <3>8. DeleteFound'
        <4>1. ASSUME NEW d \in Clients, apc'[d] = "delete", d \notin dangling'
              PROVE  target'[d] \in Referred'
          <5>1. d # c /\ apc[d] = "delete" /\ target'[d] = target[d]
            BY <2>1, <4>1 DEF AlarmTypes
          <5>2. d \notin dangling /\ target[d] # target[c]
            BY <3>1, <4>1, <5>1
          <5> QED
            BY <3>5, <5>1, <5>2 DEF DeleteFound
        <4>2. ASSUME NEW d \in Clients PROVE apc'[d] = "idle" <=> target'[d] = NoNode
          BY <2>1 DEF DeleteFound, AlarmTypes
        <4> QED
          BY <4>1, <4>2 DEF DeleteFound
      <3> QED
        BY <3>6, <3>7, <3>8
    <2> QED
      BY <2>2, <2>3
  <1>6. CASE TakeAlarm
    <2>1. /\ link' = Tail(link) /\ running' = First /\ link # <<>> /\ hpc = "enter"
          /\ UNCHANGED <<alive, apc, target, dangling>>
      BY <1>6 DEF TakeAlarm, Enter, clientVars
    <2>2. running = NoNode /\ Referred = ToSet(link)
      BY <1>0, <2>1 DEF AlarmTypes, Referred
    <2>3. /\ ToSet(link) = ToSet(link') \cup {First} /\ First \in Nodes
          /\ Injective(link') /\ First \notin ToSet(link')
      BY <2>1, TailNodes DEF AlarmTypes, LinkedOnce, First
    <2>4. Referred' = Referred
      BY <1>0, <2>1, <2>2, <2>3 DEF Referred
    <2>5. LinkedOnce' /\ ListedAlive'
      BY <1>1, <2>1, <2>2, <2>3 DEF LinkedOnce, ListedAlive
    <2>6. InsertOwned' /\ DeleteFound'
      BY <2>1, <2>4 DEF InsertOwned, DeleteFound
    <2> QED
      BY <2>5, <2>6
  <1>7. CASE Ran
    <2>1. hpc = "run" /\ running \in Nodes /\ running' = NoNode /\ UNCHANGED <<apc, target>>
      BY <1>7 DEF Ran, AlarmTypes
    <2>2. running \in Referred /\ Referred = ToSet(link) \cup {running} /\ running \notin ToSet(link)
      BY <1>0, <2>1 DEF Referred, LinkedOnce
    <2>3. CASE running \in repeating /\ time[running] + Repeat <= MaxTime
      <3>1. link' = InsertSorted(link, running, time[running] + Repeat) /\ UNCHANGED <<alive, dangling>>
        BY <1>7, <2>3 DEF Ran
      <3>2. time[running] + Repeat \in Nat
        BY <2>1, AlarmAssumption DEF AlarmTypes
      <3>3. ToSet(link') = ToSet(link) \cup {running} /\ Injective(link')
        <4>1. link \in Seq(Nodes) /\ time \in [Nodes -> Nat]
          BY DEF AlarmTypes
        <4>2. Injective(link) /\ running \notin ToSet(link)
          BY <2>2 DEF LinkedOnce
        <4> QED
          <5>1. PICK r : r = InsertSorted(link, running, time[running] + Repeat)
            OBVIOUS
          <5>2. ToSet(r) = ToSet(link) \cup {running} /\ Injective(r)
            <6>1. /\ ToSet(InsertSorted(link, running, time[running] + Repeat))
                       = ToSet(link) \cup {running}
                  /\ Injective(InsertSorted(link, running, time[running] + Repeat))
              BY <2>1, <3>2, <4>1, <4>2, InsertSortedOnce
            <6> QED
              BY <5>1, <6>1
          <5>3. link' = r
            BY <3>1, <5>1
          <5> QED
            BY <5>2, <5>3
      <3>4. Referred' = Referred
        BY <1>0, <2>1, <2>2, <3>3 DEF Referred
      <3>5. LinkedOnce' /\ ListedAlive'
        BY <1>0, <1>1, <2>1, <2>2, <3>1, <3>3 DEF LinkedOnce, ListedAlive
      <3>6. InsertOwned' /\ DeleteFound'
        BY <2>1, <3>1, <3>4 DEF InsertOwned, DeleteFound
      <3> QED
        BY <3>5, <3>6
    <2>4. CASE ~(running \in repeating /\ time[running] + Repeat <= MaxTime)
      <3>1. /\ UNCHANGED link /\ alive' = alive \ {running}
            /\ dangling' = (dangling \ {NoNode}) \cup {d \in Clients \ {NoNode} : target[d] = running}
        BY <1>7, <2>4 DEF Ran, FreeNode
      <3>2. Referred' = ToSet(link)
        BY <1>0, <2>1, <3>1 DEF Referred
      <3>3. LinkedOnce' /\ ListedAlive'
        BY <1>0, <1>1, <2>1, <2>2, <3>1 DEF LinkedOnce, ListedAlive
      <3>4. InsertOwned'
        BY <2>1, <2>2, <3>1, <3>2 DEF InsertOwned
      <3>5. DeleteFound'
        <4>1. ASSUME NEW d \in Clients, apc[d] = "delete", d \notin dangling'
              PROVE  target[d] \in ToSet(link)
          <5>1. d \notin dangling /\ target[d] # running
            BY <1>0, <3>1, <4>1
          <5> QED
            BY <2>2, <4>1, <5>1 DEF DeleteFound
        <4> QED
          BY <2>1, <3>2, <4>1 DEF DeleteFound
      <3> QED
        BY <3>3, <3>4, <3>5
    <2> QED
      BY <2>3, <2>4
  <1>8. CASE \/ AlarmTick \/ cavan_alarm_sighandler \/ SigalrmTraps \/ ArmAlarm \/ Suspend
             \/ AlarmReturn \/ UNCHANGED alarmVars
    <2>1. UNCHANGED <<link, alive, running, apc, target, dangling>>
      BY <1>8
      DEF AlarmTick, cavan_alarm_sighandler, SigalrmTraps, ArmAlarm, Enter, Suspend, AlarmReturn,
          alarmVars, clientVars
    <2> QED
      BY <2>1, AlarmOwnUnchanged
  <1> QED
    BY <1>2, <1>3, <1>4, <1>5, <1>6, <1>7, <1>8
    DEF AlarmNext, AlarmHandler, AlarmLoop, Killed, AlarmManage

\* The alarm thread's invariant, for any clients, nodes and controllers.
THEOREM AlarmInvariant == AlarmSafeSpec => []AlarmInv
  <1>1. AlarmInit => AlarmInv
    <2> SUFFICES ASSUME AlarmInit PROVE AlarmInv
      OBVIOUS
    <2>1. AlarmTypes
      <3>1. link \in Seq(Nodes) /\ alive \subseteq Nodes /\ dangling \subseteq Clients
        BY DEF AlarmInit
      <3>2. time \in [Nodes -> Nat]
        BY DEF AlarmInit
      <3>3. /\ apc \in [Clients -> {"idle", "insert", "delete"}]
            /\ target \in [Clients -> Nodes \cup {NoNode}]
        BY DEF AlarmInit
      <3>4. hpc = "enter" /\ locked = FALSE /\ running = NoNode
        BY DEF AlarmInit
      <3> QED
        BY <3>1, <3>2, <3>3, <3>4 DEF AlarmTypes
    <2>2. InsertOwned /\ DeleteFound
      BY DEF AlarmInit, InsertOwned, DeleteFound
    <2>3. LinkedOnce /\ ListedAlive
      BY DEF AlarmInit, LinkedOnce, ListedAlive, Injective, ToSet
    <2> QED
      BY <2>1, <2>2, <2>3 DEF AlarmInv
  <1>2. AlarmInv /\ [AlarmNext]_alarmServiceVars => AlarmInv'
    <2> SUFFICES ASSUME AlarmInv, [AlarmNext]_alarmServiceVars PROVE AlarmInv'
      OBVIOUS
    <2>1. CASE AlarmNext
      BY <2>1, AlarmTypesStep, AlarmOwnStep DEF AlarmInv
    <2>2. CASE UNCHANGED alarmServiceVars
      <3>1. UNCHANGED alarmVars
        BY <2>2 DEF alarmServiceVars
      <3>2. AlarmTypes'
        BY <3>1 DEF AlarmInv, AlarmTypes, alarmVars
      <3>3. InsertOwned' /\ DeleteFound' /\ LinkedOnce' /\ ListedAlive'
        BY <3>1, AlarmOwnUnchanged DEF AlarmInv, alarmVars
      <3> QED
        BY <3>2, <3>3 DEF AlarmInv
    <2> QED
      BY <2>1, <2>2
  <1> QED
    BY <1>1, <1>2, PTL DEF AlarmSafeSpec

\* What the list or the worker refers to has not been freed, whichever remove requests
\* meet the worker and each other.
THEOREM AlarmsAlive == AlarmSafeSpec => []ListedAlive
  BY AlarmInvariant, PTL DEF AlarmInv
=============================================================================
