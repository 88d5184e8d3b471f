---------------------------- MODULE WindowProofs ----------------------------
(***************************************************************************)
(* Proofs about the window, for every set of parameters, layout, depth,     *)
(* capacity of the log and length of a behaviour: the panels draw what the  *)
(* session filed and logged, and what a row offers is what it does.         *)
(***************************************************************************)
EXTENDS Window, EventLogProofs

-----------------------------------------------------------------------------
(***************************************************************************)
(* The last n of a sequence, and sequences in order of time.                *)
(***************************************************************************)
LEMMA LastOfAt ==
    ASSUME NEW S, NEW s \in Seq(S), NEW n \in Nat
    PROVE  /\ LastOf(s, n) \in Seq(S)
           /\ Len(LastOf(s, n)) = IF Len(s) < n THEN Len(s) ELSE n
           /\ \A i \in 1..Len(LastOf(s, n)) :
                LastOf(s, n)[i] = s[Len(s) - Len(LastOf(s, n)) + i]
           /\ \A i \in 1..Len(LastOf(s, n)) :
                Len(s) - Len(LastOf(s, n)) + i \in 1..Len(s)
<1> DEFINE k == Len(s)
           m == Larger(0, k - n) + 1
           t == SubSeq(s, m, k)
<1>1. k \in Nat /\ \A i \in 1..k : s[i] \in S
    BY LenProperties, ElementOfSeq
<1>2. m \in Int /\ m = (IF k < n THEN 1 ELSE k - n + 1) /\ m..k \subseteq 1..k
    <2> HIDE DEF k
    <2> QED BY <1>1 DEF Larger
<1> HIDE DEF k, m
<1>3. /\ t \in Seq(S)
      /\ Len(t) = IF m <= k THEN k - m + 1 ELSE 0
      /\ \A i \in 1..k - m + 1 : t[i] = s[m + i - 1]
    <2>1. \A i \in m..k : s[i] \in S
        BY <1>1, <1>2
    <2> QED BY <1>1, <1>2, <2>1, SubSeqProperties
<1> HIDE DEF t
<1>4. Len(t) = (IF k < n THEN k ELSE n) /\ Len(t) = k - m + 1
    BY <1>1, <1>2, <1>3
<1>5. ASSUME NEW i \in 1..Len(t)
      PROVE  t[i] = s[k - Len(t) + i] /\ k - Len(t) + i \in 1..k
    <2>1. i \in 1..k - m + 1 /\ m + i - 1 = k - Len(t) + i
        BY <1>1, <1>2, <1>4
    <2>2. k - Len(t) + i \in 1..k
        BY <1>1, <1>2, <1>4
    <2> QED BY <1>3, <2>1, <2>2
<1>6. LastOf(s, n) = t
    BY DEF LastOf, t, m, k
<1> QED BY <1>3, <1>4, <1>5, <1>6 DEF k

LEMMA LastOfAll ==
    ASSUME NEW S, NEW s \in Seq(S), NEW n \in Nat, Len(s) <= n
    PROVE  LastOf(s, n) = s
<1> DEFINE t == LastOf(s, n)
<1>1. Len(s) \in Nat
    BY LenProperties
<1>2. /\ t \in Seq(S) /\ Len(t) = IF Len(s) < n THEN Len(s) ELSE n
      /\ \A i \in 1..Len(t) : t[i] = s[Len(s) - Len(t) + i]
    BY LastOfAt
<1> HIDE DEF t
<1>3. Len(t) = Len(s)
    BY <1>1, <1>2
<1>4. \A i \in 1..Len(t) : t[i] = s[i]
    BY <1>1, <1>2, <1>3
<1>5. t = s
    BY <1>2, <1>3, <1>4, SeqEqual
<1> QED BY <1>5 DEF t

Increasing(s) == \A i, j \in 1..Len(s) : i < j => s[i] < s[j]

LEMMA LastAreIncreasing ==
    ASSUME NEW s \in Seq(Nat), NEW n \in Nat, Increasing(s)
    PROVE  Increasing(LastOf(s, n))
<1> DEFINE t == LastOf(s, n)
           d == Len(s) - Len(t)
<1>1. Len(s) \in Nat /\ Len(t) \in Nat
    BY LastOfAt, LenProperties
<1>2. /\ \A i \in 1..Len(t) : t[i] = s[d + i]
      /\ \A i \in 1..Len(t) : d + i \in 1..Len(s)
    BY LastOfAt
<1>3. d \in Int
    BY <1>1
<1> HIDE DEF t, d
<1>4. \A i, j \in 1..Len(t) : i < j => d + i < d + j
    BY <1>3
<1>5. Increasing(t)
    BY <1>2, <1>4 DEF Increasing
<1> QED BY <1>5 DEF t

LEMMA AppendIncreases ==
    ASSUME NEW k \in Nat, NEW s \in Seq(1..k), Increasing(s), NEW x \in Nat, x > k
    PROVE  Increasing(Append(s, x))
<1> DEFINE t == Append(s, x)
           n == Len(s)
<1>1. s \in Seq(Nat) /\ n \in Nat /\ \A i \in 1..n : s[i] \in 1..k
    <2>1. 1..k \subseteq Nat
        OBVIOUS
    <2> QED BY <2>1, SeqMonotonic, LenProperties, ElementOfSeq
<1>2. Len(t) = n + 1 /\ t[n + 1] = x /\ \A i \in 1..n : t[i] = s[i]
    BY <1>1, AppendProperties
<1> HIDE DEF t, n
<1>3. ASSUME NEW i \in 1..n + 1, NEW j \in 1..n + 1, i < j
      PROVE  t[i] < t[j]
    <2>1. i \in 1..n
        BY <1>1, <1>3
    <2>2. CASE j = n + 1
        <3>1. t[i] \in 1..k /\ t[j] = x
            BY <1>1, <1>2, <2>1, <2>2
        <3> QED BY <3>1
    <2>3. CASE j # n + 1
        <3>1. j \in 1..n
            BY <1>1, <2>3
        <3> QED BY <1>2, <1>3, <2>1, <3>1 DEF Increasing, n
    <2> QED BY <2>2, <2>3
<1> QED BY <1>2, <1>3 DEF Increasing, t
-----------------------------------------------------------------------------
(***************************************************************************)
(* A ring that is pushed to, or resized, holds the last of what it would    *)
(* hold without a limit.                                                    *)
(***************************************************************************)
LEMMA RingOfMore ==
    ASSUME NEW S, NEW T, S \subseteq T, NEW ring, Ring(ring, S)
    PROVE  Ring(ring, T)
<1>1. ring.items \in Seq(T)
    BY SeqMonotonic DEF Ring
<1> QED BY <1>1 DEF Ring

LEMMA PushKeepsLast ==
    ASSUME NEW Item, NEW ring, Ring(ring, Item), NEW item \in Item, ring.capacity # 0
    PROVE  /\ Ring(Push(ring, item), Item)
           /\ Push(ring, item).capacity = ring.capacity
           /\ Contents(Push(ring, item)) = LastOf(Append(Contents(ring), item), ring.capacity)
<1> DEFINE was == Contents(ring)
           is == Contents(Push(ring, item))
           all == Append(was, item)
           c == ring.capacity
           n == Len(was)
<1>1. /\ Ring(Push(ring, item), Item) /\ Push(ring, item).capacity = c
      /\ Len(ring.items) < c => is = Append(was, item)
      /\ Len(ring.items) = c => is = Append(Tail(was), item)
    BY ContentsAfterPush
<1>2. was \in Seq(Item) /\ n = Len(ring.items) /\ n \in Nat /\ c \in Nat /\ n <= c
    BY ContentsAt, LenProperties DEF Ring
<1> HIDE DEF was, is, c
<1>3. /\ all \in Seq(Item) /\ Len(all) = n + 1
      /\ \A i \in 1..n : all[i] = was[i]
      /\ all[n + 1] = item
    BY <1>2, AppendProperties
<1> HIDE DEF all
<1>4. CASE n < c
    <2>1. Len(all) <= c
        BY <1>2, <1>3, <1>4
    <2>2. LastOf(all, c) = all
        BY <1>2, <1>3, <2>1, LastOfAll
    <2> QED BY <1>1, <1>2, <1>4, <2>2 DEF all, is, was, c
<1>5. CASE n = c
    <2> DEFINE t == LastOf(all, c)
    <2>1. /\ t \in Seq(Item) /\ Len(t) = c
          /\ \A i \in 1..c : t[i] = all[i + 1]
        <3>1. /\ t \in Seq(Item) /\ Len(t) = IF Len(all) < c THEN Len(all) ELSE c
              /\ \A i \in 1..Len(t) : t[i] = all[Len(all) - Len(t) + i]
            <4>1. all \in Seq(Item) /\ c \in Nat
                BY <1>2, <1>3
            <4> QED BY <4>1, LastOfAt
        <3> HIDE DEF t, n
        <3>a. Len(all) = c + 1 /\ c \in Nat
            BY <1>2, <1>3, <1>5
        <3>b. ~(Len(all) < c)
            BY <3>a
        <3>2. Len(t) = c
            BY <3>1, <3>b
        <3>3. \A i \in 1..c : Len(all) - Len(t) + i = i + 1
            BY <3>a, <3>2
        <3> QED BY <3>1, <3>2, <3>3
    <2>2. was # <<>>
        <3>1. n # 0
            BY <1>2, <1>5 DEF c
        <3> QED BY <3>1, EmptySeq DEF n
    <2> DEFINE r == Tail(was)
    <2>3. r \in Seq(Item) /\ Len(r) = n - 1 /\ \A i \in 1..Len(r) : r[i] = was[i + 1]
        BY <1>2, <2>2, HeadTailProperties
    <2> HIDE DEF t, r
    <2>4. /\ is = Append(r, item)
          /\ is \in Seq(Item) /\ Len(is) = Len(r) + 1 /\ is[Len(r) + 1] = item
          /\ \A i \in 1..Len(r) : is[i] = r[i]
        <3>1. is = Append(r, item)
            BY <1>1, <1>2, <1>5 DEF r
        <3> QED BY <2>3, <3>1, AppendProperties
    <2>5. ASSUME NEW i \in 1..c
          PROVE  is[i] = t[i]
        <3>1. CASE i = c
            BY <3>1, <1>2, <1>3, <1>5, <2>1, <2>3, <2>4
        <3>2. CASE i # c
            <4>1. i \in 1..Len(r) /\ i + 1 \in 1..n
                BY <1>2, <1>5, <2>3, <3>2
            <4> QED BY <4>1, <1>3, <2>1, <2>3, <2>4
        <3> QED BY <3>1, <3>2
    <2>6. Len(is) = c
        BY <1>2, <1>5, <2>3, <2>4
    <2>7. is = t
        BY <2>1, <2>4, <2>5, <2>6, SeqEqual
    <2> QED BY <1>1, <2>7 DEF t, is, was, all, c
<1> QED BY <1>2, <1>4, <1>5

LEMMA ResizeKeepsLast ==
    ASSUME NEW Item, NEW ring, Ring(ring, Item), NEW capacity \in Nat
    PROVE  /\ Ring(Resize(ring, capacity), Item)
           /\ Resize(ring, capacity).capacity = capacity
           /\ Contents(Resize(ring, capacity)) = LastOf(Contents(ring), capacity)
<1> DEFINE was == Contents(ring)
           n == Len(ring.items)
<1>1. /\ was \in Seq(Item) /\ Len(was) = n /\ n \in Nat /\ n <= ring.capacity
      /\ \A i \in 1..n : was[i] = At(ring, i - 1)
    BY ContentsAt, LenProperties DEF Ring
<1>2. CASE capacity = ring.capacity
    <2>1. Resize(ring, capacity) = ring
        BY <1>2 DEF Resize
    <2>2. LastOf(was, capacity) = was
        <3> HIDE DEF was, n
        <3> QED BY <1>1, <1>2, LastOfAll
    <2> QED BY <1>2, <2>1, <2>2
<1>3. CASE capacity # ring.capacity
    <2> DEFINE fit == IF n < capacity THEN n ELSE capacity
               items == [i \in 1..fit |-> At(ring, n - fit + i - 1)]
               is == [items |-> items, head |-> 0, capacity |-> capacity]
               t == LastOf(was, capacity)
    <2>1. Resize(ring, capacity) = is
        BY <1>3 DEF Resize, Least
    <2>2. fit \in Nat /\ fit <= capacity /\ fit <= n
        BY <1>1
    <2>3. /\ t \in Seq(Item) /\ Len(t) = fit
          /\ \A i \in 1..fit : t[i] = was[n - fit + i]
          /\ \A i \in 1..fit : n - fit + i \in 1..n
        <3> HIDE DEF was, n
        <3>1. /\ t \in Seq(Item) /\ Len(t) = IF Len(was) < capacity THEN Len(was) ELSE capacity
              /\ \A i \in 1..Len(t) : t[i] = was[Len(was) - Len(t) + i]
              /\ \A i \in 1..Len(t) : Len(was) - Len(t) + i \in 1..Len(was)
            BY <1>1, LastOfAt
        <3> HIDE DEF t
        <3>2. Len(t) = fit
            BY <1>1, <3>1
        <3> QED BY <1>1, <3>1, <3>2
    <2>4. DOMAIN t = 1..fit /\ t = [i \in 1..fit |-> t[i]]
        <3> HIDE DEF t, fit
        <3> QED BY <2>3, LenProperties
    <2>5. ASSUME NEW i \in 1..fit
          PROVE  t[i] = At(ring, n - fit + i - 1)
        <3> HIDE DEF t, fit, was, n
        <3>1. n - fit + i \in 1..n /\ t[i] = was[n - fit + i]
            BY <2>3
        <3>2. was[n - fit + i] = At(ring, (n - fit + i) - 1)
            BY <1>1, <3>1
        <3>3. (n - fit + i) - 1 = n - fit + i - 1
            BY <1>1, <2>2
        <3> QED BY <3>1, <3>2, <3>3
    <2>6. t = items
        <3> HIDE DEF t, fit
        <3> QED BY <2>4, <2>5
    <2> HIDE DEF t, items, fit
    <2>7. Ring(is, Item)
        BY <2>2, <2>3, <2>6 DEF Ring
    <2>8. Contents(is) = items
        <3>1. ~Wraps(is)
            BY DEF Wraps
        <3> QED BY <3>1, <2>3, <2>6, ConcatEmptySeq DEF Contents, OldHalf, NewHalf
    <2> QED BY <2>1, <2>6, <2>7, <2>8 DEF t, is
<1> QED BY <1>2, <1>3

-----------------------------------------------------------------------------
(***************************************************************************)
(* Searches: in points in order of time, those before a time come first.    *)
(***************************************************************************)
LEMMA PartitionPoint ==
    ASSUME NEW s \in Seq(Nat), Increasing(s), NEW t \in Nat
    PROVE  /\ PointsBefore(s, t) \in Nat /\ PointsBefore(s, t) <= Len(s)
           /\ \A i \in 1..Len(s) : s[i] < t <=> i <= PointsBefore(s, t)
<1> DEFINE n == Len(s)
           Passing == {i \in 1..n : s[i] < t}
           T == {i \in 1..n + 1 : i \notin Passing}
<1>1. n \in Nat /\ DOMAIN s = 1..n /\ \A i \in 1..n : s[i] \in Nat
    BY LenProperties, ElementOfSeq
<1> HIDE DEF n
<1>2. T \subseteq Nat /\ n + 1 \in T
    BY <1>1
<1>3. PICK m \in T : \A i \in T : m <= i
    BY <1>2, LeastNumber
<1>4. m \in 1..n + 1 /\ m \notin Passing
    BY <1>3
<1>5. ASSUME NEW i \in 1..n
      PROVE  s[i] < t <=> i <= m - 1
    <2>1. CASE i < m
        <3>1. i \notin T
            BY <1>1, <1>3, <1>4, <2>1
        <3>2. i \in 1..n + 1
            BY <1>1
        <3>3. s[i] < t
            BY <3>1, <3>2
        <3> QED BY <1>1, <1>4, <2>1, <3>3
    <2>2. CASE ~(i < m)
        <3>1. m \in 1..n
            BY <1>1, <1>4, <2>2
        <3>2. ~(s[m] < t)
            BY <1>4, <3>1
        <3>3. m = i \/ s[m] < s[i]
            BY <1>1, <1>4, <2>2, <3>1 DEF Increasing, n
        <3>4. s[m] \in Nat /\ s[i] \in Nat
            BY <1>1, <3>1
        <3>5. ~(s[i] < t)
            BY <3>2, <3>3, <3>4
        <3> QED BY <1>1, <1>4, <2>2, <3>5
    <2> QED BY <2>1, <2>2
<1>6. Passing = 1..m - 1
    <2>1. \A i \in 1..m - 1 : i \in 1..n
        BY <1>1, <1>4
    <2>2. \A i \in 1..n : i \in Passing <=> i \in 1..m - 1
        BY <1>1, <1>4, <1>5
    <2> QED BY <2>1, <2>2
<1> HIDE DEF Passing, T
<1>7. m - 1 \in Nat /\ m - 1 <= n /\ m \in Int
    BY <1>1, <1>4
<1>8. Cardinality(1..m - 1) = m - 1
    <2>1. Cardinality(1..m - 1) = IF 1 > m - 1 THEN 0 ELSE (m - 1) - 1 + 1
        BY <1>7, FS_Interval
    <2> QED BY <1>7, <2>1
<1>9. PointsBefore(s, t) = m - 1
    BY <1>1, <1>6, <1>8 DEF PointsBefore, Passing
<1> QED BY <1>5, <1>7, <1>9 DEF n

LEMMA UptoIsBefore ==
    ASSUME NEW s \in Seq(Nat), NEW t \in Nat
    PROVE  PointsUpto(s, t) = PointsBefore(s, t + 1)
<1>1. \A i \in DOMAIN s : s[i] \in Nat
    BY LenProperties, ElementOfSeq
<1>2. \A i \in DOMAIN s : s[i] <= t <=> s[i] < t + 1
    BY <1>1
<1>3. {i \in DOMAIN s : s[i] <= t} = {i \in DOMAIN s : s[i] < t + 1}
    BY <1>2
<1> QED BY <1>3 DEF PointsUpto, PointsBefore

(* A bound that is not inside the older half is inside the newer.           *)
LEMMA HalvesSearched ==
    ASSUME NEW old \in Seq(Nat), NEW new \in Seq(Nat), Increasing(old \o new), NEW t \in Nat
    PROVE  (IF PointsBefore(old, t) < Len(old) THEN PointsBefore(old, t)
                                               ELSE Len(old) + PointsBefore(new, t))
             = PointsBefore(old \o new, t)
<1> DEFINE m == Len(old)
           n == Len(new)
           all == old \o new
           a == PointsBefore(old, t)
           b == PointsBefore(new, t)
           k == PointsBefore(all, t)
           j == IF a < m THEN a ELSE m + b
<1>1. /\ all \in Seq(Nat) /\ Len(all) = m + n /\ m \in Nat /\ n \in Nat
      /\ \A i \in 1..m + n : all[i] = IF i <= m THEN old[i] ELSE new[i - m]
    BY ConcatProperties, LenProperties
<1> HIDE DEF all, m, n
<1>2. \A i \in 1..m : all[i] = old[i] /\ i \in 1..m + n
    BY <1>1
<1>3. \A i \in 1..n : all[m + i] = new[i] /\ m + i \in 1..m + n
    <2>1. \A i \in 1..n : m + i \in 1..m + n /\ ~(m + i <= m) /\ (m + i) - m = i
        BY <1>1
    <2> QED BY <1>1, <2>1
<1>4. Increasing(old)
    BY <1>1, <1>2 DEF Increasing, m, all
<1>5. Increasing(new)
    <2>1. \A i, l \in 1..n : i < l => m + i < m + l
        BY <1>1
    <2>2. \A i, l \in 1..m + n : i < l => all[i] < all[l]
        BY <1>1 DEF Increasing, all
    <2>3. \A i, l \in 1..n : i < l => new[i] < new[l]
        BY <1>3, <2>1, <2>2
    <2> QED BY <2>3 DEF Increasing, n
<1>6. /\ a \in Nat /\ a <= m
      /\ \A i \in 1..m : old[i] < t <=> i <= a
    BY <1>4, PartitionPoint DEF m
<1>7. /\ b \in Nat /\ b <= n
      /\ \A i \in 1..n : new[i] < t <=> i <= b
    BY <1>5, PartitionPoint DEF n
<1>8. /\ k \in Nat /\ k <= m + n
      /\ \A i \in 1..m + n : all[i] < t <=> i <= k
    <2>1. Increasing(all)
        BY DEF all
    <2> QED BY <1>1, <2>1, PartitionPoint
<1> HIDE DEF a, b, k
<1>9. CASE a < m
    <2>1. \A i \in 1..m : i <= a <=> i <= k
        BY <1>2, <1>6, <1>8
    <2>2. a + 1 \in 1..m
        BY <1>1, <1>6, <1>9
    <2>3. k < a + 1
        BY <1>6, <1>8, <2>1, <2>2
    <2>4. a = 0 \/ a \in 1..m
        BY <1>1, <1>6
    <2>5. a <= k
        BY <1>6, <1>8, <2>1, <2>4
    <2>6. a = k
        BY <1>6, <1>8, <2>3, <2>5
    <2> QED BY <1>9, <2>6 DEF a, k, m, all
<1>10. CASE ~(a < m)
    <2>1. \A i \in 1..n : i <= b <=> m + i <= k
        BY <1>3, <1>7, <1>8
    <2>2. m <= k
        <3>1. m = 0 \/ m \in 1..m
            BY <1>1
        <3>2. m \in 1..m => m <= k
            BY <1>2, <1>6, <1>8, <1>10
        <3> QED BY <1>8, <3>1, <3>2
    <2>3. m + b <= k
        <3>1. b = 0 \/ b \in 1..n
            BY <1>1, <1>7
        <3>2. b = 0 => m + b <= k
            BY <1>1, <2>2
        <3>3. b \in 1..n => m + b <= k
            BY <1>7, <2>1
        <3> QED BY <3>1, <3>2, <3>3
    <2>4. k <= m + b
        <3>1. SUFFICES ASSUME m + b < k
                       PROVE  FALSE
            BY <1>1, <1>7, <1>8
        <3>2. b + 1 \in 1..n /\ m + (b + 1) <= k
            BY <1>1, <1>7, <1>8, <3>1
        <3>3. b + 1 <= b
            BY <2>1, <3>2
        <3> QED BY <1>7, <3>3
    <2>5. m + b = k
        BY <1>1, <1>7, <1>8, <2>3, <2>4
    <2> QED BY <1>10, <2>5 DEF a, b, k, m, all
<1> QED BY <1>9, <1>10

(***************************************************************************)
(* A range selects every point inside it and one more to either side.       *)
(***************************************************************************)
Around(all, low, high) ==
    LET earlier == {i \in DOMAIN all : all[i] < low}
        later == {i \in DOMAIN all : all[i] > high}
    IN  SubSeq(all, IF earlier = {} THEN 1 ELSE Max(earlier),
                    IF later = {} THEN Len(all) ELSE Min(later))

LEMMA RangeIsCovered ==
    ASSUME NEW g \in Nat, NEW ring, Ring(ring, 1..g), NEW all, all = Contents(ring),
           Increasing(all), NEW low \in Nat, NEW high \in Nat
    PROVE  Points(ring, <<low, high>>) = Around(all, low, high)
<1> DEFINE earlier == {i \in DOMAIN all : all[i] < low}
           later == {i \in DOMAIN all : all[i] > high}
<1>0. /\ earlier = {i \in DOMAIN all : all[i] < low}
      /\ later = {i \in DOMAIN all : all[i] > high}
    OBVIOUS
<1> HIDE DEF earlier, later
<1> DEFINE old == OldHalf(ring)
           new == NewHalf(ring)
           n == Len(all)
           a == PointsBefore(all, low)
           b == PointsBefore(all, high + 1)
<1>1. /\ all \in Seq(Nat) /\ n = Len(ring.items) /\ n \in Nat /\ DOMAIN all = 1..n
      /\ \A i \in 1..n : all[i] \in Nat
    <2>1. all \in Seq(1..g) /\ n = Len(ring.items)
        BY ContentsAt
    <2>2. all \in Seq(Nat)
        <3>1. 1..g \subseteq Nat
            OBVIOUS
        <3> QED BY <2>1, <3>1, SeqMonotonic
    <2> QED BY <2>1, <2>2, LenProperties, ElementOfSeq
<1>2. old \in Seq(Nat) /\ new \in Seq(Nat) /\ all = old \o new
    <2>1. ring.items \in Seq(Nat) /\ ring.head \in Nat /\ Len(ring.items) \in Nat
        <3>1. 1..g \subseteq Nat
            OBVIOUS
        <3> QED BY <3>1, SeqMonotonic, LenProperties DEF Ring
    <2>2. CASE Wraps(ring)
        <3>1. ring.head < Len(ring.items)
            BY <2>2 DEF Wraps, Ring
        <3>2. \A i \in 1..Len(ring.items) : ring.items[i] \in Nat
            BY <2>1, ElementOfSeq
        <3>3. SubSeq(ring.items, ring.head + 1, Len(ring.items)) \in Seq(Nat)
            <4>1. \A i \in ring.head + 1 .. Len(ring.items) : ring.items[i] \in Nat
                BY <2>1, <3>2
            <4> QED BY <2>1, <4>1, SubSeqProperties
        <3>4. SubSeq(ring.items, 1, ring.head) \in Seq(Nat)
            <4>1. \A i \in 1..ring.head : ring.items[i] \in Nat
                BY <2>1, <3>1, <3>2
            <4> QED BY <2>1, <4>1, SubSeqProperties
        <3> QED BY <2>2, <3>3, <3>4 DEF OldHalf, NewHalf, Contents
    <2>3. CASE ~Wraps(ring)
        BY <2>1, <2>3, EmptySeq DEF OldHalf, NewHalf, Contents
    <2> QED BY <2>2, <2>3
<1>3. /\ a \in Nat /\ a <= n /\ \A i \in 1..n : all[i] < low <=> i <= a
      /\ b \in Nat /\ b <= n /\ \A i \in 1..n : all[i] < high + 1 <=> i <= b
    <2>1. high + 1 \in Nat
        OBVIOUS
    <2>2. a \in Nat /\ a <= n /\ \A i \in 1..n : all[i] < low <=> i <= a
        BY <1>1, PartitionPoint
    <2>3. b \in Nat /\ b <= n /\ \A i \in 1..n : all[i] < high + 1 <=> i <= b
        BY <1>1, <2>1, PartitionPoint
    <2> QED BY <2>2, <2>3
<1>a. a \in Nat /\ b \in Nat /\ a <= n /\ b <= n
    BY <1>3
<1>4. VisibleRange(ring, <<low, high>>) = <<Larger(1, a) - 1, Smaller(b + 1, n)>>
    <2>1. <<low, high>> # NoRange /\ <<low, high>>[1] = low /\ <<low, high>>[2] = high
        BY DEF NoRange
    <2>2. (IF PointsBefore(old, low) < Len(old) THEN PointsBefore(old, low)
                                                ELSE Len(old) + PointsBefore(new, low)) = a
        BY <1>2, HalvesSearched
    <2>3. (IF PointsUpto(old, high) < Len(old) THEN PointsUpto(old, high)
                                               ELSE Len(old) + PointsUpto(new, high)) = b
        <3>1. PointsUpto(old, high) = PointsBefore(old, high + 1)
              /\ PointsUpto(new, high) = PointsBefore(new, high + 1)
            BY <1>2, UptoIsBefore
        <3>2. high + 1 \in Nat
            OBVIOUS
        <3> QED BY <1>2, <3>1, <3>2, HalvesSearched
    <2> HIDE DEF a, b, n
    <2> QED BY <1>1, <2>1, <2>2, <2>3 DEF VisibleRange, n
<1> HIDE DEF a, b, n, old, new
<1>5. (IF earlier = {} THEN 1 ELSE Max(earlier)) = Larger(1, a)
    <2>1. earlier = 1..a
        <3>1. \A i \in 1..n : i \in earlier <=> i \in 1..a
            BY <1>0, <1>1, <1>3
        <3>2. \A i \in 1..a : i \in 1..n
            BY <1>1, <1>3
        <3> QED BY <1>0, <1>1, <3>1, <3>2
    <2>2. CASE a = 0
        <3>1. 1..a = {} /\ Larger(1, a) = 1
            BY <2>2 DEF Larger
        <3> QED BY <2>1, <3>1
    <2>3. CASE a # 0
        <3>1. a \in 1..a /\ (\A y \in 1..a : a >= y)
              /\ \A x \in 1..a : (\A y \in 1..a : x >= y) => x = a
            BY <1>3, <2>3
        <3>2. Max(1..a) = a
            BY <3>1 DEF Max
        <3>3. 1..a # {} /\ Larger(1, a) = a
            BY <1>a, <2>3, <3>1 DEF Larger
        <3> QED BY <2>1, <3>2, <3>3
    <2> QED BY <2>2, <2>3
<1>6. (IF later = {} THEN n ELSE Min(later)) = Smaller(b + 1, n)
    <2>1. later = b + 1..n
        <3>1. \A i \in 1..n : all[i] > high <=> ~(all[i] < high + 1)
            BY <1>1
        <3>2. \A i \in 1..n : i \in later <=> ~(i <= b)
            BY <1>0, <1>1, <1>3, <3>1
        <3>3. \A i \in b + 1..n : i \in 1..n /\ ~(i <= b)
            BY <1>1, <1>3
        <3>4. \A i \in 1..n : ~(i <= b) => i \in b + 1..n
            BY <1>1, <1>3
        <3> QED BY <1>0, <1>1, <3>2, <3>3, <3>4
    <2>2. CASE b = n
        <3>1. b + 1..n = {} /\ Smaller(b + 1, n) = n
            BY <1>1, <1>3, <2>2 DEF Smaller
        <3> QED BY <2>1, <3>1
    <2>3. CASE b # n
        <3>1. b + 1 \in b + 1..n /\ (\A y \in b + 1..n : b + 1 <= y)
              /\ \A x \in b + 1..n : (\A y \in b + 1..n : x <= y) => x = b + 1
            BY <1>1, <1>3, <2>3
        <3>2. Min(b + 1..n) = b + 1
            BY <3>1 DEF Min
        <3>3. b + 1..n # {} /\ Smaller(b + 1, n) = b + 1
            BY <1>1, <1>3, <2>3, <3>1 DEF Smaller
        <3> QED BY <2>1, <3>2, <3>3
    <2> QED BY <2>2, <2>3
<1> DEFINE x == Larger(1, a) - 1
           y == Smaller(b + 1, n)
<1>7. x + 1 = Larger(1, a)
    BY <1>a DEF Larger
<1>8. VisibleRange(ring, <<low, high>>) = <<x, y>>
    BY <1>4
<1> HIDE DEF x, y
<1>9. Points(ring, <<low, high>>) = SubSeq(all, x + 1, y)
    <2>1. Points(ring, <<low, high>>) = SubSeq(all, <<x, y>>[1] + 1, <<x, y>>[2])
        BY <1>8, Zenon DEF Points
    <2>2. <<x, y>>[1] = x /\ <<x, y>>[2] = y
        OBVIOUS
    <2> QED BY <2>1, <2>2, Zenon
<1>10. Points(ring, <<low, high>>)
         = SubSeq(all, IF earlier = {} THEN 1 ELSE Max(earlier),
                       IF later = {} THEN Len(all) ELSE Min(later))
    <2>1. x + 1 = (IF earlier = {} THEN 1 ELSE Max(earlier))
        BY <1>5, <1>7
    <2>2. y = (IF later = {} THEN Len(all) ELSE Min(later))
        BY <1>6 DEF y, n
    <2> QED BY <1>9, <2>1, <2>2, Zenon
<1> QED BY <1>10 DEF Around, earlier, later

-----------------------------------------------------------------------------
(***************************************************************************)
(* The bounds of a behaviour.                                               *)
(***************************************************************************)
Budget == [packets : Nat, lines : Nat, inputs : Nat]

LEMMA MostIsMost ==
    ASSUME NEW kind \in {"packets", "lines"}, NEW b \in Budgets
    PROVE  Most(kind) \in Nat /\ b[kind] <= Most(kind)
<1> DEFINE Greatest(U, m) == m \in U /\ \A x \in U : x[kind] <= m[kind]
           T == {k \in Nat : \E U \in SUBSET Budgets :
                    Cardinality(U) = k /\ U # {} /\ ~\E m \in Budgets : Greatest(U, m)}
<1>a. \A x \in Budgets : x[kind] \in Nat
    BY WindowAssumption
<1>b. \A U \in SUBSET Budgets : IsFiniteSet(U) /\ Cardinality(U) \in Nat
    BY WindowAssumption, FS_Subset, FS_CardinalityType
<1>1. T = {}
    <2> SUFFICES ASSUME T # {}
                 PROVE  FALSE
        OBVIOUS
    <2>1. PICK k \in T : \A j \in T : k <= j
        BY LeastNumber
    <2>2. PICK U \in SUBSET Budgets :
                Cardinality(U) = k /\ U # {} /\ ~\E m \in Budgets : Greatest(U, m)
        OBVIOUS
    <2>3. PICK x \in U : TRUE
        BY <2>2
    <2> DEFINE V == U \ {x}
    <2>4. /\ V \in SUBSET Budgets /\ Cardinality(V) = k - 1 /\ k \in Nat /\ k - 1 \in Nat
          /\ U = V \union {x} /\ x \in Budgets
        <3>1. V \in SUBSET Budgets /\ U = V \union {x} /\ x \in Budgets /\ k \in Nat
            BY <2>2, <2>3
        <3>2. IsFiniteSet(U) /\ x \in U
            BY <1>b, <2>2, <2>3
        <3>3. Cardinality(V) = Cardinality(U) - 1
            BY <3>2, FS_RemoveElement
        <3>4. Cardinality(V) = k - 1 /\ Cardinality(V) \in Nat
            BY <1>b, <2>2, <3>1, <3>3
        <3> QED BY <3>1, <3>4
    <2> HIDE DEF V
    <2>5. k - 1 \notin T
        <3> HIDE DEF T
        <3> QED BY <2>1, <2>4
    <2>6. CASE V = {}
        <3>1. x[kind] <= x[kind]
            BY <1>a, <2>4
        <3>2. Greatest(U, x)
            BY <2>4, <2>6, <3>1
        <3> QED BY <2>2, <2>4, <3>2
    <2>7. CASE V # {}
        <3>1. PICK m \in Budgets : Greatest(V, m)
            BY <2>4, <2>5, <2>7
        <3>2. CASE m[kind] <= x[kind]
            <4>1. \A y \in U : y[kind] <= x[kind]
                BY <1>a, <2>4, <3>1, <3>2
            <4> QED BY <2>2, <2>3, <2>4, <4>1
        <3>3. CASE ~(m[kind] <= x[kind])
            <4>1. \A y \in U : y[kind] <= m[kind]
                BY <1>a, <2>4, <3>1, <3>3
            <4> QED BY <2>2, <2>4, <3>1, <4>1
        <3> QED BY <3>2, <3>3
    <2> QED BY <2>6, <2>7
<1>2. Cardinality(Budgets) \in Nat /\ Budgets # {}
    BY <1>b
<1>3. PICK m \in Budgets : \A x \in Budgets : x[kind] <= m[kind]
    BY <1>1, <1>2
<1> DEFINE S == {x[kind] : x \in Budgets}
<1>4. /\ m[kind] \in S /\ \A y \in S : m[kind] >= y
      /\ \A x \in S : (\A y \in S : x >= y) => x = m[kind]
    BY <1>3, <1>a
<1> HIDE DEF S
<1>5. Max(S) = m[kind]
    BY <1>4 DEF Max
<1> QED BY <1>3, <1>5, <1>a DEF Most, S

LEMMA BudgetParts ==
    ASSUME NEW b \in Budget, NEW n \in Nat
    PROVE  /\ [b EXCEPT !.packets = n] \in Budget
           /\ [b EXCEPT !.packets = n].packets = n
           /\ [b EXCEPT !.packets = n].lines = b.lines
           /\ [b EXCEPT !.lines = n] \in Budget
           /\ [b EXCEPT !.lines = n].lines = n
           /\ [b EXCEPT !.lines = n].packets = b.packets
           /\ [b EXCEPT !.inputs = n] \in Budget
           /\ [b EXCEPT !.inputs = n].lines = b.lines
           /\ [b EXCEPT !.inputs = n].packets = b.packets
BY DEF Budget

LEMMA Spending ==
    ASSUME budget \in Budget
    PROVE  /\ Spend("packets") => /\ budget' \in Budget
                                  /\ budget'.packets = budget.packets - 1
                                  /\ budget'.lines = budget.lines
           /\ Spend("lines") => /\ budget' \in Budget
                                /\ budget'.lines = budget.lines - 1
                                /\ budget'.packets = budget.packets
           /\ Spend("inputs") => /\ budget' \in Budget
                                 /\ budget'.lines = budget.lines
                                 /\ budget'.packets = budget.packets
<1>1. budget.packets \in Nat /\ budget.lines \in Nat /\ budget.inputs \in Nat
    BY DEF Budget
<1>2. ASSUME Spend("packets")
      PROVE  /\ budget' \in Budget
             /\ budget'.packets = budget.packets - 1
             /\ budget'.lines = budget.lines
    <2> DEFINE n == budget.packets
    <2>1. n > 0 /\ budget' = [budget EXCEPT !.packets = n - 1]
        BY <1>2, Zenon DEF Spend
    <2>2. n \in Nat
        BY <1>1
    <2> HIDE DEF n
    <2>3. n - 1 \in Nat
        BY <2>1, <2>2
    <2> DEFINE l == n - 1
    <2>4. l \in Nat /\ budget' = [budget EXCEPT !.packets = l]
        BY <2>1, <2>3
    <2> HIDE DEF l
    <2>5. /\ budget' \in Budget
          /\ budget'.packets = l
          /\ budget'.lines = budget.lines
        BY <2>4, BudgetParts
    <2> QED BY <2>5 DEF l, n
<1>3. ASSUME Spend("lines")
      PROVE  /\ budget' \in Budget
             /\ budget'.packets = budget.packets
             /\ budget'.lines = budget.lines - 1
    <2> DEFINE n == budget.lines
    <2>1. n > 0 /\ budget' = [budget EXCEPT !.lines = n - 1]
        BY <1>3, Zenon DEF Spend
    <2>2. n \in Nat
        BY <1>1
    <2> HIDE DEF n
    <2>3. n - 1 \in Nat
        BY <2>1, <2>2
    <2> DEFINE l == n - 1
    <2>4. l \in Nat /\ budget' = [budget EXCEPT !.lines = l]
        BY <2>1, <2>3
    <2> HIDE DEF l
    <2>5. /\ budget' \in Budget
          /\ budget'.packets = budget.packets
          /\ budget'.lines = l
        BY <2>4, BudgetParts
    <2> QED BY <2>5 DEF l, n
<1>4. ASSUME Spend("inputs")
      PROVE  /\ budget' \in Budget
             /\ budget'.packets = budget.packets
             /\ budget'.lines = budget.lines
    <2> DEFINE n == budget.inputs
    <2>1. n > 0 /\ budget' = [budget EXCEPT !.inputs = n - 1]
        BY <1>4, Zenon DEF Spend
    <2>2. n \in Nat
        BY <1>1
    <2> HIDE DEF n
    <2>3. n - 1 \in Nat
        BY <2>1, <2>2
    <2> DEFINE l == n - 1
    <2>4. l \in Nat /\ budget' = [budget EXCEPT !.inputs = l]
        BY <2>1, <2>3
    <2> HIDE DEF l
    <2>5. /\ budget' \in Budget
          /\ budget'.packets = budget.packets
          /\ budget'.lines = budget.lines
        BY <2>4, BudgetParts
    <2> QED BY <2>5 DEF l, n
<1> QED BY <1>2, <1>3, <1>4
-----------------------------------------------------------------------------
(***************************************************************************)
(* Types.                                                                   *)
(***************************************************************************)
Phases == {"opening", "idle", "store", "log", "ui", "cleared"}

(* The records a step replaces a part of. *)
IsStore(s) == s = [latest |-> s.latest, updates |-> s.updates, history |-> s.history,
                   depth |-> s.depth, generation |-> s.generation]
IsControls(c) == c = [filter |-> c.filter, watchedOnly |-> c.watchedOnly,
                      search |-> c.search]
IsScreen(s) == s = [generation |-> s.generation, view |-> s.view, dirty |-> s.dirty,
                    tree |-> s.tree, table |-> s.table, groups |-> s.groups]

TypeInv ==
    /\ budget \in Budget /\ pc \in Phases
    /\ IsStore(store) /\ IsControls(controls) /\ IsScreen(screen)
    /\ waking \in BOOLEAN /\ slot \in BOOLEAN /\ repaint \in BOOLEAN
    /\ pending \in BOOLEAN /\ taken \in BOOLEAN
    /\ layout \in Seq(SUBSET Params)

LEMMA TypeInvInit == WindowInit => TypeInv
<1> SUFFICES ASSUME WindowInit
             PROVE  TypeInv
    OBVIOUS
<1>1. /\ budget \in Budget /\ pc \in Phases
      /\ waking \in BOOLEAN /\ slot \in BOOLEAN /\ repaint \in BOOLEAN
      /\ pending \in BOOLEAN /\ taken \in BOOLEAN
      /\ layout \in Seq(SUBSET Params)
    BY WindowAssumption DEF WindowInit, Budget, Phases
<1>2. IsStore(store) /\ IsControls(controls) /\ IsScreen(screen)
    BY DEF WindowInit, NewStore, IsStore, IsControls, IsScreen
<1> QED BY <1>1, <1>2 DEF TypeInv

(* The actions that rearrange the layout, by what they leave of it.         *)
LEMMA LayoutTyped ==
    ASSUME layout \in Seq(SUBSET Params), NEW p \in Params
    PROVE  /\ [i \in DOMAIN layout |-> layout[i] \ {p}] \in Seq(SUBSET Params)
           /\ Append(layout, {p}) \in Seq(SUBSET Params)
           /\ \A i \in DOMAIN layout :
                /\ [layout EXCEPT ![i] = @ \union {p}] \in Seq(SUBSET Params)
                /\ [layout EXCEPT ![i] = @ \ {p}] \in Seq(SUBSET Params)
<1>1. /\ Len(layout) \in Nat /\ DOMAIN layout = 1..Len(layout)
      /\ \A i \in 1..Len(layout) : layout[i] \in SUBSET Params
    BY LenProperties, ElementOfSeq
<1>2. [i \in DOMAIN layout |-> layout[i] \ {p}] \in Seq(SUBSET Params)
    <2>1. [i \in 1..Len(layout) |-> layout[i] \ {p}] \in [1..Len(layout) -> SUBSET Params]
        BY <1>1
    <2> QED BY <1>1, <2>1
<1>3. Append(layout, {p}) \in Seq(SUBSET Params)
    <2>1. {p} \in SUBSET Params
        OBVIOUS
    <2> QED BY <2>1, AppendProperties
<1>4. ASSUME NEW i \in DOMAIN layout
      PROVE  /\ [layout EXCEPT ![i] = @ \union {p}] \in Seq(SUBSET Params)
             /\ [layout EXCEPT ![i] = @ \ {p}] \in Seq(SUBSET Params)
    <2>1. layout[i] \union {p} \in SUBSET Params /\ layout[i] \ {p} \in SUBSET Params
          /\ i \in 1..Len(layout)
        BY <1>1
    <2> QED BY <2>1, ExceptSeq
<1> QED BY <1>2, <1>3, <1>4

LEMMA PlotRemoved ==
    ASSUME layout \in Seq(SUBSET Params), NEW i \in DOMAIN layout
    PROVE  RemoveAt(layout, i) \in Seq(SUBSET Params)
<1>1. /\ Len(layout) \in Nat /\ i \in 1..Len(layout)
      /\ \A j \in 1..Len(layout) : layout[j] \in SUBSET Params
    BY LenProperties, ElementOfSeq
<1>2. \A j \in 1..i - 1 : layout[j] \in SUBSET Params
    BY <1>1
<1>3. \A j \in i + 1..Len(layout) : layout[j] \in SUBSET Params
    BY <1>1
<1>4. SubSeq(layout, 1, i - 1) \in Seq(SUBSET Params)
    BY <1>1, <1>2, SubSeqProperties
<1>5. SubSeq(layout, i + 1, Len(layout)) \in Seq(SUBSET Params)
    BY <1>1, <1>3, SubSeqProperties
<1> QED BY <1>4, <1>5, ConcatProperties DEF RemoveAt


(* What rearranging makes of the store. *)
Remade(s) ==
    \/ s = store
    \/ \E p \in Params : s = Watch(store, {p}) \/ s = Unwatch(store, p)
    \/ \E depth \in Nat \ {0} : s = SetDepth(store, depth)

Rearranges ==
    \E s, plots : Rearranged(s, plots) /\ Remade(s) /\ plots \in Seq(SUBSET Params)

(* What is neither rearranging nor clearing. *)
Looks ==
    /\ pc = "ui" /\ pc' = "idle"
    /\ UNCHANGED <<budget, waking, slot, repaint, pending, taken, passes>>
    /\ UNCHANGED <<store, kept, log, layout, panel>>
    /\ \/ UNCHANGED <<controls, screen>>
       \/ /\ taken /\ IsControls(controls') /\ UNCHANGED screen
          /\ controls'.search = controls.search
       \/ /\ taken /\ IsControls(controls')
          /\ screen' = [screen EXCEPT !.dirty = TRUE]

LEMMA ControlsSet ==
    ASSUME IsControls(controls), NEW x
    PROVE  /\ IsControls([controls EXCEPT !.filter = x])
           /\ [controls EXCEPT !.filter = x].search = controls.search
           /\ IsControls([controls EXCEPT !.watchedOnly = x])
           /\ [controls EXCEPT !.watchedOnly = x].search = controls.search
           /\ IsControls([controls EXCEPT !.search = x])
<1>1. [controls EXCEPT !.filter = x]
        = [filter |-> x, watchedOnly |-> controls.watchedOnly, search |-> controls.search]
    BY DEF IsControls
<1>2. [controls EXCEPT !.watchedOnly = x]
        = [filter |-> controls.filter, watchedOnly |-> x, search |-> controls.search]
    BY DEF IsControls
<1>3. [controls EXCEPT !.search = x]
        = [filter |-> controls.filter, watchedOnly |-> controls.watchedOnly, search |-> x]
    BY DEF IsControls
<1> QED BY <1>1, <1>2, <1>3 DEF IsControls

LEMMA DrawSteps ==
    TypeInv /\ Draw => Rearranges \/ Looks \/ ClearEvents \/ ClearPanel
<1> SUFFICES ASSUME TypeInv, Draw
             PROVE  Rearranges \/ Looks \/ ClearEvents \/ ClearPanel
    OBVIOUS
<1>1. layout \in Seq(SUBSET Params) /\ IsControls(controls)
    BY DEF TypeInv
<1>2. CASE DrawOnly
    BY <1>2 DEF DrawOnly, Drawn, Looks
<1>3. CASE SkipDrawing
    BY <1>3 DEF SkipDrawing, Drawn, Looks
<1>4. CASE EditFilter
    <2>1. /\ pc = "ui" /\ pc' = "idle" /\ taken
          /\ UNCHANGED <<budget, waking, slot, repaint, pending, taken, passes>>
          /\ UNCHANGED <<store, kept, log, layout, panel>> /\ UNCHANGED screen
        BY <1>4 DEF EditFilter, Drawn
    <2>2. \E x : \/ controls' = [controls EXCEPT !.filter = x]
                 \/ controls' = [controls EXCEPT !.watchedOnly = x]
        BY <1>4 DEF EditFilter
    <2>3. IsControls(controls') /\ controls'.search = controls.search
        BY <1>1, <2>2, ControlsSet
    <2> QED BY <2>1, <2>3 DEF Looks
<1>5. CASE EditSearch
    <2>1. /\ pc = "ui" /\ pc' = "idle" /\ taken
          /\ UNCHANGED <<budget, waking, slot, repaint, pending, taken, passes>>
          /\ UNCHANGED <<store, kept, log, layout, panel>>
          /\ screen' = [screen EXCEPT !.dirty = TRUE]
        BY <1>5 DEF EditSearch, Drawn
    <2>2. \E x : controls' = [controls EXCEPT !.search = x]
        BY <1>5 DEF EditSearch
    <2>3. IsControls(controls')
        BY <1>1, <2>2, ControlsSet
    <2> QED BY <2>1, <2>3 DEF Looks
<1>6. CASE TogglePause
    BY <1>6 DEF TogglePause, Drawn, Looks
<1>7. CASE Drag
    BY <1>7 DEF Drag, Drawn, Looks
<1>8. ASSUME NEW s, NEW plots, Rearranged(s, plots), Remade(s), plots \in Seq(SUBSET Params)
      PROVE  Rearranges
    BY <1>8 DEF Rearranges
<1>9. CASE \E p \in Params : WatchRow(p)
    <2>1. PICK p \in Params : Rearranged(Watch(store, {p}), layout)
        BY <1>9 DEF WatchRow
    <2> QED BY <1>1, <1>8, <2>1 DEF Remade
<1>10. CASE \E p \in Params : UnwatchRow(p)
    <2>1. PICK p \in Params :
            Rearranged(Unwatch(store, p), [i \in DOMAIN layout |-> layout[i] \ {p}])
        BY <1>10 DEF UnwatchRow
    <2>2. [i \in DOMAIN layout |-> layout[i] \ {p}] \in Seq(SUBSET Params)
        BY <1>1, LayoutTyped
    <2> QED BY <1>8, <2>1, <2>2 DEF Remade
<1>11. CASE \E p \in Params : AddToPlot(p)
    <2>1. PICK p \in Params, i \in DOMAIN layout :
            Rearranged(Watch(store, {p}), [layout EXCEPT ![i] = @ \union {p}])
        BY <1>11 DEF AddToPlot
    <2>2. [layout EXCEPT ![i] = @ \union {p}] \in Seq(SUBSET Params)
        BY <1>1, LayoutTyped
    <2> QED BY <1>8, <2>1, <2>2 DEF Remade
<1>12. CASE \E p \in Params : NewPlot(p)
    <2>1. PICK p \in Params : Rearranged(Watch(store, {p}), Append(layout, {p}))
        BY <1>12 DEF NewPlot
    <2>2. Append(layout, {p}) \in Seq(SUBSET Params)
        BY <1>1, LayoutTyped
    <2> QED BY <1>8, <2>1, <2>2 DEF Remade
<1>13. CASE RemoveFromPlot
    <2>1. PICK i \in DOMAIN layout : \E p \in layout[i] :
            Rearranged(store, [layout EXCEPT ![i] = @ \ {p}])
        BY <1>13 DEF RemoveFromPlot
    <2>2. PICK p \in layout[i] : Rearranged(store, [layout EXCEPT ![i] = @ \ {p}])
        BY <2>1
    <2>3. p \in Params
        BY <1>1, LenProperties, ElementOfSeq
    <2>4. [layout EXCEPT ![i] = @ \ {p}] \in Seq(SUBSET Params)
        BY <1>1, <2>3, LayoutTyped
    <2> QED BY <1>8, <2>2, <2>4 DEF Remade
<1>14. CASE RemovePlot
    <2>1. PICK i \in DOMAIN layout : Rearranged(store, RemoveAt(layout, i))
        BY <1>14 DEF RemovePlot
    <2>2. RemoveAt(layout, i) \in Seq(SUBSET Params)
        BY <1>1, PlotRemoved
    <2> QED BY <1>8, <2>1, <2>2 DEF Remade
<1>15. CASE SetHistoryDepth
    <2>1. PICK depth \in Depths :
            Rearranged(SetDepth(store, Larger(depth, MIN_HISTORY_DEPTH)), layout)
        BY <1>15 DEF SetHistoryDepth
    <2>2. Larger(depth, MIN_HISTORY_DEPTH) \in Nat \ {0}
        BY WindowAssumption DEF Larger, MIN_HISTORY_DEPTH
    <2> QED BY <1>1, <1>8, <2>1, <2>2 DEF Remade
<1> QED BY <1>2, <1>3, <1>4, <1>5, <1>6, <1>7, <1>9, <1>10, <1>11, <1>12, <1>13, <1>14,
           <1>15 DEF Draw

(* A record with one of its fields replaced. *)
LEMMA StoreParts ==
    ASSUME NEW s, IsStore(s), NEW x
    PROVE  /\ [s EXCEPT !.latest = x] =
                [latest |-> x, updates |-> s.updates, history |-> s.history,
                 depth |-> s.depth, generation |-> s.generation]
           /\ [s EXCEPT !.updates = x] =
                [latest |-> s.latest, updates |-> x, history |-> s.history,
                 depth |-> s.depth, generation |-> s.generation]
           /\ [s EXCEPT !.history = x] =
                [latest |-> s.latest, updates |-> s.updates, history |-> x,
                 depth |-> s.depth, generation |-> s.generation]
           /\ [s EXCEPT !.depth = x] =
                [latest |-> s.latest, updates |-> s.updates, history |-> s.history,
                 depth |-> x, generation |-> s.generation]
           /\ [s EXCEPT !.generation = x] =
                [latest |-> s.latest, updates |-> s.updates, history |-> s.history,
                 depth |-> s.depth, generation |-> x]
BY DEF IsStore

LEMMA ScreenParts ==
    ASSUME NEW s, IsScreen(s), NEW x
    PROVE  /\ [s EXCEPT !.dirty = x] =
                [generation |-> s.generation, view |-> s.view, dirty |-> x,
                 tree |-> s.tree, table |-> s.table, groups |-> s.groups]
           /\ [s EXCEPT !.groups = x] =
                [generation |-> s.generation, view |-> s.view, dirty |-> s.dirty,
                 tree |-> s.tree, table |-> s.table, groups |-> x]
BY DEF IsScreen

LEMMA WatchOf ==
    ASSUME NEW s, IsStore(s), NEW params
    PROVE  Watch(s, params) =
               [latest |-> s.latest, updates |-> s.updates,
                history |-> [q \in DOMAIN s.history \union params |->
                               IF q \in DOMAIN s.history THEN s.history[q]
                                                         ELSE EmptyRing(s.depth)],
                depth |-> s.depth, generation |-> s.generation]
BY DEF Watch, IsStore

LEMMA WatchKeeps ==
    ASSUME NEW s, IsStore(s), NEW params
    PROVE  Watch(s, params).generation = s.generation
<1> DEFINE h == [q \in DOMAIN s.history \union params |->
                   IF q \in DOMAIN s.history THEN s.history[q] ELSE EmptyRing(s.depth)]
<1>1. Watch(s, params) = [s EXCEPT !.history = h]
    BY DEF Watch
<1> HIDE DEF h
<1>2. Watch(s, params) = [latest |-> s.latest, updates |-> s.updates, history |-> h,
                          depth |-> s.depth, generation |-> s.generation]
    BY <1>1, StoreParts
<1> QED BY <1>2

LEMMA DepthOf ==
    ASSUME NEW s, IsStore(s), NEW depth
    PROVE  SetDepth(s, depth) =
               [latest |-> s.latest, updates |-> s.updates,
                history |-> [q \in DOMAIN s.history |-> Resize(s.history[q], depth)],
                depth |-> depth, generation |-> s.generation]
<1> DEFINE h == [q \in DOMAIN s.history |-> Resize(s.history[q], depth)]
<1>1. SetDepth(s, depth) = [[s EXCEPT !.depth = depth] EXCEPT !.history = h]
    BY DEF SetDepth
<1> DEFINE r == [s EXCEPT !.depth = depth]
<1>2. r = [latest |-> s.latest, updates |-> s.updates, history |-> s.history,
           depth |-> depth, generation |-> s.generation]
    BY StoreParts
<1> HIDE DEF r, h
<1>3. IsStore(r)
    BY <1>2 DEF IsStore
<1>4. [r EXCEPT !.history = h] =
        [latest |-> r.latest, updates |-> r.updates, history |-> h,
         depth |-> r.depth, generation |-> r.generation]
    BY <1>3, StoreParts
<1>5. SetDepth(s, depth) = [r EXCEPT !.history = h]
    BY <1>1 DEF r
<1> QED BY <1>2, <1>4, <1>5 DEF h

LEMMA StoreSet ==
    ASSUME IsStore(store)
    PROVE  /\ \A s : Remade(s) =>
                /\ IsStore(s) /\ s.generation = store.generation
                /\ s.latest = store.latest /\ s.updates = store.updates
           /\ \A carried, time : IsStore(Ingest(store, carried, time))
           /\ \A params, depth : IsStore(Watch(SetDepth(store, depth), params))
<1>1. ASSUME NEW params
      PROVE  Watch(store, params) =
               [latest |-> store.latest, updates |-> store.updates,
                history |-> Watch(store, params).history, depth |-> store.depth,
                generation |-> store.generation]
    BY DEF Watch, IsStore
<1>2. ASSUME NEW p
      PROVE  Unwatch(store, p) =
               [latest |-> store.latest, updates |-> store.updates,
                history |-> Unwatch(store, p).history, depth |-> store.depth,
                generation |-> store.generation]
    BY DEF Unwatch, IsStore
<1>3. ASSUME NEW depth
      PROVE  SetDepth(store, depth) =
               [latest |-> store.latest, updates |-> store.updates,
                history |-> SetDepth(store, depth).history, depth |-> depth,
                generation |-> store.generation]
    <2>1. SetDepth(store, depth).history
            = [q \in DOMAIN store.history |-> Resize(store.history[q], depth)]
        BY DepthOf
    <2> QED BY <2>1, DepthOf
<1>4. ASSUME NEW carried, NEW time
      PROVE  IsStore(Ingest(store, carried, time))
    <2> DEFINE l == [p \in Params |-> IF p \in carried THEN time ELSE store.latest[p]]
               u == [p \in Params |-> IF p \in carried THEN store.updates[p] + 1
                                                       ELSE store.updates[p]]
               h == [p \in DOMAIN store.history |-> IF p \in carried \intersect Numeric
                                                     THEN Push(store.history[p], time)
                                                     ELSE store.history[p]]
               g == store.generation + 1
               a == [store EXCEPT !.latest = l]
               b == [a EXCEPT !.updates = u]
               c == [b EXCEPT !.history = h]
    <2>1. Ingest(store, carried, time) = [c EXCEPT !.generation = g]
        BY DEF Ingest
    <2> HIDE DEF l, u, h, g
    <2>2. IsStore(a)
        BY StoreParts DEF IsStore
    <2> HIDE DEF a
    <2>3. IsStore(b)
        BY <2>2, StoreParts DEF IsStore
    <2> HIDE DEF b
    <2>4. IsStore(c)
        BY <2>3, StoreParts DEF IsStore
    <2> HIDE DEF c
    <2>5. IsStore([c EXCEPT !.generation = g])
        BY <2>4, StoreParts DEF IsStore
    <2> QED BY <2>1, <2>5
<1>5. ASSUME NEW params, NEW depth
      PROVE  IsStore(Watch(SetDepth(store, depth), params))
    <2> DEFINE n == Watch(SetDepth(store, depth), params)
    <2>1. n = [latest |-> n.latest, updates |-> n.updates, history |-> n.history,
               depth |-> n.depth, generation |-> n.generation]
        BY <1>3 DEF Watch
    <2> QED BY <2>1 DEF IsStore
<1>6. ASSUME NEW s, Remade(s)
      PROVE  /\ IsStore(s) /\ s.generation = store.generation
             /\ s.latest = store.latest /\ s.updates = store.updates
    <2>1. CASE s = store
        BY <2>1
    <2>2. CASE \E p \in Params : s = Watch(store, {p}) \/ s = Unwatch(store, p)
        BY <2>2, <1>1, <1>2 DEF IsStore
    <2>3. CASE \E depth \in Nat \ {0} : s = SetDepth(store, depth)
        BY <2>3, <1>3 DEF IsStore
    <2> QED BY <1>6, <2>1, <2>2, <2>3 DEF Remade
<1> QED BY <1>4, <1>5, <1>6


(***************************************************************************)
(* What a step may be, the drawing ones by what they leave alone.           *)
(***************************************************************************)
LEMMA StepsAre ==
    ASSUME TypeInv, [WindowNext]_windowVars
    PROVE  \/ File \/ Wake \/ LogLine \/ FillSlot \/ NewApp \/ Input \/ IdleRepaint
           \/ BeginFrame \/ RefreshStore \/ RefreshLog
           \/ Rearranges \/ Looks \/ ClearEvents \/ ClearPanel
           \/ UNCHANGED windowVars
BY DrawSteps DEF WindowNext

LEMMA RearrangedTyped ==
    ASSUME TypeInv, Rearranges
    PROVE  TypeInv'
<1>1. PICK s, plots : Rearranged(s, plots) /\ Remade(s) /\ plots \in Seq(SUBSET Params)
    BY DEF Rearranges
<1>2. /\ layout' = plots /\ store' = s /\ pc' = "idle"
      /\ UNCHANGED <<budget, waking, slot, repaint, pending, taken, controls>>
      /\ screen' = [screen EXCEPT !.groups = PlotsSync(plots, @)]
    BY <1>1 DEF Rearranged, Drawn
<1>3. IsStore(s)
    BY <1>1, StoreSet DEF TypeInv
<1>4. IsScreen(screen)'
    <2>1. \A x : [screen EXCEPT !.groups = x] =
                    [generation |-> screen.generation, view |-> screen.view,
                     dirty |-> screen.dirty, tree |-> screen.tree,
                     table |-> screen.table, groups |-> x]
        BY DEF TypeInv, IsScreen
    <2>2. screen' = [screen EXCEPT !.groups = PlotsSync(plots, screen.groups)]
        BY <1>2
    <2> QED BY <2>1, <2>2 DEF IsScreen
<1>5. IsStore(store)' /\ IsControls(controls)' /\ layout' \in Seq(SUBSET Params)
    BY <1>1, <1>2, <1>3 DEF TypeInv, IsStore, IsControls
<1>6. "idle" \in Phases
    BY DEF Phases
<1> QED BY <1>2, <1>4, <1>5, <1>6 DEF TypeInv

LEMMA LooksTyped ==
    ASSUME TypeInv, Looks
    PROVE  TypeInv'
<1>1. /\ pc' = "idle"
      /\ UNCHANGED <<budget, waking, slot, repaint, pending, taken, store, layout>>
    BY DEF Looks
<1>2. IsScreen(screen)'
    <2>1. [screen EXCEPT !.dirty = TRUE] =
            [generation |-> screen.generation, view |-> screen.view, dirty |-> TRUE,
             tree |-> screen.tree, table |-> screen.table, groups |-> screen.groups]
        BY ScreenParts DEF TypeInv
    <2>2. screen' = screen \/ screen' = [screen EXCEPT !.dirty = TRUE]
        BY DEF Looks
    <2>3. CASE screen' = screen
        BY <2>3 DEF TypeInv, IsScreen
    <2>4. CASE screen' = [screen EXCEPT !.dirty = TRUE]
        BY <2>1, <2>4 DEF IsScreen
    <2> QED BY <2>2, <2>3, <2>4
<1>3. IsControls(controls)'
    BY DEF Looks, TypeInv, IsControls
<1>4. "idle" \in Phases
    BY DEF Phases
<1>5. IsStore(store)'
    BY <1>1 DEF TypeInv, IsStore
<1> QED BY <1>1, <1>2, <1>3, <1>4, <1>5 DEF TypeInv

LEMMA TypeInvStep ==
    TypeInv /\ [WindowNext]_windowVars => TypeInv'
<1> SUFFICES ASSUME TypeInv, [WindowNext]_windowVars
             PROVE  TypeInv'
    OBVIOUS
<1>0. /\ budget \in Budget /\ IsStore(store)
      /\ waking \in BOOLEAN /\ slot \in BOOLEAN /\ repaint \in BOOLEAN
      /\ pending \in BOOLEAN /\ taken \in BOOLEAN
    BY DEF TypeInv
<1>a. \A phase \in {"idle", "store", "log", "ui", "cleared"} : phase \in Phases
    BY DEF Phases
<1>1. CASE File
    <2>1. /\ budget' \in Budget /\ waking' \in BOOLEAN
          /\ \E carried, time : store' = Ingest(store, carried, time)
          /\ UNCHANGED <<pc, slot, repaint, pending, taken, layout, controls, screen>>
        BY <1>0, <1>1, Spending DEF File, frameVars, panelVars
    <2>2. IsStore(store')
        BY <1>0, <2>1, StoreSet
    <2> QED BY <2>1, <2>2 DEF TypeInv, IsStore, IsControls, IsScreen
<1>2. CASE Wake
    <2>1. repaint' = (repaint \/ slot) /\ waking' = FALSE
          /\ UNCHANGED <<budget, store, slot, pc, pending, taken, layout, controls, screen>>
        BY <1>2 DEF Wake, frameVars, panelVars
    <2>2. repaint' \in BOOLEAN
        BY <2>1
    <2> QED BY <2>1, <2>2 DEF TypeInv, IsStore, IsControls, IsScreen
<1>3. CASE LogLine
    <2>1. /\ budget' \in Budget
          /\ UNCHANGED <<waking, store, slot, repaint, pc, pending, taken, layout,
                         controls, screen>>
        BY <1>0, <1>3, Spending DEF LogLine, decodeVars, frameVars, panelVars
    <2> QED BY <2>1 DEF TypeInv, IsStore, IsControls, IsScreen
<1>4. CASE FillSlot
    <2>1. /\ slot' = TRUE /\ repaint' = TRUE
          /\ UNCHANGED <<budget, waking, store, pc, pending, taken, layout, controls, screen>>
        BY <1>4 DEF FillSlot, decodeVars, frameVars, panelVars
    <2> QED BY <2>1 DEF TypeInv, IsStore, IsControls, IsScreen
<1>5. CASE NewApp
    <2>1. /\ \E params : store' = Watch(SetDepth(store, StartDepth), params)
          /\ pc' = "idle"
          /\ \E x : screen' = [screen EXCEPT !.groups = x]
          /\ UNCHANGED <<budget, waking, slot, repaint, pending, taken, layout, controls>>
        BY <1>5 DEF NewApp
    <2>2. IsStore(store')
        BY <1>0, <2>1, StoreSet
    <2>3. IsScreen(screen')
        <3>1. \A x : [screen EXCEPT !.groups = x] =
                    [generation |-> screen.generation, view |-> screen.view,
                     dirty |-> screen.dirty, tree |-> screen.tree,
                     table |-> screen.table, groups |-> x]
            BY DEF TypeInv, IsScreen
        <3>2. PICK x : screen' = [screen EXCEPT !.groups = x]
            BY <2>1
        <3> QED BY <3>1, <3>2 DEF IsScreen
    <2> QED BY <1>a, <2>1, <2>2, <2>3 DEF TypeInv, IsStore, IsControls, IsScreen
<1>6. CASE Input
    <2>1. /\ budget' \in Budget /\ pending' = TRUE /\ repaint' = TRUE
          /\ UNCHANGED <<waking, store, slot, pc, taken, layout, controls, screen>>
        BY <1>0, <1>6, Spending DEF Input, decodeVars, panelVars
    <2> QED BY <2>1 DEF TypeInv, IsStore, IsControls, IsScreen
<1>7. CASE IdleRepaint
    <2>1. /\ repaint' = TRUE
          /\ UNCHANGED <<budget, waking, store, slot, pc, pending, taken, layout, controls,
                         screen>>
        BY <1>7 DEF IdleRepaint, decodeVars, frameVars, panelVars
    <2> QED BY <2>1 DEF TypeInv, IsStore, IsControls, IsScreen
<1>8. CASE BeginFrame
    <2>1. /\ repaint' = FALSE /\ pending' = FALSE /\ taken' = pending /\ pc' = "store"
          /\ UNCHANGED <<budget, waking, store, slot, layout, controls, screen>>
        BY <1>8 DEF BeginFrame, decodeVars, panelVars
    <2> QED BY <1>0, <1>a, <2>1 DEF TypeInv, IsStore, IsControls, IsScreen
<1>9. CASE RefreshStore
    <2>1. /\ pc' = "log"
          /\ UNCHANGED <<budget, waking, store, slot, repaint, pending, taken, layout,
                         controls>>
        BY <1>9 DEF RefreshStore, decodeVars
    <2>2. IsScreen(screen')
        BY <1>9 DEF RefreshStore, TypeInv, IsScreen
    <2> QED BY <1>a, <2>1, <2>2 DEF TypeInv, IsStore, IsControls, IsScreen
<1>10. CASE RefreshLog
    <2>1. /\ pc' = "ui" /\ repaint' = (repaint \/ passes > 0)
          /\ UNCHANGED <<budget, waking, store, slot, pending, taken, layout, controls,
                         screen>>
        BY <1>10 DEF RefreshLog, decodeVars
    <2>2. repaint' \in BOOLEAN
        BY <2>1
    <2> QED BY <1>a, <2>1, <2>2 DEF TypeInv, IsStore, IsControls, IsScreen
<1>11. CASE ClearEvents
    <2>1. /\ pc' = "cleared"
          /\ UNCHANGED <<budget, waking, store, slot, repaint, pending, taken, layout,
                         controls, screen>>
        BY <1>11 DEF ClearEvents, decodeVars
    <2> QED BY <1>a, <2>1 DEF TypeInv, IsStore, IsControls, IsScreen
<1>12. CASE ClearPanel
    <2>1. /\ pc' = "idle"
          /\ UNCHANGED <<budget, waking, store, slot, repaint, pending, taken, layout,
                         controls, screen>>
        BY <1>12 DEF ClearPanel, decodeVars
    <2> QED BY <1>a, <2>1 DEF TypeInv, IsStore, IsControls, IsScreen
<1>13. CASE UNCHANGED windowVars
    BY <1>13 DEF TypeInv, IsStore, IsControls, IsScreen, windowVars, decodeVars, frameVars,
                 panelVars
<1> QED BY <1>1, <1>2, <1>3, <1>4, <1>5, <1>6, <1>7, <1>8, <1>9, <1>10, <1>11, <1>12,
           <1>13, RearrangedTyped, LooksTyped, StepsAre

-----------------------------------------------------------------------------
(***************************************************************************)
(* The log, and the panel's copy of its lines.  The totals can be compared  *)
(* because neither ever goes back: a log that is cleared keeps its total,   *)
(* and the panel's is one the log has had.                                  *)
(***************************************************************************)
Told(total) == [line : Lines, times : 1..total]

LogInv ==
    /\ log = [entries |-> log.entries, total |-> log.total]
    /\ Most("lines") \in Nat
    /\ log.total \in Nat /\ log.total + budget.lines <= Most("lines")
    /\ Ring(log.entries, Told(log.total)) /\ log.entries.capacity # 0

PanelInv ==
    /\ panel.total \in Nat /\ panel.total <= log.total
    /\ PanelIsTheLog

LEMMA LineLogged ==
    ASSUME NEW l, l = [entries |-> l.entries, total |-> l.total],
           l.total \in Nat, Ring(l.entries, Told(l.total)), l.entries.capacity # 0,
           NEW line \in Lines
    PROVE  /\ PushLine(l, line) = [entries |-> PushLine(l, line).entries,
                                   total |-> l.total + 1]
           /\ Ring(PushLine(l, line).entries, Told(l.total + 1))
           /\ PushLine(l, line).entries.capacity # 0
<1> DEFINE ring == l.entries
           total == l.total
           first == [line |-> line, times |-> 1]
           again == [Newest(ring) EXCEPT !.times = @ + 1]
           next == IF Repeats(l, line) THEN SetNewest(ring, again) ELSE Push(ring, first)
<1>1. PushLine(l, line) = [entries |-> next, total |-> total + 1]
    BY DEF PushLine
<1>2. Told(total) \subseteq Told(total + 1)
    <2>1. 1..total \subseteq 1..total + 1
        OBVIOUS
    <2> QED BY <2>1 DEF Told
<1>3. Ring(ring, Told(total + 1))
    BY <1>2, RingOfMore
<1>4. first \in Told(total + 1)
    <2>1. 1 \in 1..total + 1
        OBVIOUS
    <2> QED BY <2>1 DEF Told
<1>5. CASE Repeats(l, line)
    <2>1. ring.items # <<>>
        BY <1>5 DEF Repeats
    <2>2. Newest(ring) \in Told(total)
        BY <2>1, NewestIsLast
    <2> DEFINE newest == Newest(ring)
    <2>3. /\ newest = [line |-> newest.line, times |-> newest.times]
          /\ newest.line \in Lines /\ newest.times \in 1..total
        BY <2>2 DEF Told
    <2>4. again = [line |-> newest.line, times |-> newest.times + 1]
        BY <2>3
    <2>5. newest.times + 1 \in 1..total + 1
        BY <2>3
    <2>6. again \in Told(total + 1)
        BY <2>3, <2>4, <2>5 DEF Told
    <2> HIDE DEF again, newest
    <2>7. next = SetNewest(ring, again)
        BY <1>5
    <2> HIDE DEF next, ring, total
    <2>8. Ring(next, Told(total + 1)) /\ next.capacity = ring.capacity
        BY <1>3, <2>1, <2>6, <2>7, ContentsAfterSet
    <2> QED BY <1>1, <2>8 DEF ring, total
<1>6. CASE ~Repeats(l, line)
    <2> HIDE DEF first
    <2>1. next = Push(ring, first)
        BY <1>6
    <2> HIDE DEF next, total
    <2>2. Ring(next, Told(total + 1)) /\ next.capacity = ring.capacity
        BY <1>3, <1>4, <2>1, ContentsAfterPush
    <2> QED BY <1>1, <2>2 DEF total
<1> QED BY <1>5, <1>6

LEMMA RingCleared ==
    ASSUME NEW Item, NEW ring, Ring(ring, Item)
    PROVE  Cleared(ring) = [items |-> <<>>, head |-> 0, capacity |-> ring.capacity]
<1> DEFINE r == [ring EXCEPT !.items = <<>>]
<1>1. r = [items |-> <<>>, head |-> ring.head, capacity |-> ring.capacity]
    BY ItemsReplaced
<1>2. Cleared(ring) = [r EXCEPT !.head = 0]
    BY DEF Cleared
<1> HIDE DEF r
<1>3. [r EXCEPT !.head = 0] = [items |-> <<>>, head |-> 0, capacity |-> ring.capacity]
    BY <1>1
<1> QED BY <1>2, <1>3

LEMMA LogInvInit == WindowInit => LogInv /\ PanelInv
<1> SUFFICES ASSUME WindowInit
             PROVE  LogInv /\ PanelInv
    OBVIOUS
<1> DEFINE ring == EmptyRing(LogCapacity)
<1>1. LogCapacity \in Nat \ {0} /\ budget \in Budgets
    BY WindowAssumption DEF WindowInit
<1>2. Ring(ring, Told(0)) /\ Contents(ring) = <<>> /\ ring.capacity = LogCapacity
    BY <1>1, EmptyIsRing
<1> HIDE DEF ring
<1>3. log = [entries |-> ring, total |-> 0] /\ panel = [lines |-> <<>>, total |-> 0]
    BY DEF WindowInit, EmptyLog, NoPanel, ring
<1>4. budget.lines \in Nat /\ budget.lines <= Most("lines") /\ Most("lines") \in Nat
    <2>1. budget["lines"] <= Most("lines") /\ Most("lines") \in Nat
        BY <1>1, MostIsMost
    <2> QED BY <1>1, <2>1, WindowAssumption
<1>5. LogInv
    BY <1>1, <1>2, <1>3, <1>4 DEF LogInv
<1> QED BY <1>2, <1>3, <1>5 DEF PanelInv, PanelIsTheLog

(* Every other step leaves the log and the panel alone, and is not the end  *)
(* of a clear.                                                              *)
LEMMA LogSteps ==
    ASSUME TypeInv, [WindowNext]_windowVars
    PROVE  \/ LogLine \/ RefreshLog \/ ClearEvents \/ ClearPanel
           \/ UNCHANGED <<log, panel, budget>> /\ pc = pc'
           \/ /\ UNCHANGED <<log, panel>> /\ (pc # "cleared" \/ pc = pc')
              /\ budget'.lines = budget.lines
<1>0. budget \in Budget
    BY DEF TypeInv
<1>1. File \/ Input => budget'.lines = budget.lines /\ pc' = pc /\ UNCHANGED <<log, panel>>
    BY <1>0, Spending DEF File, Input, frameVars, panelVars, decodeVars
<1>2. Wake \/ FillSlot \/ IdleRepaint =>
        UNCHANGED <<log, panel, budget>> /\ pc = pc'
    BY DEF Wake, FillSlot, IdleRepaint, frameVars, panelVars, decodeVars
<1>3. NewApp \/ BeginFrame \/ RefreshStore =>
        UNCHANGED <<log, panel, budget>> /\ pc # "cleared"
    BY DEF NewApp, BeginFrame, RefreshStore, frameVars, panelVars, decodeVars
<1>4. Rearranges \/ Looks =>
        UNCHANGED <<log, panel, budget>> /\ pc # "cleared"
    BY DEF Rearranges, Rearranged, Drawn, Looks
<1>5. UNCHANGED windowVars => UNCHANGED <<log, panel, budget>> /\ pc = pc'
    BY DEF windowVars, frameVars, panelVars
<1> QED BY <1>1, <1>2, <1>3, <1>4, <1>5, StepsAre

LEMMA LogInvStep ==
    TypeInv /\ LogInv /\ PanelInv /\ [WindowNext]_windowVars => LogInv' /\ PanelInv'
<1> SUFFICES ASSUME TypeInv, LogInv, PanelInv, [WindowNext]_windowVars
             PROVE  LogInv' /\ PanelInv'
    OBVIOUS
<1>0. /\ log = [entries |-> log.entries, total |-> log.total]
      /\ Most("lines") \in Nat
      /\ log.total \in Nat /\ log.total + budget.lines <= Most("lines")
      /\ Ring(log.entries, Told(log.total)) /\ log.entries.capacity # 0
      /\ panel.total \in Nat /\ panel.total <= log.total
      /\ pc # "cleared" /\ panel.total = log.total => panel.lines = Contents(log.entries)
      /\ budget \in Budget
    BY DEF TypeInv, LogInv, PanelInv, PanelIsTheLog
<1>a. budget.lines \in Nat
    BY <1>0 DEF Budget
<1>1. CASE LogLine
    <2>1. PICK line \in Lines : log' = PushLine(log, line)
        BY <1>1 DEF LogLine
    <2>2. budget'.lines = budget.lines - 1 /\ panel' = panel /\ pc' = pc
        BY <1>0, <1>1, Spending DEF LogLine, panelVars, frameVars
    <2> DEFINE ring == PushLine(log, line).entries
    <2>3. /\ log' = [entries |-> ring, total |-> log.total + 1]
          /\ Ring(ring, Told(log.total + 1)) /\ ring.capacity # 0
        BY <1>0, <2>1, LineLogged
    <2> HIDE DEF ring
    <2>4. log'.entries = ring /\ log'.total = log.total + 1
        BY <2>3
    <2>5. log'.total \in Nat /\ log'.total + budget'.lines <= Most("lines")
        <3> DEFINE k == log.total
                   n == budget.lines
                   most == Most("lines")
        <3>1. k \in Nat /\ n \in Nat /\ most \in Int /\ k + n <= most
            BY <1>0, <1>a
        <3> HIDE DEF k, n, most
        <3>2. k + 1 \in Nat /\ (k + 1) + (n - 1) <= most
            BY <3>1
        <3> QED BY <3>2, <2>2, <2>4 DEF k, n, most
    <2>6. LogInv'
        BY <2>3, <2>4, <2>5 DEF LogInv
    <2>7. panel'.total <= log'.total /\ panel'.total # log'.total
        BY <1>0, <2>2, <2>4
    <2> QED BY <1>0, <2>2, <2>6, <2>7 DEF PanelInv, PanelIsTheLog
<1>2. CASE RefreshLog
    <2>1. log' = log /\ budget' = budget /\ panel' = PanelRefresh(panel, log) /\ pc = "log"
        BY <1>2 DEF RefreshLog
    <2>2. LogInv'
        BY <2>1 DEF LogInv
    <2>3. CASE log.total = panel.total
        <3>1. panel' = panel
            BY <2>1, <2>3 DEF PanelRefresh
        <3> QED BY <1>0, <2>1, <2>2, <2>3, <3>1 DEF PanelInv, PanelIsTheLog
    <2>4. CASE log.total # panel.total
        <3>1. panel'.lines = Contents(log.entries) /\ panel'.total = log.total
            BY <2>1, <2>4 DEF PanelRefresh
        <3> QED BY <1>0, <2>1, <2>2, <3>1 DEF PanelInv, PanelIsTheLog
    <2> QED BY <2>3, <2>4
<1>3. CASE ClearEvents
    <2>1. log' = ClearLog(log) /\ budget' = budget /\ panel' = panel /\ pc' = "cleared"
        BY <1>3 DEF ClearEvents
    <2> DEFINE ring == Cleared(log.entries)
    <2>2. ring = [items |-> <<>>, head |-> 0, capacity |-> log.entries.capacity]
        BY <1>0, RingCleared
    <2>3. Ring(ring, Told(log.total)) /\ ring.capacity # 0
        <3>1. <<>> \in Seq(Told(log.total)) /\ Len(<<>>) = 0
            BY EmptySeq
        <3> QED BY <1>0, <2>2, <3>1 DEF Ring
    <2> HIDE DEF ring
    <2>4. log' = [entries |-> ring, total |-> log.total]
        BY <1>0, <2>1 DEF ClearLog, ring
    <2>5. LogInv'
        BY <1>0, <2>1, <2>3, <2>4 DEF LogInv
    <2> QED BY <1>0, <2>1, <2>4, <2>5 DEF PanelInv, PanelIsTheLog
<1>4. CASE ClearPanel
    <2>1. log' = log /\ budget' = budget /\ panel' = NoPanel
        BY <1>4 DEF ClearPanel
    <2>2. LogInv'
        BY <2>1 DEF LogInv
    <2>3. panel'.total = 0 /\ panel'.lines = <<>>
        BY <2>1 DEF NoPanel
    <2>4. log.total = 0 => Contents(log.entries) = <<>>
        <3> SUFFICES ASSUME log.total = 0
                     PROVE  Contents(log.entries) = <<>>
            OBVIOUS
        <3>1. Told(log.total) = {}
            BY DEF Told
        <3>2. log.entries.items \in Seq({}) /\ Contents(log.entries) \in Seq({})
            BY <1>0, <3>1, ContentsAt DEF Ring
        <3> QED BY <3>2, EmptySeq, ElementOfSeq, LenProperties
    <2> QED BY <1>0, <2>1, <2>2, <2>3, <2>4 DEF PanelInv, PanelIsTheLog
<1>5. CASE /\ UNCHANGED <<log, panel>> /\ (pc # "cleared" \/ pc = pc')
           /\ budget'.lines = budget.lines
    BY <1>0, <1>5 DEF LogInv, PanelInv, PanelIsTheLog
<1>6. CASE UNCHANGED <<log, panel, budget>> /\ pc = pc'
    BY <1>0, <1>6 DEF LogInv, PanelInv, PanelIsTheLog
<1> QED BY <1>1, <1>2, <1>3, <1>4, <1>5, <1>6, LogSteps

-----------------------------------------------------------------------------
(***************************************************************************)
(* The store.  The ring of a watched parameter holds what should be kept of *)
(* it, in order of time; nothing in it is later than the generation.        *)
(***************************************************************************)
Holds(ring, depth, g, times) ==
    /\ Ring(ring, 1..g) /\ ring.capacity = depth
    /\ Contents(ring) = times /\ Increasing(times)

StoreInv ==
    /\ DOMAIN store.latest = Params /\ DOMAIN store.updates = Params
    /\ store.depth \in Nat \ {0} /\ store.generation \in Nat
    /\ Most("packets") \in Nat /\ store.generation + budget.packets <= Most("packets")
    /\ DOMAIN kept = Watched(store)
    /\ pc = "opening" => Watched(store) = {}
    /\ \A p \in Watched(store) :
         Holds(store.history[p], store.depth, store.generation, kept[p])

LEMMA NothingHeld ==
    ASSUME NEW depth \in Nat, NEW g \in Nat
    PROVE  Holds(EmptyRing(depth), depth, g, <<>>)
<1>1. Ring(EmptyRing(depth), 1..g) /\ EmptyRing(depth).capacity = depth
      /\ Contents(EmptyRing(depth)) = <<>>
    BY EmptyIsRing
<1>2. Increasing(<<>>)
    BY DEF Increasing
<1> QED BY <1>1, <1>2 DEF Holds

LEMMA TimesHeld ==
    ASSUME NEW depth \in Nat, NEW g \in Nat, NEW ring, NEW times, Holds(ring, depth, g, times)
    PROVE  times \in Seq(1..g) /\ times \in Seq(Nat) /\ Len(times) <= depth
<1>1. times \in Seq(1..g) /\ Len(times) = Len(ring.items)
    BY ContentsAt DEF Holds
<1>2. 1..g \subseteq Nat
    OBVIOUS
<1>3. Len(ring.items) <= depth
    BY DEF Holds, Ring
<1> QED BY <1>1, <1>2, <1>3, SeqMonotonic

LEMMA LaterHeld ==
    ASSUME NEW depth \in Nat, NEW g \in Nat, NEW ring, NEW times, Holds(ring, depth, g, times)
    PROVE  Holds(ring, depth, g + 1, times)
<1>1. 1..g \subseteq 1..g + 1
    OBVIOUS
<1> QED BY <1>1, RingOfMore DEF Holds

LEMMA PushHeld ==
    ASSUME NEW depth \in Nat \ {0}, NEW g \in Nat, NEW ring, NEW times,
           Holds(ring, depth, g, times)
    PROVE  Holds(Push(ring, g + 1), depth, g + 1, LastOf(Append(times, g + 1), depth))
<1>1. Ring(ring, 1..g + 1) /\ ring.capacity = depth /\ Contents(ring) = times
    BY LaterHeld DEF Holds
<1>2. g + 1 \in 1..g + 1 /\ ring.capacity # 0 /\ g + 1 \in Nat
    BY <1>1
<1>3. /\ Ring(Push(ring, g + 1), 1..g + 1) /\ Push(ring, g + 1).capacity = depth
      /\ Contents(Push(ring, g + 1)) = LastOf(Append(times, g + 1), depth)
    BY <1>1, <1>2, PushKeepsLast
<1>4. times \in Seq(1..g) /\ times \in Seq(Nat)
    BY TimesHeld
<1>5. Append(times, g + 1) \in Seq(Nat)
    BY <1>2, <1>4, AppendProperties
<1>6. Increasing(Append(times, g + 1))
    <2>1. g + 1 > g
        OBVIOUS
    <2>2. Increasing(times)
        BY DEF Holds
    <2> QED BY <1>2, <1>4, <2>1, <2>2, AppendIncreases
<1>7. Increasing(LastOf(Append(times, g + 1), depth))
    BY <1>5, <1>6, LastAreIncreasing
<1> QED BY <1>3, <1>7 DEF Holds

LEMMA ResizeHeld ==
    ASSUME NEW depth \in Nat, NEW d \in Nat, NEW g \in Nat, NEW ring, NEW times,
           Holds(ring, depth, g, times)
    PROVE  Holds(Resize(ring, d), d, g, LastOf(times, d))
<1>1. Ring(ring, 1..g) /\ Contents(ring) = times /\ Increasing(times)
    BY DEF Holds
<1>2. /\ Ring(Resize(ring, d), 1..g) /\ Resize(ring, d).capacity = d
      /\ Contents(Resize(ring, d)) = LastOf(times, d)
    BY <1>1, ResizeKeepsLast
<1>3. times \in Seq(Nat)
    BY TimesHeld
<1>4. Increasing(LastOf(times, d))
    BY <1>1, <1>3, LastAreIncreasing
<1> QED BY <1>2, <1>4 DEF Holds

LEMMA StoreInvInit == WindowInit => StoreInv
<1> SUFFICES ASSUME WindowInit
             PROVE  StoreInv
    OBVIOUS
<1>1. budget \in Budgets /\ StartDepth \in Nat \ {0} /\ kept = <<>>
    BY WindowAssumption DEF WindowInit
<1>2. store = [latest |-> [p \in Params |-> Never], updates |-> [p \in Params |-> 0],
               history |-> <<>>, depth |-> StartDepth, generation |-> 0]
    BY DEF WindowInit, NewStore
<1>3. Watched(store) = {} /\ DOMAIN <<>> = {}
    BY <1>2 DEF Watched
<1>4. budget["packets"] <= Most("packets") /\ Most("packets") \in Nat
    BY <1>1, MostIsMost
<1>5. budget.packets \in Nat
    BY <1>1, WindowAssumption
<1>6. 0 + budget.packets <= Most("packets")
    BY <1>4, <1>5
<1> QED BY <1>1, <1>2, <1>3, <1>4, <1>6 DEF StoreInv

(* What a packet and a rearrangement do to the rings.                       *)
LEMMA FiledHeld ==
    ASSUME TypeInv, StoreInv, NEW carried, NEW time, time = store.generation + 1,
           NEW s, s = Ingest(store, carried, time),
           NEW k, k = [p \in DOMAIN kept |->
                         IF p \in carried \intersect Numeric
                           THEN LastOf(Append(kept[p], time), store.depth)
                           ELSE kept[p]]
    PROVE  /\ DOMAIN s.latest = Params /\ DOMAIN s.updates = Params
           /\ s.depth = store.depth /\ s.generation = time
           /\ Watched(s) = Watched(store) /\ DOMAIN k = Watched(s)
           /\ \A p \in Watched(s) : Holds(s.history[p], s.depth, time, k[p])
<1>0. /\ IsStore(store) /\ DOMAIN kept = Watched(store)
      /\ store.depth \in Nat \ {0} /\ store.generation \in Nat
      /\ DOMAIN store.latest = Params /\ DOMAIN store.updates = Params
    BY DEF TypeInv, StoreInv
<1>1. /\ s.depth = store.depth /\ s.generation = store.generation + 1
      /\ DOMAIN s.latest = Params /\ DOMAIN s.updates = Params
      /\ s.history = [p \in DOMAIN store.history |->
                        IF p \in carried \intersect Numeric
                          THEN Push(store.history[p], time)
                          ELSE store.history[p]]
    BY <1>0 DEF Ingest, IsStore
<1>2. Watched(s) = Watched(store) /\ DOMAIN k = Watched(s)
    BY <1>0, <1>1 DEF Watched
<1>3. ASSUME NEW p \in Watched(s)
      PROVE  Holds(s.history[p], s.depth, time, k[p])
    <2> DEFINE ring == store.history[p]
    <2>1. /\ Holds(ring, store.depth, store.generation, kept[p])
          /\ p \in DOMAIN store.history /\ p \in DOMAIN kept
        BY <1>0, <1>2 DEF StoreInv, Watched
    <2> HIDE DEF ring
    <2>2. CASE p \in carried \intersect Numeric
        <3>1. /\ s.history[p] = Push(ring, time)
              /\ k[p] = LastOf(Append(kept[p], time), store.depth)
            BY <1>1, <2>1, <2>2 DEF ring
        <3>2. Holds(Push(ring, time), store.depth, time,
                    LastOf(Append(kept[p], time), store.depth))
            BY <1>0, <2>1, PushHeld
        <3> QED BY <1>1, <3>1, <3>2
    <2>3. CASE p \notin carried \intersect Numeric
        <3>1. s.history[p] = ring /\ k[p] = kept[p]
            BY <1>1, <2>1, <2>3 DEF ring
        <3>2. Holds(ring, store.depth, time, kept[p])
            BY <1>0, <2>1, LaterHeld
        <3> QED BY <1>1, <3>1, <3>2
    <2> QED BY <2>2, <2>3
<1> QED BY <1>1, <1>2, <1>3

LEMMA RemadeHeld ==
    ASSUME TypeInv, StoreInv, NEW s, Remade(s),
           NEW k, k = [p \in Watched(s) |-> IF p \in DOMAIN kept
                                              THEN LastOf(kept[p], s.depth)
                                              ELSE <<>>]
    PROVE  /\ s.depth \in Nat \ {0} /\ DOMAIN k = Watched(s)
           /\ \A p \in Watched(s) : Holds(s.history[p], s.depth, store.generation, k[p])
<1>0. /\ IsStore(store) /\ DOMAIN kept = Watched(store)
      /\ store.depth \in Nat \ {0} /\ store.generation \in Nat
      /\ \A p \in Watched(store) :
            Holds(store.history[p], store.depth, store.generation, kept[p])
    BY DEF TypeInv, StoreInv
<1>1. ASSUME NEW p \in Watched(store)
      PROVE  LastOf(kept[p], store.depth) = kept[p]
    <2>1. kept[p] \in Seq(Nat) /\ Len(kept[p]) <= store.depth
        BY <1>0, TimesHeld
    <2> QED BY <1>0, <2>1, LastOfAll
<1>2. CASE s = store
    BY <1>0, <1>1, <1>2
<1>3. CASE \E p \in Params : s = Watch(store, {p})
    <2>1. PICK p \in Params : s = Watch(store, {p})
        BY <1>3
    <2>2. /\ s.depth = store.depth
          /\ s.history = [q \in DOMAIN store.history \union {p} |->
                            IF q \in DOMAIN store.history THEN store.history[q]
                                                          ELSE EmptyRing(store.depth)]
        BY <1>0, <2>1 DEF Watch, IsStore
    <2>3. ASSUME NEW q \in Watched(s)
          PROVE  Holds(s.history[q], s.depth, store.generation, k[q])
        <3>1. CASE q \in Watched(store)
            BY <1>0, <1>1, <2>2, <3>1 DEF Watched
        <3>2. CASE q \notin Watched(store)
            <4>1. s.history[q] = EmptyRing(store.depth) /\ k[q] = <<>>
                BY <1>0, <2>2, <3>2 DEF Watched
            <4> QED BY <1>0, <2>2, <4>1, NothingHeld
        <3> QED BY <3>1, <3>2
    <2> QED BY <1>0, <2>2, <2>3
<1>4. CASE \E p \in Params : s = Unwatch(store, p)
    <2>1. PICK p \in Params : s = Unwatch(store, p)
        BY <1>4
    <2>2. /\ s.depth = store.depth
          /\ s.history = [q \in DOMAIN store.history \ {p} |-> store.history[q]]
        BY <1>0, <2>1 DEF Unwatch, IsStore, Restrict
    <2>3. \A q \in Watched(s) : Holds(s.history[q], s.depth, store.generation, k[q])
        BY <1>0, <1>1, <2>2 DEF Watched
    <2> QED BY <1>0, <2>2, <2>3
<1>5. CASE \E depth \in Nat \ {0} : s = SetDepth(store, depth)
    <2>1. PICK depth \in Nat \ {0} : s = SetDepth(store, depth)
        BY <1>5
    <2>2. /\ s.depth = depth
          /\ s.history = [q \in DOMAIN store.history |-> Resize(store.history[q], depth)]
        BY <1>0, <2>1 DEF SetDepth, IsStore
    <2>3. ASSUME NEW q \in Watched(s)
          PROVE  Holds(s.history[q], s.depth, store.generation, k[q])
        <3>1. /\ q \in Watched(store) /\ k[q] = LastOf(kept[q], depth)
              /\ s.history[q] = Resize(store.history[q], depth)
            BY <1>0, <2>2 DEF Watched
        <3> QED BY <1>0, <2>2, <3>1, ResizeHeld
    <2> QED BY <2>2, <2>3
<1> QED BY <1>2, <1>3, <1>4, <1>5 DEF Remade


LEMMA StoreSteps ==
    ASSUME TypeInv, [WindowNext]_windowVars
    PROVE  \/ File \/ NewApp \/ Rearranges
           \/ /\ UNCHANGED <<store, kept>> /\ budget'.packets = budget.packets
              /\ pc' = "opening" => pc = "opening"
<1>0. budget \in Budget
    BY DEF TypeInv
<1>1. LogLine \/ Input =>
        /\ UNCHANGED <<store, kept>> /\ budget'.packets = budget.packets /\ pc' = pc
    BY <1>0, Spending DEF LogLine, Input, frameVars, decodeVars
<1>2. Wake \/ FillSlot \/ IdleRepaint \/ UNCHANGED windowVars =>
        UNCHANGED <<store, kept, budget>> /\ pc = pc'
    BY DEF Wake, FillSlot, IdleRepaint, windowVars, frameVars, panelVars, decodeVars
<1>3. BeginFrame \/ RefreshStore \/ RefreshLog \/ ClearEvents \/ ClearPanel \/ Looks =>
        UNCHANGED <<store, kept, budget>> /\ pc' # "opening"
    BY DEF BeginFrame, RefreshStore, RefreshLog, ClearEvents, ClearPanel, Looks, frameVars,
           panelVars, decodeVars
<1> QED BY <1>1, <1>2, <1>3, StepsAre

LEMMA StoreInvStep ==
    TypeInv /\ StoreInv /\ [WindowNext]_windowVars => StoreInv'
<1> SUFFICES ASSUME TypeInv, StoreInv, [WindowNext]_windowVars
             PROVE  StoreInv'
    OBVIOUS
<1>0. /\ IsStore(store) /\ DOMAIN kept = Watched(store) /\ budget \in Budget
      /\ store.depth \in Nat \ {0} /\ store.generation \in Nat
      /\ DOMAIN store.latest = Params /\ DOMAIN store.updates = Params
      /\ Most("packets") \in Nat /\ store.generation + budget.packets <= Most("packets")
      /\ pc = "opening" => Watched(store) = {}
      /\ \A p \in Watched(store) :
            Holds(store.history[p], store.depth, store.generation, kept[p])
    BY DEF TypeInv, StoreInv
<1>1. CASE File
    <2> DEFINE time == store.generation + 1
    <2>1. PICK carried \in Containers :
            /\ store' = Ingest(store, carried, time)
            /\ kept' = [p \in DOMAIN kept |->
                          IF p \in carried \intersect Numeric
                            THEN LastOf(Append(kept[p], time), store.depth)
                            ELSE kept[p]]
        BY <1>1 DEF File
    <2>2. /\ budget' \in Budget /\ budget'.packets = budget.packets - 1
          /\ pc' = pc
        BY <1>0, <1>1, Spending DEF File, frameVars
    <2>3. /\ DOMAIN store'.latest = Params /\ DOMAIN store'.updates = Params
          /\ store'.depth = store.depth /\ store'.generation = time
          /\ Watched(store') = Watched(store) /\ DOMAIN kept' = Watched(store')
          /\ \A p \in Watched(store') :
                Holds(store'.history[p], store'.depth, time, kept'[p])
        BY <2>1, FiledHeld
    <2>4. time \in Nat /\ time + budget'.packets <= Most("packets")
        <3> DEFINE n == budget.packets
                   g == store.generation
                   most == Most("packets")
        <3>1. n \in Nat /\ g \in Nat /\ most \in Int /\ g + n <= most
            BY <1>0 DEF Budget
        <3> HIDE DEF n, g, most
        <3>2. g + 1 \in Nat /\ (g + 1) + (n - 1) <= most
            BY <3>1
        <3> QED BY <2>2, <3>2 DEF n, g, most
    <2> HIDE DEF time
    <2> QED BY <1>0, <2>2, <2>3, <2>4 DEF StoreInv
<1>2. CASE NewApp
    <2> DEFINE named == UNION Range(layout)
    <2>1. /\ store' = Watch(SetDepth(store, StartDepth), named)
          /\ kept' = [p \in named |-> <<>>]
          /\ budget' = budget /\ pc' # "opening" /\ pc = "opening"
        BY <1>2 DEF NewApp
    <2> HIDE DEF named
    <2>2. StartDepth \in Nat \ {0} /\ DOMAIN store.history = {}
        BY <1>0, <2>1, WindowAssumption DEF Watched
    <2>3. SetDepth(store, StartDepth)
            = [latest |-> store.latest, updates |-> store.updates,
               history |-> [q \in DOMAIN store.history |->
                              Resize(store.history[q], StartDepth)],
               depth |-> StartDepth, generation |-> store.generation]
        BY <1>0, DepthOf
    <2> DEFINE s == SetDepth(store, StartDepth)
    <2>4. /\ DOMAIN s.history = {} /\ s.depth = StartDepth /\ s.latest = store.latest
          /\ s.updates = store.updates /\ s.generation = store.generation
          /\ IsStore(s)
        BY <2>2, <2>3 DEF IsStore
    <2> HIDE DEF s
    <2>5. store' = Watch(s, named)
        BY <2>1 DEF s
    <2>6. store' = [latest |-> s.latest, updates |-> s.updates,
                    history |-> [q \in DOMAIN s.history \union named |->
                            IF q \in DOMAIN s.history THEN s.history[q]
                                                      ELSE EmptyRing(s.depth)],
                    depth |-> s.depth, generation |-> s.generation]
        BY <2>4, <2>5, WatchOf
    <2>7. /\ store'.latest = store.latest /\ store'.updates = store.updates
          /\ store'.depth = StartDepth /\ store'.generation = store.generation
          /\ store'.history = [q \in named |-> EmptyRing(StartDepth)]
        BY <2>4, <2>6
    <2>8. \A p \in Watched(store') :
            Holds(store'.history[p], store'.depth, store'.generation, kept'[p])
        BY <1>0, <2>1, <2>2, <2>7, NothingHeld DEF Watched
    <2>9. DOMAIN kept' = Watched(store')
        BY <2>1, <2>7 DEF Watched
    <2> QED BY <1>0, <2>1, <2>2, <2>7, <2>8, <2>9 DEF StoreInv
<1>3. CASE Rearranges
    <2>1. PICK s, plots : Rearranged(s, plots) /\ Remade(s)
        BY <1>3 DEF Rearranges
    <2>2. /\ store' = s /\ budget' = budget /\ pc' # "opening"
          /\ kept' = [p \in Watched(s) |-> IF p \in DOMAIN kept
                                             THEN LastOf(kept[p], s.depth)
                                             ELSE <<>>]
        BY <2>1 DEF Rearranged, Drawn
    <2>3. s.generation = store.generation /\ s.latest = store.latest
          /\ s.updates = store.updates
        BY <1>0, <2>1, StoreSet
    <2>4. /\ s.depth \in Nat \ {0} /\ DOMAIN kept' = Watched(s)
          /\ \A p \in Watched(s) : Holds(s.history[p], s.depth, store.generation, kept'[p])
        BY <2>1, <2>2, RemadeHeld
    <2> QED BY <1>0, <2>2, <2>3, <2>4 DEF StoreInv
<1>4. CASE /\ UNCHANGED <<store, kept>> /\ budget'.packets = budget.packets
           /\ pc' = "opening" => pc = "opening"
    BY <1>0, <1>4 DEF StoreInv
<1> QED BY <1>1, <1>2, <1>3, <1>4, StoreSteps

-----------------------------------------------------------------------------
(***************************************************************************)
(* Frames.  A frame is owed a copy as long as an input event has not been   *)
(* drawn, and while one is owed another frame is asked for.                 *)
(***************************************************************************)
FrameInv ==
    /\ passes \in 0..2
    /\ pc = "opening" => passes = 2 /\ repaint = slot
    /\ pc # "opening" => slot
    /\ taken /\ pc = "store" => passes = 2
    /\ taken /\ pc \in {"log", "ui"} => passes >= 1
    /\ passes > 0 => pc \in {"opening", "store", "log"} \/ repaint

LEMMA FrameInvInit == WindowInit => FrameInv
<1> SUFFICES ASSUME WindowInit
             PROVE  FrameInv
    OBVIOUS
<1>1. slot = FALSE /\ repaint = FALSE /\ pc = "opening" /\ taken = FALSE /\ passes = 2
    BY DEF WindowInit, INPUT_REFRESH_PASSES
<1>2. passes \in 0..2
    BY <1>1
<1>a. ~taken /\ repaint = slot
    BY <1>1, Zenon
<1>3. ~(pc # "opening") /\ pc \in {"opening", "store", "log"}
    BY <1>1
<1> QED BY <1>1, <1>2, <1>3, <1>a DEF FrameInv

LEMMA FrameInvStep ==
    TypeInv /\ FrameInv /\ [WindowNext]_windowVars => FrameInv'
<1> SUFFICES ASSUME TypeInv, FrameInv, [WindowNext]_windowVars
             PROVE  FrameInv'
    OBVIOUS
<1>0. /\ slot \in BOOLEAN /\ repaint \in BOOLEAN
      /\ pending \in BOOLEAN /\ taken \in BOOLEAN
    BY DEF TypeInv
<1>1. CASE File \/ LogLine \/ UNCHANGED windowVars
    <2>1. UNCHANGED <<slot, repaint, pc, taken, passes>>
        BY <1>1 DEF File, LogLine, frameVars, windowVars
    <2> QED BY <2>1 DEF FrameInv
<1>2. CASE Wake
    <2>1. repaint' = (repaint \/ slot) /\ UNCHANGED <<slot, pc, taken, passes>>
        BY <1>2 DEF Wake, frameVars
    <2>2. repaint' \in BOOLEAN /\ (repaint => repaint') /\ (repaint = slot => repaint' = slot)
        BY <1>0, <2>1
    <2> QED BY <1>0, <2>1, <2>2 DEF FrameInv
<1>3. CASE FillSlot
    <2>1. slot' = TRUE /\ repaint' = TRUE /\ UNCHANGED <<pc, taken, passes>>
        BY <1>3 DEF FillSlot, frameVars
    <2> QED BY <2>1 DEF FrameInv
<1>4. CASE NewApp
    <2>1. pc = "opening" /\ slot /\ pc' = "idle" /\ UNCHANGED <<slot, repaint, taken, passes>>
        BY <1>4 DEF NewApp
    <2>2. repaint
        BY <2>1 DEF FrameInv
    <2> QED BY <2>1, <2>2 DEF FrameInv
<1>5. CASE Input \/ IdleRepaint
    <2>1. pc # "opening" /\ repaint' = TRUE /\ UNCHANGED <<slot, pc, taken, passes>>
        BY <1>5 DEF Input, IdleRepaint, frameVars
    <2> QED BY <2>1 DEF FrameInv
<1>6. CASE BeginFrame
    <2>1. /\ pc = "idle" /\ pc' = "store" /\ taken' = pending /\ slot' = slot
          /\ passes' = IF pending THEN 2 ELSE passes
        BY <1>6 DEF BeginFrame, INPUT_REFRESH_PASSES
    <2> QED BY <1>0, <2>1 DEF FrameInv
<1>7. CASE RefreshStore
    <2>1. /\ pc = "store" /\ pc' = "log"
          /\ passes' = IF passes > 0 THEN passes - 1 ELSE 0
          /\ UNCHANGED <<slot, repaint, taken>>
        BY <1>7 DEF RefreshStore
    <2>2. passes' \in 0..2 /\ (passes = 2 => passes' >= 1)
        BY <2>1 DEF FrameInv
    <2> QED BY <2>1, <2>2 DEF FrameInv
<1>8. CASE RefreshLog
    <2>1. /\ pc = "log" /\ pc' = "ui" /\ repaint' = (repaint \/ passes > 0)
          /\ UNCHANGED <<slot, taken, passes>>
        BY <1>8 DEF RefreshLog
    <2> QED BY <2>1 DEF FrameInv
<1>9. CASE Rearranges \/ Looks \/ ClearEvents \/ ClearPanel
    <2>1. /\ pc \in {"ui", "cleared"} /\ pc' \in {"idle", "cleared"}
          /\ UNCHANGED <<slot, repaint, taken, passes>>
        BY <1>9 DEF Rearranges, Rearranged, Drawn, Looks, ClearEvents, ClearPanel
    <2> QED BY <2>1 DEF FrameInv
<1> QED BY <1>1, <1>2, <1>3, <1>4, <1>5, <1>6, <1>7, <1>8, <1>9, StepsAre
-----------------------------------------------------------------------------
(***************************************************************************)
(* What is on the screen.  Its series are those of the layout, and when no  *)
(* copy is owed and nothing was filed since the last, it is the store.      *)
(***************************************************************************)
SeriesOf(groups, plots) ==
    /\ DOMAIN groups = DOMAIN plots
    /\ \A i \in DOMAIN plots : DOMAIN groups[i] = plots[i]

ScreenRefreshed ==
    /\ screen.dirty = FALSE
    /\ screen.tree = TreeRefresh(store, controls.search)
    /\ screen.table = TableRefresh(store, controls)
    /\ screen.groups = PlotsRefresh(store, PlotsSync(layout, <<>>), screen.view)

RowsAgree ==
    /\ \A p \in DOMAIN screen.tree : screen.tree[p].watched = (p \in Watched(store))
    /\ \A p \in DOMAIN screen.table : screen.table[p].watched = (p \in Watched(store))

ScreenInv ==
    /\ screen.generation \in Nat /\ screen.generation <= store.generation
    /\ \/ screen.generation = store.generation
       \/ waking \/ repaint \/ pc \in {"opening", "store"}
    /\ screen.dirty \in BOOLEAN
    /\ screen.dirty = FALSE => DOMAIN screen.tree = controls.search
    /\ pc # "opening" => SeriesOf(screen.groups, layout)
    /\ pc # "opening" /\ passes = 0 /\ screen.generation = store.generation
         => ScreenRefreshed
    /\ (pc # "opening" /\ passes = 0) \/ pc \in {"log", "ui"} => RowsAgree

LEMMA SyncedSeries ==
    ASSUME NEW plots, NEW groups
    PROVE  SeriesOf(PlotsSync(plots, groups), plots)
BY DEF SeriesOf, PlotsSync

(* What a grid draws depends on which series it has, not on what they drew. *)
LEMMA RefreshedSeries ==
    ASSUME NEW s, NEW plots, NEW groups, NEW others, NEW v,
           SeriesOf(groups, plots), SeriesOf(others, plots)
    PROVE  /\ SeriesOf(PlotsRefresh(s, groups, v), plots)
           /\ PlotsRefresh(s, groups, v) = PlotsRefresh(s, others, v)
<1> DEFINE PointsOf(p) == IF p \in Watched(s)
                          THEN Points(s.history[p], IF v.paused THEN v.range ELSE NoRange)
                          ELSE <<>>
<1>1. /\ PlotsRefresh(s, groups, v)
            = [i \in DOMAIN groups |-> [p \in DOMAIN groups[i] |-> PointsOf(p)]]
      /\ PlotsRefresh(s, others, v)
            = [i \in DOMAIN others |-> [p \in DOMAIN others[i] |-> PointsOf(p)]]
    BY DEF PlotsRefresh
<1> HIDE DEF PointsOf
<1>2. /\ [i \in DOMAIN groups |-> [p \in DOMAIN groups[i] |-> PointsOf(p)]]
            = [i \in DOMAIN plots |-> [p \in plots[i] |-> PointsOf(p)]]
      /\ [i \in DOMAIN others |-> [p \in DOMAIN others[i] |-> PointsOf(p)]]
            = [i \in DOMAIN plots |-> [p \in plots[i] |-> PointsOf(p)]]
    BY DEF SeriesOf
<1>3. SeriesOf([i \in DOMAIN plots |-> [p \in plots[i] |-> PointsOf(p)]], plots)
    BY DEF SeriesOf
<1> QED BY <1>1, <1>2, <1>3

LEMMA RefreshedRows ==
    ASSUME NEW s, NEW matches, NEW c
    PROVE  /\ DOMAIN TreeRefresh(s, matches) = matches
           /\ \A p \in DOMAIN TreeRefresh(s, matches) :
                TreeRefresh(s, matches)[p].watched = (p \in Watched(s))
           /\ \A p \in DOMAIN TableRefresh(s, c) :
                TableRefresh(s, c)[p].watched = (p \in Watched(s))
<1>1. DOMAIN TreeRefresh(s, matches) = matches
    BY DEF TreeRefresh
<1>2. ASSUME NEW p \in DOMAIN TreeRefresh(s, matches)
      PROVE  TreeRefresh(s, matches)[p].watched = (p \in Watched(s))
    <2>1. TreeRefresh(s, matches)[p] = [watched |-> p \in Watched(s), last |-> s.latest[p]]
        BY <1>1 DEF TreeRefresh
    <2> QED BY <2>1
<1>3. ASSUME NEW p \in DOMAIN TableRefresh(s, c)
      PROVE  TableRefresh(s, c)[p].watched = (p \in Watched(s))
    <2>1. TableRefresh(s, c)[p] = [time |-> s.latest[p], updates |-> s.updates[p],
                                   watched |-> p \in Watched(s)]
        BY DEF TableRefresh
    <2> QED BY <2>1
<1> QED BY <1>1, <1>2, <1>3


LEMMA ScreenInvInit == WindowInit => ScreenInv
<1> SUFFICES ASSUME WindowInit
             PROVE  ScreenInv
    OBVIOUS
<1>1. screen = [generation |-> 0, view |-> NewView, dirty |-> TRUE,
                tree |-> <<>>, table |-> <<>>, groups |-> <<>>]
    BY DEF WindowInit
<1>2. store.generation = 0
    BY DEF WindowInit, NewStore
<1>3. screen.generation = 0 /\ screen.dirty = TRUE
    BY <1>1
<1>4. pc = "opening"
    BY DEF WindowInit
<1>5. ~(pc # "opening") /\ ~(pc \in {"log", "ui"}) /\ pc \in {"opening", "store"}
    BY <1>4
<1>6. screen.generation \in Nat /\ screen.generation <= store.generation
    BY <1>2, <1>3
<1>7. screen.dirty \in BOOLEAN /\ ~(screen.dirty = FALSE)
    BY <1>3, Zenon
<1> QED BY <1>5, <1>6, <1>7 DEF ScreenInv

(* Steps that leave the screen, and everything it is compared with, alone.  *)
LEMMA ScreenKept ==
    ASSUME ScreenInv,
           UNCHANGED <<store, layout, controls, screen>>,
           pc # "opening" /\ passes' = 0 => passes = 0,
           pc' # "opening" => pc # "opening",
           pc' \in {"log", "ui"} => pc \in {"log", "ui"},
           \/ screen.generation = store.generation
           \/ waking' \/ repaint' \/ pc' \in {"opening", "store"}
    PROVE  ScreenInv'
<1>1. /\ screen.generation \in Nat /\ screen.generation <= store.generation
      /\ screen.dirty \in BOOLEAN
      /\ screen.dirty = FALSE => DOMAIN screen.tree = controls.search
      /\ pc # "opening" => SeriesOf(screen.groups, layout)
      /\ pc # "opening" /\ passes = 0 /\ screen.generation = store.generation
           => ScreenRefreshed
      /\ (pc # "opening" /\ passes = 0) \/ pc \in {"log", "ui"} => RowsAgree
    BY DEF ScreenInv
<1>2. ScreenRefreshed' <=> ScreenRefreshed
    BY DEF ScreenRefreshed
<1>3. RowsAgree' <=> RowsAgree
    BY DEF RowsAgree
<1> QED BY <1>1, <1>2, <1>3 DEF ScreenInv

LEMMA ScreenInvStep ==
    TypeInv /\ StoreInv /\ FrameInv /\ ScreenInv /\ [WindowNext]_windowVars => ScreenInv'
<1> SUFFICES ASSUME TypeInv, StoreInv, FrameInv, ScreenInv, [WindowNext]_windowVars
             PROVE  ScreenInv'
    OBVIOUS
<1>0. /\ slot \in BOOLEAN /\ repaint \in BOOLEAN /\ waking \in BOOLEAN
      /\ pending \in BOOLEAN /\ taken \in BOOLEAN
      /\ store.generation \in Nat /\ passes \in 0..2
      /\ screen.generation \in Nat /\ screen.generation <= store.generation
      /\ screen.dirty \in BOOLEAN
      /\ screen.dirty = FALSE => DOMAIN screen.tree = controls.search
      /\ IsStore(store) /\ IsScreen(screen) /\ IsControls(controls)
    BY DEF TypeInv, StoreInv, FrameInv, ScreenInv
<1>a. \/ screen.generation = store.generation
      \/ waking \/ repaint \/ pc \in {"opening", "store"}
    BY DEF ScreenInv
<1>b. pc # "opening" => SeriesOf(screen.groups, layout)
    BY DEF ScreenInv
<1>c. /\ pc # "opening" /\ passes = 0 /\ screen.generation = store.generation
           => ScreenRefreshed
      /\ (pc # "opening" /\ passes = 0) \/ pc \in {"log", "ui"} => RowsAgree
    BY DEF ScreenInv
<1>1. CASE File
    <2>1. PICK carried \in Containers :
            /\ store' = Ingest(store, carried, store.generation + 1)
            /\ kept' = [p \in DOMAIN kept |->
                          IF p \in carried \intersect Numeric
                            THEN LastOf(Append(kept[p], store.generation + 1), store.depth)
                            ELSE kept[p]]
        BY <1>1 DEF File
    <2>2. waking' = TRUE /\ UNCHANGED <<pc, passes, layout, controls, screen>>
        BY <1>1 DEF File, frameVars, panelVars
    <2>3. store'.generation = store.generation + 1 /\ Watched(store') = Watched(store)
        BY <2>1, FiledHeld
    <2>4. RowsAgree' <=> RowsAgree
        BY <2>2, <2>3 DEF RowsAgree
    <2>5. /\ screen'.generation # store'.generation
          /\ screen'.generation <= store'.generation
        BY <1>0, <2>2, <2>3
    <2> QED BY <1>0, <1>b, <1>c, <2>2, <2>4, <2>5 DEF ScreenInv
<1>2. CASE Wake
    <2>1. /\ repaint' = (repaint \/ slot)
          /\ UNCHANGED <<store, layout, controls, screen, pc, passes>>
        BY <1>2 DEF Wake, frameVars, panelVars
    <2>2. pc = "opening" \/ repaint'
        BY <1>0, <2>1 DEF FrameInv
    <2> QED BY <2>1, <2>2, ScreenKept
<1>3. CASE LogLine \/ UNCHANGED windowVars
    <2>1. UNCHANGED <<store, layout, controls, screen, pc, passes, waking, repaint>>
        BY <1>3 DEF LogLine, windowVars, decodeVars, frameVars, panelVars
    <2> QED BY <1>a, <2>1, ScreenKept
<1>4. CASE FillSlot \/ Input \/ IdleRepaint
    <2>1. UNCHANGED <<store, layout, controls, screen, pc, passes>> /\ repaint' = TRUE
        BY <1>4 DEF FillSlot, Input, IdleRepaint, decodeVars, frameVars, panelVars
    <2> QED BY <2>1, ScreenKept
<1>5. CASE NewApp
    <2>1. /\ store' = Watch(SetDepth(store, StartDepth), UNION Range(layout))
          /\ screen' = [screen EXCEPT !.groups = PlotsSync(layout, screen.groups)]
          /\ pc = "opening" /\ pc' = "idle" /\ slot
          /\ UNCHANGED <<repaint, passes, layout, controls>>
        BY <1>5 DEF NewApp
    <2>2. passes = 2 /\ repaint' = TRUE
        BY <1>0, <2>1 DEF FrameInv
    <2>3. store'.generation = store.generation
        <3> DEFINE s == SetDepth(store, StartDepth)
                   named == UNION Range(layout)
        <3>1. IsStore(s) /\ s.generation = store.generation
            BY <1>0, DepthOf DEF IsStore
        <3> HIDE DEF s, named
        <3>2. Watch(s, named).generation = s.generation
            BY <3>1, WatchKeeps
        <3> QED BY <2>1, <3>1, <3>2 DEF s, named
    <2>4. /\ screen'.generation = screen.generation /\ screen'.dirty = screen.dirty
          /\ screen'.tree = screen.tree /\ screen'.groups = PlotsSync(layout, screen.groups)
        BY <1>0, <2>1, ScreenParts
    <2>5. SeriesOf(screen'.groups, layout')
        BY <2>1, <2>4, SyncedSeries
    <2> QED BY <1>0, <2>1, <2>2, <2>3, <2>4, <2>5 DEF ScreenInv
<1>6. CASE BeginFrame
    <2>1. /\ pc = "idle" /\ pc' = "store"
          /\ passes' = IF pending THEN 2 ELSE passes
          /\ UNCHANGED <<store, layout, controls, screen>>
        BY <1>6 DEF BeginFrame, INPUT_REFRESH_PASSES, decodeVars, panelVars
    <2>2. passes' = 0 => passes = 0
        BY <2>1
    <2> QED BY <2>1, <2>2, ScreenKept
<1>8. CASE RefreshLog
    <2>1. /\ pc = "log" /\ pc' = "ui" /\ repaint' = (repaint \/ passes > 0)
          /\ UNCHANGED <<store, waking, layout, controls, screen, passes>>
        BY <1>8 DEF RefreshLog, decodeVars
    <2>2. screen.generation = store.generation \/ waking' \/ repaint'
        BY <1>0, <1>a, <2>1
    <2> QED BY <2>1, <2>2, ScreenKept
<1>9. CASE ClearEvents \/ ClearPanel
    <2>1. /\ pc \notin {"opening", "store"} /\ pc' \in {"idle", "cleared"}
          /\ UNCHANGED <<store, waking, repaint, passes, layout, controls, screen>>
        BY <1>9 DEF ClearEvents, ClearPanel, decodeVars
    <2> QED BY <1>a, <2>1, ScreenKept
<1>10. CASE Looks
    <2>1. /\ pc = "ui" /\ pc' = "idle"
          /\ UNCHANGED <<store, waking, repaint, passes, taken, layout>>
        BY <1>10 DEF Looks
    <2>2. CASE UNCHANGED <<controls, screen>>
        BY <1>a, <2>1, <2>2, ScreenKept
    <2>3. CASE taken /\ UNCHANGED screen /\ controls'.search = controls.search
        <3>1. passes >= 1
            BY <2>1, <2>3 DEF FrameInv
        <3>2. passes' # 0
            BY <1>0, <2>1, <3>1
        <3> QED BY <1>0, <1>a, <1>b, <2>1, <2>3, <3>2 DEF ScreenInv
    <2>4. CASE taken /\ screen' = [screen EXCEPT !.dirty = TRUE]
        <3>1. passes >= 1
            BY <2>1, <2>4 DEF FrameInv
        <3>2. passes' # 0
            BY <1>0, <2>1, <3>1
        <3>3. /\ screen'.generation = screen.generation /\ screen'.dirty = TRUE
              /\ screen'.groups = screen.groups
            BY <1>0, <2>4, ScreenParts
        <3> QED BY <1>0, <1>a, <1>b, <2>1, <3>2, <3>3 DEF ScreenInv
    <2> QED BY <1>10, <2>2, <2>3, <2>4 DEF Looks
<1>11. CASE Rearranges
    <2>1. PICK s, plots : Rearranged(s, plots) /\ Remade(s)
        BY <1>11 DEF Rearranges
    <2>2. /\ pc = "ui" /\ pc' = "idle" /\ taken /\ store' = s /\ layout' = plots
          /\ screen' = [screen EXCEPT !.groups = PlotsSync(plots, screen.groups)]
          /\ UNCHANGED <<waking, repaint, passes, controls>>
        BY <2>1 DEF Rearranged, Drawn
    <2>3. passes >= 1
        BY <2>2 DEF FrameInv
    <2>4. passes' # 0
        BY <1>0, <2>2, <2>3
    <2>5. s.generation = store.generation
        BY <1>0, <2>1, StoreSet
    <2>6. /\ screen'.generation = screen.generation /\ screen'.dirty = screen.dirty
          /\ screen'.tree = screen.tree /\ screen'.groups = PlotsSync(plots, screen.groups)
        BY <1>0, <2>2, ScreenParts
    <2>7. SeriesOf(screen'.groups, layout')
        BY <2>2, <2>6, SyncedSeries
    <2> QED BY <1>0, <1>a, <2>2, <2>4, <2>5, <2>6, <2>7 DEF ScreenInv
<1>7. CASE RefreshStore
    <2> DEFINE search == IF screen.dirty THEN controls.search ELSE DOMAIN screen.tree
    <2>1. /\ pc = "store" /\ pc' = "log"
          /\ \/ screen' = [generation |-> store.generation, view |-> view, dirty |-> FALSE,
                           tree |-> TreeRefresh(store, search),
                           table |-> TableRefresh(store, controls),
                           groups |-> PlotsRefresh(store, screen.groups, view)]
             \/ screen' = screen /\ ~(passes > 0) /\ store.generation = screen.generation
          /\ UNCHANGED <<store, layout, controls>>
        BY <1>7 DEF RefreshStore, decodeVars
    <2>2. search = controls.search
        BY <1>0
    <2> HIDE DEF search
    <2>3. CASE screen' = screen /\ ~(passes > 0) /\ store.generation = screen.generation
        <3>1. passes = 0
            BY <1>0, <2>3
        <3>2. ScreenRefreshed /\ RowsAgree
            BY <1>c, <2>1, <2>3, <3>1
        <3>3. ScreenRefreshed' /\ RowsAgree'
            BY <2>1, <2>3, <3>2 DEF ScreenRefreshed, RowsAgree
        <3> QED BY <1>0, <1>b, <2>1, <2>3, <3>3 DEF ScreenInv
    <2>4. CASE screen' = [generation |-> store.generation, view |-> view, dirty |-> FALSE,
                          tree |-> TreeRefresh(store, search),
                          table |-> TableRefresh(store, controls),
                          groups |-> PlotsRefresh(store, screen.groups, view)]
        <3>1. /\ screen'.generation = store.generation /\ screen'.view = view
              /\ screen'.dirty = FALSE /\ screen'.tree = TreeRefresh(store, controls.search)
              /\ screen'.table = TableRefresh(store, controls)
              /\ screen'.groups = PlotsRefresh(store, screen.groups, view)
            BY <2>2, <2>4
        <3>2. SeriesOf(screen.groups, layout) /\ SeriesOf(PlotsSync(layout, <<>>), layout)
            BY <1>b, <2>1, SyncedSeries
        <3>3. /\ SeriesOf(screen'.groups, layout)
              /\ screen'.groups = PlotsRefresh(store, PlotsSync(layout, <<>>), view)
            BY <3>1, <3>2, RefreshedSeries
        <3>4. ScreenRefreshed'
            BY <2>1, <3>1, <3>3 DEF ScreenRefreshed
        <3>5. RowsAgree'
            BY <2>1, <3>1, RefreshedRows DEF RowsAgree
        <3>6. DOMAIN screen'.tree = controls.search
            BY <3>1, RefreshedRows
        <3>7. /\ screen'.generation \in Nat /\ screen'.generation <= store'.generation
              /\ screen'.generation = store'.generation
            BY <1>0, <2>1, <3>1
        <3>8. /\ screen'.dirty \in BOOLEAN
              /\ DOMAIN screen'.tree = controls'.search /\ SeriesOf(screen'.groups, layout')
            BY <2>1, <3>1, <3>3, <3>6, Zenon
        <3> QED BY <3>4, <3>5, <3>7, <3>8 DEF ScreenInv
    <2> QED BY <2>1, <2>3, <2>4
<1> QED BY <1>1, <1>2, <1>3, <1>4, <1>5, <1>6, <1>7, <1>8, <1>9, <1>10, <1>11, StepsAre

-----------------------------------------------------------------------------
(***************************************************************************)
(* Together.                                                                *)
(***************************************************************************)
WindowInv == TypeInv /\ LogInv /\ PanelInv /\ StoreInv /\ FrameInv /\ ScreenInv

\* The six parts are inductive together: each step uses several and keeps all.
THEOREM WindowInvHolds == WindowSpec => []WindowInv
<1>1. WindowInit => WindowInv
    BY TypeInvInit, LogInvInit, StoreInvInit, FrameInvInit, ScreenInvInit DEF WindowInv
<1>2. WindowInv /\ [WindowNext]_windowVars => WindowInv'
    BY TypeInvStep, LogInvStep, StoreInvStep, FrameInvStep, ScreenInvStep DEF WindowInv
<1> QED BY <1>1, <1>2, PTL DEF WindowSpec

(***************************************************************************)
(* The panel that has counted as many lines as the log holds the log's      *)
(* lines with their repeats, through repeats and through a clear that a     *)
(* line slipped into.                                                       *)
(***************************************************************************)
THEOREM PanelHoldsTheLog == WindowSpec => []PanelIsTheLog
<1>1. WindowInv => PanelIsTheLog
    BY DEF WindowInv, PanelInv
<1> QED BY <1>1, WindowInvHolds, PTL

(***************************************************************************)
(* A window that waits for its timer draws the store as it is, in the       *)
(* filters and the layout as they are, whatever was filed, asked for and    *)
(* woken between the copies.                                                *)
(***************************************************************************)
THEOREM QuietWindowIsCurrent == WindowSpec => []DrawnIsCurrent
<1>1. WindowInv => DrawnIsCurrent
    <2> SUFFICES ASSUME WindowInv, Quiet
                 PROVE  /\ screen.generation = store.generation
                        /\ ~screen.dirty
                        /\ screen.tree = TreeRefresh(store, controls.search)
                        /\ screen.table = TableRefresh(store, controls)
                        /\ screen.groups =
                             PlotsRefresh(store, PlotsSync(layout, <<>>), screen.view)
        BY DEF DrawnIsCurrent
    <2>1. pc = "idle" /\ ~repaint /\ ~waking
        BY DEF Quiet
    <2>2. passes = 0
        BY <2>1 DEF WindowInv, FrameInv
    <2>3. screen.generation = store.generation
        BY <2>1 DEF WindowInv, ScreenInv
    <2>4. ScreenRefreshed
        BY <2>1, <2>2, <2>3 DEF WindowInv, ScreenInv
    <2>5. screen.dirty = FALSE
        BY <2>4 DEF ScreenRefreshed
    <2> QED BY <2>3, <2>4, <2>5, Zenon DEF ScreenRefreshed
<1> QED BY <1>1, WindowInvHolds, PTL

\* The inductive invariant bounds what the type invariant of the runs names.
LEMMA WindowTyped ==
    ASSUME WindowInv
    PROVE  WindowTypeOK
<1>1. /\ budget \in Budget /\ pc \in Phases /\ layout \in Seq(SUBSET Params)
      /\ waking \in BOOLEAN /\ slot \in BOOLEAN /\ repaint \in BOOLEAN
      /\ pending \in BOOLEAN /\ taken \in BOOLEAN
    BY DEF WindowInv, TypeInv
<1>2. budget.packets \in Nat /\ budget.lines \in Nat
    BY <1>1 DEF Budget
<1>3. /\ store.depth \in Nat \ {0} /\ store.generation \in Nat
      /\ DOMAIN store.latest = Params /\ DOMAIN store.updates = Params
      /\ Most("packets") \in Nat /\ store.generation + budget.packets <= Most("packets")
      /\ DOMAIN kept = Watched(store)
    BY DEF WindowInv, StoreInv
<1>4. store.generation \in 0..Most("packets")
    BY <1>2, <1>3
<1>5. ASSUME NEW p \in Watched(store)
      PROVE  IsRing(store.history[p], 1..Most("packets"))
    <2>1. Ring(store.history[p], 1..store.generation)
        BY DEF WindowInv, StoreInv, Holds
    <2>2. 1..store.generation \subseteq 1..Most("packets")
        BY <1>3, <1>4
    <2>3. Ring(store.history[p], 1..Most("packets"))
        BY <2>1, <2>2, RingOfMore
    <2> QED BY <2>3 DEF Ring, IsRing
<1>6. IsRing(log.entries, [line : Lines, times : 1..Most("lines")])
    <2>1. /\ log.total \in Nat /\ Most("lines") \in Nat
          /\ log.total + budget.lines <= Most("lines")
          /\ Ring(log.entries, Told(log.total))
        BY DEF WindowInv, LogInv
    <2>2. 1..log.total \subseteq 1..Most("lines")
        BY <1>2, <2>1
    <2>3. Told(log.total) \subseteq [line : Lines, times : 1..Most("lines")]
        BY <2>2 DEF Told
    <2>4. Ring(log.entries, [line : Lines, times : 1..Most("lines")])
        BY <2>1, <2>3, RingOfMore
    <2> QED BY <2>4 DEF Ring, IsRing
<1>7. passes \in 0..INPUT_REFRESH_PASSES
    BY DEF WindowInv, FrameInv, INPUT_REFRESH_PASSES
<1>8. {waking, slot, repaint, pending, taken} \subseteq BOOLEAN
    BY <1>1
<1> QED BY <1>1, <1>3, <1>4, <1>5, <1>6, <1>7, <1>8 DEF WindowTypeOK, Phases

(***************************************************************************)
(* A watched history is what was filed since it was watched, as much of it  *)
(* as every depth has left, and a line is drawn from every point inside the *)
(* shown range and one to either side of it.                                *)
(***************************************************************************)
THEOREM HistoryIsDrawn == WindowSpec => []WindowIsCovered
<1>1. ASSUME WindowInv
      PROVE  WindowIsCovered
    <2>1. /\ store.depth \in Nat \ {0} /\ store.generation \in Nat
          /\ Most("packets") \in Nat
          /\ \A p \in Watched(store) :
                Holds(store.history[p], store.depth, store.generation, kept[p])
        BY <1>1 DEF WindowInv, StoreInv
    <2>2. \A p \in Watched(store) : Contents(store.history[p]) = kept[p]
        BY <2>1 DEF Holds
    <2>3. ASSUME NEW p \in Watched(store), NEW low \in 0 .. Most("packets") + 1,
                 NEW high \in 0 .. Most("packets") + 1
          PROVE  LET all == kept[p]
                     earlier == {i \in DOMAIN all : all[i] < low}
                     later == {i \in DOMAIN all : all[i] > high}
                     first == IF earlier = {} THEN 1 ELSE Max(earlier)
                     last == IF later = {} THEN Len(all) ELSE Min(later)
                 IN  Points(store.history[p], <<low, high>>) = SubSeq(all, first, last)
        <3> DEFINE ring == store.history[p]
                   times == kept[p]
                   g == store.generation
        <3>1. low \in Nat /\ high \in Nat /\ g \in Nat
            BY <2>1
        <3>2. Ring(ring, 1..g) /\ times = Contents(ring) /\ Increasing(times)
            BY <2>1 DEF Holds
        <3> HIDE DEF ring, times, g
        <3>3. Points(ring, <<low, high>>) = Around(times, low, high)
            BY <3>1, <3>2, RangeIsCovered
        <3> QED BY <3>3, Zenon DEF Around, ring, times
    <2>4. WindowTypeOK
        BY <1>1, WindowTyped
    <2> QED BY <2>2, <2>3, <2>4 DEF WindowIsCovered
<1> QED BY <1>1, WindowInvHolds, PTL

(***************************************************************************)
(* What a row says is what it does.                                         *)
(***************************************************************************)
THEOREM RowsDoWhatTheySay == WindowSpec => RowsAct
<1>1. ASSUME WindowInv, NEW p \in Params
      PROVE  /\ WatchRow(p) => p \notin Watched(store)
             /\ UnwatchRow(p) => p \in Watched(store)
    <2>1. WatchRow(p) \/ UnwatchRow(p) => RowsAgree
        BY <1>1 DEF WindowInv, ScreenInv, WatchRow, UnwatchRow, Rearranged, Drawn
    <2>2. ASSUME WatchRow(p)
          PROVE  p \notin Watched(store)
        <3>1. (p \in Watched(store)) = FALSE
            BY <2>1, <2>2, Zenon DEF WatchRow, SaysWatched, RowsAgree
        <3> QED BY <3>1, Zenon
    <2>3. ASSUME UnwatchRow(p)
          PROVE  p \in Watched(store)
        <3>1. (p \in Watched(store)) = TRUE
            BY <2>1, <2>3, Zenon DEF UnwatchRow, SaysWatched, RowsAgree
        <3> QED BY <3>1, Zenon
    <2> QED BY <2>2, <2>3
<1>2. WindowInv =>
        [\A p \in Params :
           /\ WatchRow(p) => p \notin Watched(store)
           /\ UnwatchRow(p) => p \in Watched(store)]_windowVars
    BY <1>1
<1> QED BY <1>2, WindowInvHolds, PTL DEF RowsAct
=============================================================================
