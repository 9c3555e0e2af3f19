-------------------------- MODULE MedianSortProofs --------------------------
(***************************************************************************)
(* The insertion sort of median() returns the median by rank, for every    *)
(* vector of prices.                                                       *)
(***************************************************************************)
EXTENDS MedianSort, StatisticsProofs, SequenceTheorems

\* The first n of s are the first n of px in another order: position i holds what is
\* at order[i] in px.
Reorders(order, n, s, px) ==
  /\ order \in Bijection(1..n, 1..n)
  /\ \A i \in 1..n : s[i] = px[order[i]]

\* t is s with p at position k and what was there one further on.
IsInsertion(t, s, k, p) ==
  /\ t \in [1..Len(s) + 1 -> Nat]
  /\ \A i \in 1..Len(s) + 1 : /\ i < k => i \in 1..Len(s) /\ t[i] = s[i]
                              /\ i = k => t[i] = p
                              /\ i > k => i - 1 \in 1..Len(s) /\ t[i] = s[i - 1]

Rearranged == \E order : Reorders(order, taken, sorted, prices)

Ascending == \A i, j \in 1..taken : i <= j => sorted[i] <= sorted[j]

SortInv ==
  /\ prices \in Inputs
  /\ taken \in 0..Len(prices)
  /\ sorted \in [1..taken -> Nat]
  /\ Ascending
  /\ Rearranged

LEMMA PricesAreVector ==
  ASSUME NEW px \in Inputs
  PROVE  /\ Len(px) \in Nat \ {0}
         /\ px \in [1..Len(px) -> Nat]
         /\ px \in [1..Len(px) -> 1..MAX_PRICE]
<1>1. px \in Seq(1..MAX_PRICE) /\ px # <<>>
  BY InputsAssumption
<1>2. Len(px) \in Nat \ {0}
  BY <1>1, EmptySeq
<1> DEFINE Accepted == 1..MAX_PRICE
<1> HIDE DEF Accepted
<1>3. px \in [1..Len(px) -> Accepted]
  <2>1. px \in Seq(Accepted)
    BY <1>1 DEF Accepted
  <2> QED BY <2>1
<1>4. 1..MAX_PRICE \subseteq Nat
  BY WidthAssumption
<1> QED BY <1>2, <1>3, <1>4 DEF Accepted

-----------------------------------------------------------------------------
\* What one round of the loop does to the vector.

\* The slot is behind the prices that are not larger and before those that are.
LEMMA SlotSplits ==
  ASSUME NEW p \in Nat, taken \in Nat, sorted \in [1..taken -> Nat], Ascending
  PROVE  /\ Slot(p) \in 1..taken + 1
         /\ \A i \in 1..taken : i < Slot(p) => sorted[i] <= p
         /\ \A i \in 1..taken : Slot(p) <= i => p < sorted[i]
<1> DEFINE larger == {j \in DOMAIN sorted : p < sorted[j]}
<1>1. DOMAIN sorted = 1..taken /\ Len(sorted) = taken
  OBVIOUS
<1>2. CASE larger = {}
  <2>1. Slot(p) = taken + 1
    BY <1>1, <1>2 DEF Slot
  <2>2. \A i \in 1..taken : ~ (p < sorted[i])
    BY <1>1, <1>2
  <2> QED BY <2>1, <2>2
<1>3. CASE larger # {}
  <2>1. larger \in SUBSET Nat
    BY <1>1
  <2>2. \E n \in larger : \A m \in larger : n <= m
    <3> HIDE DEF larger
    <3> QED BY <1>3, <2>1, LeastNatural
  <2>3. Slot(p) = CHOOSE j \in larger : \A k \in larger : j <= k
    BY <1>3 DEF Slot
  <2>4. Slot(p) \in larger /\ \A k \in larger : Slot(p) <= k
    <3> HIDE DEF larger
    <3> QED BY <2>2, <2>3
  <2>5. Slot(p) \in 1..taken /\ p < sorted[Slot(p)]
    BY <1>1, <2>4
  <2>6. \A i \in 1..taken : p < sorted[i] => Slot(p) <= i
    BY <1>1, <2>4
  <2> HIDE DEF larger
  <2>7. \A i \in 1..taken : i < Slot(p) => sorted[i] <= p
    BY <2>5, <2>6
  <2>8. \A i \in 1..taken : Slot(p) <= i => p < sorted[i]
    BY <2>5 DEF Ascending
  <2> QED BY <2>5, <2>7, <2>8
<1> QED BY <1>2, <1>3

LEMMA InsertAtIs ==
  ASSUME NEW n \in Nat, NEW s \in [1..n -> Nat], NEW k \in 1..n + 1, NEW p \in Nat
  PROVE  IsInsertion(InsertAt(s, k, p), s, k, p)
<1> DEFINE front == SubSeq(s, 1, k - 1)
           back == SubSeq(s, k, n)
           whole == InsertAt(s, k, p)
<1>1. Len(s) = n
  OBVIOUS
<1>2. /\ front \in Seq(Nat) /\ Len(front) = k - 1
      /\ \A i \in 1..k - 1 : front[i] = s[i]
  <2>1. 1 \in Int /\ k - 1 \in Int /\ \A i \in 1..k - 1 : s[i] \in Nat
    OBVIOUS
  <2>2. /\ front \in Seq(Nat)
        /\ Len(front) = IF 1 <= k - 1 THEN (k - 1) - 1 + 1 ELSE 0
        /\ \A i \in 1..(k - 1) - 1 + 1 : front[i] = s[1 + i - 1]
    BY <2>1, SubSeqProperties
  <2> QED BY <2>2
<1>3. /\ back \in Seq(Nat) /\ Len(back) = n - k + 1
      /\ \A i \in 1..n - k + 1 : back[i] = s[k + i - 1]
  <2>1. k \in Int /\ n \in Int /\ \A i \in k..n : s[i] \in Nat
    OBVIOUS
  <2>2. /\ back \in Seq(Nat)
        /\ Len(back) = IF k <= n THEN n - k + 1 ELSE 0
        /\ \A i \in 1..n - k + 1 : back[i] = s[k + i - 1]
    BY <2>1, SubSeqProperties
  <2> QED BY <2>2
<1>4. whole = front \o <<p>> \o back
  BY <1>1 DEF InsertAt
<1> HIDE DEF front, back, whole
<1> DEFINE one == <<p>>
           head == front \o one
<1>5. one \in Seq(Nat) /\ Len(one) = 1 /\ one[1] = p
  OBVIOUS
<1> HIDE DEF one
<1>6. /\ head \in Seq(Nat) /\ Len(head) = k
      /\ \A i \in 1..k : head[i] = IF i < k THEN s[i] ELSE p
  <2>1. /\ head \in Seq(Nat) /\ Len(head) = Len(front) + Len(one)
        /\ \A i \in 1..Len(front) + Len(one) :
             head[i] = IF i <= Len(front) THEN front[i] ELSE one[i - Len(front)]
    BY <1>2, <1>5, ConcatProperties
  <2> HIDE DEF head
  <2>2. ASSUME NEW i \in 1..k
        PROVE  head[i] = IF i < k THEN s[i] ELSE p
    <3>1. CASE i < k
      <4>1. /\ i \in 1..k - 1 /\ i <= Len(front)
            /\ i \in 1..Len(front) + Len(one)
        BY <1>2, <1>5, <3>1
      <4>2. head[i] = front[i]
        BY <2>1, <4>1
      <4> QED BY <1>2, <3>1, <4>1, <4>2
    <3>2. CASE i = k
      BY <1>2, <1>5, <2>1, <3>2
    <3> QED BY <3>1, <3>2
  <2> QED BY <1>2, <1>5, <2>1, <2>2
<1> HIDE DEF head
<1>7. /\ whole \in Seq(Nat) /\ Len(whole) = n + 1
      /\ \A i \in 1..n + 1 : whole[i] = IF i <= k THEN head[i] ELSE back[i - k]
  <2>1. /\ whole \in Seq(Nat) /\ Len(whole) = Len(head) + Len(back)
        /\ \A i \in 1..Len(head) + Len(back) :
             whole[i] = IF i <= Len(head) THEN head[i] ELSE back[i - Len(head)]
    <3>1. whole = head \o back
      BY <1>4 DEF head, one
    <3> QED BY <1>3, <1>6, <3>1, ConcatProperties
  <2> QED BY <1>3, <1>6, <2>1
<1>8. ASSUME NEW i \in 1..n + 1
      PROVE  whole[i] = IF i < k THEN s[i] ELSE IF i = k THEN p ELSE s[i - 1]
  <2>1. CASE i <= k
    BY <1>6, <1>7, <2>1
  <2>2. CASE i > k
    <3>1. i - k \in 1..n - k + 1 /\ k + (i - k) - 1 = i - 1
      BY <2>2
    <3>2. whole[i] = back[i - k]
      BY <1>7, <2>2
    <3>3. back[i - k] = s[k + (i - k) - 1]
      BY <1>3, <3>1
    <3> QED BY <2>2, <3>1, <3>2, <3>3
  <2> QED BY <2>1, <2>2
<1>9. whole \in [1..n + 1 -> Nat]
  BY <1>7
<1> QED BY <1>1, <1>8, <1>9 DEF whole, IsInsertion

\* A rearrangement of n positions, with position n + 1 inserted at k, is one of n + 1.
LEMMA InsertRearranges ==
  ASSUME NEW n \in Nat, NEW order \in Bijection(1..n, 1..n), NEW k \in 1..n + 1
  PROVE  [i \in 1..n + 1 |->
            IF i < k THEN order[i] ELSE IF i = k THEN n + 1 ELSE order[i - 1]]
           \in Bijection(1..n + 1, 1..n + 1)
<1> DEFINE next == [i \in 1..n + 1 |->
                      IF i < k THEN order[i] ELSE IF i = k THEN n + 1 ELSE order[i - 1]]
<1>1. /\ order \in [1..n -> 1..n]
      /\ \A i, j \in 1..n : order[i] = order[j] => i = j
      /\ \A t \in 1..n : \E i \in 1..n : order[i] = t
  BY DEF Bijection, Injection, Surjection, IsInjective
<1>2. \A i \in 1..n + 1 : /\ i < k => i \in 1..n /\ next[i] = order[i]
                          /\ i = k => next[i] = n + 1
                          /\ i > k => i - 1 \in 1..n /\ next[i] = order[i - 1]
  OBVIOUS
<1>3. \A i \in 1..n + 1 : next[i] \in 1..n + 1 /\ (i # k => next[i] \in 1..n)
  <2> HIDE DEF next
  <2> TAKE i \in 1..n + 1
  <2>1. CASE i < k
    <3>1. next[i] \in 1..n
      BY <1>1, <1>2, <2>1
    <3> QED BY <3>1
  <2>2. CASE i = k
    BY <1>2, <2>2
  <2>3. CASE i > k
    <3>1. i - 1 \in 1..n /\ next[i] = order[i - 1]
      BY <1>2, <2>3
    <3>2. next[i] \in 1..n
      BY <1>1, <3>1
    <3> QED BY <3>2
  <2> QED BY <2>1, <2>2, <2>3
<1>4. next \in [1..n + 1 -> 1..n + 1]
  BY <1>3
<1> HIDE DEF next
<1>5. \A i, j \in 1..n + 1 : next[i] = next[j] => i = j
  <2> SUFFICES ASSUME NEW i \in 1..n + 1, NEW j \in 1..n + 1, i < j, next[i] = next[j]
               PROVE  FALSE
    OBVIOUS
  <2>1. i # k /\ j # k
    BY <1>2, <1>3
  <2>2. CASE j < k
    BY <1>1, <1>2, <2>2
  <2>3. CASE i < k /\ k < j
    <3>1. i = j - 1
      BY <1>1, <1>2, <2>3
    <3> QED BY <2>3, <3>1
  <2>4. CASE k < i
    <3>1. i - 1 = j - 1
      BY <1>1, <1>2, <2>4
    <3> QED BY <3>1
  <2> QED BY <2>1, <2>2, <2>3, <2>4
<1>6. \A t \in 1..n + 1 : \E i \in 1..n + 1 : next[i] = t
  <2> TAKE t \in 1..n + 1
  <2>1. CASE t = n + 1
    BY <1>2, <2>1
  <2>2. CASE t # n + 1
    <3>1. PICK i \in 1..n : order[i] = t
      BY <1>1, <2>2
    <3>2. CASE i < k
      <4>1. i \in 1..n + 1 /\ next[i] = t
        BY <1>2, <3>1, <3>2
      <4> QED BY <4>1
    <3>3. CASE k <= i
      <4>1. i + 1 \in 1..n + 1 /\ i + 1 > k /\ (i + 1) - 1 = i
        BY <3>3
      <4>2. next[i + 1] = t
        BY <1>2, <3>1, <4>1
      <4> QED BY <4>1, <4>2
    <3> QED BY <3>2, <3>3
  <2> QED BY <2>1, <2>2
<1>7. next \in Bijection(1..n + 1, 1..n + 1)
  BY <1>4, <1>5, <1>6 DEF Bijection, Injection, Surjection, IsInjective
<1> QED BY <1>7 DEF next

-----------------------------------------------------------------------------
LEMMA SortInitInv == SortInit => SortInv
<1> SUFFICES ASSUME SortInit PROVE SortInv
  OBVIOUS
<1>1. prices \in Inputs /\ sorted = <<>> /\ taken = 0 /\ Len(prices) \in Nat
  BY PricesAreVector DEF SortInit
<1>2. taken \in 0..Len(prices) /\ 1..taken = {}
  BY <1>1
<1>3. sorted \in [1..taken -> Nat]
  BY <1>1, <1>2
<1>4. <<>> \in Bijection(1..taken, 1..taken)
  BY <1>2 DEF Bijection, Injection, Surjection, IsInjective
<1> QED BY <1>1, <1>2, <1>3, <1>4 DEF SortInv, Ascending, Rearranged, Reorders

LEMMA InsertInv == SortInv /\ Insert => SortInv'
<1> SUFFICES ASSUME SortInv, Insert PROVE SortInv'
  OBVIOUS
<1> DEFINE n == taken
           p == prices[n + 1]
           k == Slot(p)
           s == sorted
           t == sorted'
<1>1. /\ prices \in Inputs /\ prices' = prices
      /\ Len(prices) \in Nat /\ prices \in [1..Len(prices) -> Nat]
      /\ n \in Nat /\ n < Len(prices) /\ taken' = n + 1
      /\ s \in [1..n -> Nat]
      /\ t = InsertAt(s, k, p)
  BY PricesAreVector DEF SortInv, Insert
<1>2. p \in Nat
  BY <1>1
<1>3. /\ k \in 1..n + 1
      /\ \A i \in 1..n : i < k => s[i] <= p
      /\ \A i \in 1..n : k <= i => p < s[i]
  BY <1>1, <1>2, SlotSplits DEF SortInv
<1> HIDE DEF p, k, n, s, t
<1>4. IsInsertion(t, s, k, p)
  BY <1>1, <1>2, <1>3, InsertAtIs
<1>5. \A i \in 1..n + 1 : /\ i < k => i \in 1..n /\ t[i] = s[i]
                          /\ i = k => t[i] = p
                          /\ i > k => i - 1 \in 1..n /\ t[i] = s[i - 1]
  BY <1>1, <1>4 DEF IsInsertion
<1>6. t \in [1..n + 1 -> Nat]
  <2>1. Len(s) = n
    BY <1>1
  <2> QED BY <1>4, <2>1 DEF IsInsertion
<1>7. \A i, j \in 1..n : i <= j => s[i] <= s[j]
  BY DEF SortInv, Ascending, n, s
<1>8. Ascending'
  <2>1. \A i, j \in 1..n + 1 : i <= j => t[i] <= t[j]
    <3> SUFFICES ASSUME NEW i \in 1..n + 1, NEW j \in 1..n + 1, i < j
                 PROVE  t[i] <= t[j]
      BY <1>6
    <3>1. CASE j < k
      BY <1>1, <1>3, <1>5, <1>7, <3>1
    <3>2. CASE j = k
      BY <1>1, <1>3, <1>5, <3>2
    <3>3. CASE j > k /\ i < k
      BY <1>1, <1>3, <1>5, <1>7, <3>3
    <3>4. CASE j > k /\ i = k
      <4>1. j - 1 \in 1..n /\ k <= j - 1 /\ t[j] = s[j - 1] /\ t[i] = p
        BY <1>1, <1>3, <1>5, <3>4
      <4>2. p < s[j - 1] /\ s[j - 1] \in Nat
        BY <1>1, <1>3, <4>1
      <4> QED BY <1>2, <4>1, <4>2
    <3>5. CASE j > k /\ i > k
      BY <1>1, <1>3, <1>5, <1>7, <3>5
    <3> QED BY <1>1, <1>3, <3>1, <3>2, <3>3, <3>4, <3>5
  <2> QED BY <1>1, <2>1 DEF Ascending, n, t
<1>9. Rearranged'
  <2>1. PICK order : /\ order \in Bijection(1..n, 1..n)
                     /\ \A i \in 1..n : s[i] = prices[order[i]]
    BY DEF SortInv, Rearranged, Reorders, n, s
  <2> DEFINE next == [i \in 1..n + 1 |->
                IF i < k THEN order[i] ELSE IF i = k THEN n + 1 ELSE order[i - 1]]
  <2>2. next \in Bijection(1..n + 1, 1..n + 1)
    BY <1>1, <1>3, <2>1, InsertRearranges
  <2>3. \A i \in 1..n + 1 : t[i] = prices[next[i]]
    BY <1>1, <1>3, <1>5, <2>1 DEF p
  <2> HIDE DEF next
  <2> QED BY <1>1, <2>2, <2>3 DEF Rearranged, Reorders, n, t
<1>10. taken' \in 0..Len(prices')
  BY <1>1
<1> QED BY <1>1, <1>6, <1>8, <1>9, <1>10 DEF SortInv, n, t

LEMMA SortStepInv == SortInv /\ [Insert]_sortVars => SortInv'
<1>1. SortInv /\ UNCHANGED sortVars => SortInv'
  BY DEF SortInv, Ascending, Rearranged, Reorders, sortVars
<1> QED BY <1>1, InsertInv

LEMMA SortInvHolds == SortSpec => []SortInv
BY SortInitInv, SortStepInv, PTL DEF SortSpec

-----------------------------------------------------------------------------
\* Positions of f with a value in V.
Holding(f, n, V) == {i \in 1..n : f[i] \in V}

\* A rearrangement has as many of them as the prices have.
LEMMA SameCounts ==
  ASSUME NEW n \in Nat, NEW s, NEW px, NEW order, Reorders(order, n, s, px), NEW V
  PROVE  Cardinality(Holding(s, n, V)) = Cardinality(Holding(px, n, V))
<1> DEFINE S == Holding(s, n, V)
           T == Holding(px, n, V)
           f == [i \in S |-> order[i]]
<1>1. /\ order \in [1..n -> 1..n]
      /\ \A i, j \in 1..n : order[i] = order[j] => i = j
      /\ \A t \in 1..n : \E i \in 1..n : order[i] = t
      /\ \A i \in 1..n : s[i] = px[order[i]]
  BY DEF Reorders, Bijection, Injection, Surjection, IsInjective
<1>2. f \in [S -> T] /\ \A i \in S : f[i] = order[i] /\ i \in 1..n
  BY <1>1 DEF Holding
<1>3. \A t \in T : \E i \in S : f[i] = t
  <2> TAKE t \in T
  <2>1. t \in 1..n /\ px[t] \in V
    BY DEF Holding
  <2>2. PICK i \in 1..n : order[i] = t
    BY <1>1, <2>1
  <2>3. i \in S
    BY <1>1, <2>1, <2>2 DEF Holding
  <2> QED BY <1>2, <2>2, <2>3
<1>4. S \in SUBSET (1..n) /\ IsFiniteSet(1..n)
  BY FS_Interval DEF Holding
<1> HIDE DEF S, T, f
<1>5. f \in Bijection(S, T)
  BY <1>1, <1>2, <1>3 DEF Bijection, Injection, Surjection, IsInjective
<1>6. IsFiniteSet(S) /\ ExistsBijection(S, T)
  BY <1>4, <1>5, FS_Subset DEF ExistsBijection
<1>7. Cardinality(T) = Cardinality(S)
  BY <1>6, FS_Bijection
<1> QED BY <1>7 DEF S, T

LEMMA InvSortedPrefix == SortInv => SortedPrefix
<1> SUFFICES ASSUME SortInv PROVE SortedPrefix
  OBVIOUS
<1>1. taken \in Nat /\ Len(sorted) = taken
  BY PricesAreVector DEF SortInv
<1>2. \A i \in 1 .. taken - 1 : sorted[i] <= sorted[i + 1]
  BY <1>1 DEF SortInv, Ascending
<1>3. ASSUME NEW v
      PROVE  Cardinality({i \in 1 .. taken : sorted[i] = v})
               = Cardinality({i \in 1 .. taken : prices[i] = v})
  <2>1. PICK order : Reorders(order, taken, sorted, prices)
    BY DEF SortInv, Rearranged
  <2>2. Cardinality(Holding(sorted, taken, {v})) = Cardinality(Holding(prices, taken, {v}))
    BY <1>1, <2>1, SameCounts
  <2>3. /\ Holding(sorted, taken, {v}) = {i \in 1 .. taken : sorted[i] = v}
        /\ Holding(prices, taken, {v}) = {i \in 1 .. taken : prices[i] = v}
    BY DEF Holding
  <2> QED BY <2>2, <2>3
<1> QED BY <1>1, <1>2, <1>3 DEF SortedPrefix

\* After every round of the loop the vector is in ascending order and holds each
\* price taken so far as often as it was submitted.
THEOREM PrefixIsSorted == SortSpec => []SortedPrefix
BY SortInvHolds, InvSortedPrefix, PTL

-----------------------------------------------------------------------------
\* There is only one k-th smallest price.
LEMMA KthSmallestUnique ==
  ASSUME NEW n \in Nat, NEW px \in [1..n -> Nat], NEW k \in 1..n,
         NEW v, NEW w, IsKthSmallest(px, k, v), IsKthSmallest(px, k, w)
  PROVE  v = w
<1>1. v \in Nat /\ w \in Nat
  BY DEF IsKthSmallest, Range
<1>2. \A x, y \in Nat : IsKthSmallest(px, k, x) /\ IsKthSmallest(px, k, y) => ~ (x < y)
  <2> SUFFICES ASSUME NEW x \in Nat, NEW y \in Nat, x < y,
                      IsKthSmallest(px, k, x), IsKthSmallest(px, k, y)
               PROVE  FALSE
    OBVIOUS
  <2>1. Cardinality(AtMost(px, x)) <= Cardinality(Below(px, y))
    BY PositionCountsGrow
  <2>2. Cardinality(AtMost(px, x)) \in Nat /\ Cardinality(Below(px, y)) \in Nat
    BY PositionCounts
  <2> QED BY <2>1, <2>2 DEF IsKthSmallest
<1> QED BY <1>1, <1>2

\* In an ascending vector the k-th smallest is at position k.
LEMMA AscendingRank ==
  ASSUME NEW n \in Nat, NEW s \in [1..n -> Nat], NEW k \in 1..n,
         \A i, j \in 1..n : i <= j => s[i] <= s[j]
  PROVE  IsKthSmallest(s, k, s[k])
<1>1. s[k] \in Range(s) /\ s[k] \in Nat /\ DOMAIN s = 1..n
  BY DEF Range
<1>2. 1..k \subseteq AtMost(s, s[k]) /\ Below(s, s[k]) \subseteq 1..k - 1
  BY <1>1 DEF AtMost, Below
<1>3. /\ IsFiniteSet(1..k - 1) /\ Cardinality(1..k - 1) = k - 1
      /\ Cardinality(1..k) = k
  <2>1. 1 \in Int /\ k \in Int /\ k - 1 \in Int
    OBVIOUS
  <2>2. /\ IsFiniteSet(1..k - 1)
        /\ Cardinality(1..k - 1) = IF 1 > k - 1 THEN 0 ELSE (k - 1) - 1 + 1
        /\ Cardinality(1..k) = IF 1 > k THEN 0 ELSE k - 1 + 1
    BY <2>1, FS_Interval, Zenon
  <2> QED BY <2>2
<1>4. /\ IsFiniteSet(AtMost(s, s[k])) /\ Cardinality(AtMost(s, s[k])) \in Nat
      /\ Cardinality(Below(s, s[k])) \in Nat
  BY <1>1, PositionCounts
<1>5. /\ Cardinality(1..k) <= Cardinality(AtMost(s, s[k]))
      /\ Cardinality(Below(s, s[k])) <= Cardinality(1..k - 1)
  BY <1>2, <1>3, <1>4, FS_Subset
<1> QED BY <1>1, <1>3, <1>4, <1>5 DEF IsKthSmallest

\* Rank does not depend on the order of the prices.
LEMMA RankOfRearrangement ==
  ASSUME NEW n \in Nat, NEW s \in [1..n -> Nat], NEW px \in [1..n -> Nat],
         NEW order, Reorders(order, n, s, px),
         NEW k \in 1..n, NEW v, IsKthSmallest(s, k, v)
  PROVE  IsKthSmallest(px, k, v)
<1>1. order \in [1..n -> 1..n] /\ \A i \in 1..n : s[i] = px[order[i]]
  BY DEF Reorders, Bijection, Injection
<1>2. v \in Range(px)
  BY <1>1 DEF IsKthSmallest, Range
<1>3. ASSUME NEW V PROVE Cardinality(Holding(s, n, V)) = Cardinality(Holding(px, n, V))
  BY SameCounts
<1> DEFINE low == {x \in Range(s) \cup Range(px) : x < v}
           upTo == {x \in Range(s) \cup Range(px) : x <= v}
<1>4. /\ Below(s, v) = Holding(s, n, low)
      /\ Below(px, v) = Holding(px, n, low)
      /\ AtMost(s, v) = Holding(s, n, upTo)
      /\ AtMost(px, v) = Holding(px, n, upTo)
  BY DEF Below, AtMost, Holding, Range
<1> HIDE DEF low, upTo
<1>5. /\ Cardinality(Below(s, v)) = Cardinality(Below(px, v))
      /\ Cardinality(AtMost(s, v)) = Cardinality(AtMost(px, v))
  BY <1>3, <1>4
<1> QED BY <1>2, <1>5 DEF IsKthSmallest

LEMMA InvReturnsMedian == SortInv => ReturnsMedian
<1> SUFFICES ASSUME SortInv, taken = Len(prices) PROVE Middle = Median(prices)
  BY DEF ReturnsMedian
<1> DEFINE n == taken
<1>1. /\ n \in Nat \ {0} /\ Len(prices) = n /\ Len(sorted) = n
      /\ prices \in [1..n -> Nat] /\ sorted \in [1..n -> Nat]
      /\ prices \in [1..n -> 1..MAX_PRICE]
      /\ \A i, j \in 1..n : i <= j => sorted[i] <= sorted[j]
  BY PricesAreVector DEF SortInv, Ascending
<1>2. PICK order : Reorders(order, n, sorted, prices)
  BY DEF SortInv, Rearranged
<1> HIDE DEF n
<1>3. \A k \in 1..n : KthSmallest(prices, k) = sorted[k]
  <2> TAKE k \in 1..n
  <2>1. n \in Nat /\ sorted[k] \in Nat
    BY <1>1
  <2>2. IsKthSmallest(sorted, k, sorted[k])
    BY <1>1, <2>1, AscendingRank
  <2>3. IsKthSmallest(prices, k, sorted[k])
    BY <1>1, <1>2, <2>1, <2>2, RankOfRearrangement
  <2>4. IsKthSmallest(prices, k, KthSmallest(prices, k))
    BY <1>1, <2>1, KthSmallestIs
  <2> QED BY <1>1, <2>1, <2>3, <2>4, KthSmallestUnique
<1>4. \A i \in 1..n : sorted[i] \in 1..MAX_PRICE
  BY <1>1, <1>2 DEF Reorders, Bijection, Injection
<1>5. CASE n % 2 = 1
  <2>1. n \div 2 + 1 \in 1..n
    BY <1>1, <1>5
  <2> QED BY <1>1, <1>3, <1>5, <2>1 DEF Middle, Median
<1>6. CASE n % 2 # 1
  <2>1. n \div 2 \in 1..n /\ n \div 2 + 1 \in 1..n
    BY <1>1, <1>6
  <2>2. ~ (sorted[n \div 2] + sorted[n \div 2 + 1] > I128Max)
    <3> DEFINE x == sorted[n \div 2]
               y == sorted[n \div 2 + 1]
    <3>1. x \in 1..MAX_PRICE /\ y \in 1..MAX_PRICE
      BY <1>4, <2>1
    <3> HIDE DEF x, y
    <3>2. ~ (x + y > I128Max)
      BY <3>1, WidthAssumption
    <3> QED BY <3>2 DEF x, y
  <2> QED BY <1>1, <1>3, <1>6, <2>1, <2>2 DEF Middle, Median
<1> QED BY <1>5, <1>6

\* median() returns the median by rank, ties and even counts included, whatever the
\* number of prices and their order, and does not trap: twice the largest accepted price
\* is still an i128.
THEOREM SortReturnsMedian == SortSpec => []ReturnsMedian
BY SortInvHolds, InvReturnsMedian, PTL
=============================================================================
