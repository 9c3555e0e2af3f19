-------------------------- MODULE StatisticsProofs -------------------------
(***************************************************************************)
(* Facts about what the system computes from its prices, for every set and *)
(* every tuple of them: sums over finite sets, quotients, order statistics *)
(* and the median.                                                         *)
(***************************************************************************)
EXTENDS Median, Sums, FiniteSetTheorems, TLAPS

\* Every non-empty set of naturals has a least element.
LEMMA LeastNatural ==
  ASSUME NEW T \in SUBSET Nat, T # {}
  PROVE  \E n \in T : \A m \in T : n <= m
<1> DEFINE U == {1..n : n \in T}
           R == StrictSubsetOrdering(Nat)
<1>1. U # {} /\ U \subseteq FiniteSubsetsOf(Nat)
  <2>1. \A n \in Nat : 1..n \subseteq Nat /\ IsFiniteSet(1..n)
    BY FS_Interval
  <2> QED BY <2>1 DEF FiniteSubsetsOf
<1>2. \E I \in U : \A J \in U : ~ (<<J, I>> \in R)
  BY <1>1, FS_StrictSubsetOrderingWellFounded, WFMin
<1>3. \A m, n \in Nat : m < n => <<1..m, 1..n>> \in R
  <2> SUFFICES ASSUME NEW m \in Nat, NEW n \in Nat, m < n
              PROVE  <<1..m, 1..n>> \in R
    OBVIOUS
  <2>1. 1..m \subseteq Nat /\ 1..n \subseteq Nat /\ 1..m \subseteq 1..n
    OBVIOUS
  <2>2. n \in 1..n /\ n \notin 1..m
    OBVIOUS
  <2> QED BY <2>1, <2>2 DEF StrictSubsetOrdering
<1>4. PICK n \in T : \A J \in U : ~ (<<J, 1..n>> \in R)
  BY <1>2
<1>5. \A m \in T : n <= m
  <2> SUFFICES ASSUME NEW m \in T, m < n PROVE FALSE
    OBVIOUS
  <2>1. <<1..m, 1..n>> \in R
    BY <1>3
  <2> QED BY <2>1, <1>4
<1> QED BY <1>5

-----------------------------------------------------------------------------
\* Sums over finite sets.

\* Among subsets of a finite set, if some are bad, one is bad and minimal.
LEMMA MinimalSubset ==
  ASSUME NEW S, IsFiniteSet(S), NEW Bad \in SUBSET SUBSET S, Bad # {}
  PROVE  \E s \in Bad : \A t \in SUBSET s : t # s => t \notin Bad
<1> DEFINE R == StrictSubsetOrdering(S)
<1>1. Bad \subseteq FiniteSubsetsOf(S)
  BY FS_Subset DEF FiniteSubsetsOf
<1>2. PICK s \in Bad : \A t \in Bad : ~ (<<t, s>> \in R)
  BY <1>1, FS_StrictSubsetOrderingWellFounded, WFMin
<1>3. \A t \in SUBSET s : t # s => <<t, s>> \in R
  BY <1>2 DEF StrictSubsetOrdering
<1> HIDE DEF R
<1>4. \A t \in SUBSET s : t # s => t \notin Bad
  BY <1>2, <1>3
<1> QED BY <1>2, <1>4

Pick(s) == CHOOSE x \in s : TRUE

\* The function Total is defined with, on the subsets of S.
IsSum(g, f, S) ==
  g = [s \in SUBSET S |-> IF s = {} THEN 0 ELSE f[Pick(s)] + g[s \ {Pick(s)}]]

LEMMA TotalIs ==
  ASSUME NEW f, NEW S
  PROVE  Total(f, S) = (CHOOSE g : IsSum(g, f, S))[S]
BY DEF Total, MapThenSumSet, MapThenFoldSet, Pick, IsSum

LEMMA PickIn ==
  ASSUME NEW s, s # {}
  PROVE  Pick(s) \in s
BY DEF Pick

\* Two such functions agree where both are defined.
LEMMA SumsAgree ==
  ASSUME NEW f, NEW S, IsFiniteSet(S), NEW T \in SUBSET S,
         NEW g, IsSum(g, f, S), NEW h, IsSum(h, f, T), NEW r \in SUBSET T
  PROVE  g[r] = h[r]
<1> DEFINE Bad == {s \in SUBSET T : g[s] # h[s]}
<1>1. SUFFICES ASSUME Bad # {} PROVE FALSE
  OBVIOUS
<1>2. IsFiniteSet(T) /\ Bad \in SUBSET SUBSET T
  BY FS_Subset
<1>3. \E s \in Bad : \A t \in SUBSET s : t # s => t \notin Bad
  <2> HIDE DEF Bad
  <2> QED BY <1>1, <1>2, MinimalSubset
<1> PICK s \in Bad : \A t \in SUBSET s : t # s => t \notin Bad
  BY <1>3
<1>4. CASE s = {}
  BY <1>4 DEF IsSum
<1>5. CASE s # {}
  <2> DEFINE t == s \ {Pick(s)}
  <2>1. t \in SUBSET s /\ t # s /\ t \in SUBSET T
    BY <1>5, PickIn
  <2>2. g[t] = h[t]
    BY <2>1
  <2>3. g[s] = f[Pick(s)] + g[t] /\ h[s] = f[Pick(s)] + h[t]
    BY <1>5 DEF IsSum
  <2> QED BY <2>2, <2>3
<1> QED BY <1>4, <1>5

\* It exists.
LEMMA SumExists ==
  ASSUME NEW f, NEW S, IsFiniteSet(S)
  PROVE  IsSum(CHOOSE g : IsSum(g, f, S), f, S)
<1> DEFINE Bad == {s \in SUBSET S : ~ \E g : IsSum(g, f, s)}
           Sum(s) == CHOOSE g : IsSum(g, f, s)
<1>1. SUFFICES ASSUME Bad # {} PROVE FALSE
  OBVIOUS
<1>2. \E s \in Bad : \A t \in SUBSET s : t # s => t \notin Bad
  <2>1. Bad \in SUBSET SUBSET S
    OBVIOUS
  <2> HIDE DEF Bad
  <2> QED BY <1>1, <2>1, MinimalSubset
<1> PICK s \in Bad : \A t \in SUBSET s : t # s => t \notin Bad
  BY <1>2
<1>3. \A t \in SUBSET s : t # s => IsSum(Sum(t), f, t)
  OBVIOUS
<1>4. \A t \in SUBSET s : IsFiniteSet(t)
  BY FS_Subset
<1> DEFINE g == [t \in SUBSET s |->
                   IF t = {} THEN 0 ELSE f[Pick(t)] + Sum(t \ {Pick(t)})[t \ {Pick(t)}]]
<1> HIDE DEF Sum
<1>5. \A t \in SUBSET s : t # s => g[t] = Sum(t)[t]
  <2> SUFFICES ASSUME NEW t \in SUBSET s, t # s PROVE g[t] = Sum(t)[t]
    OBVIOUS
  <2>1. CASE t = {}
    BY <1>3, <2>1 DEF IsSum
  <2>2. CASE t # {}
    <3> DEFINE u == t \ {Pick(t)}
    <3>1. u \in SUBSET s /\ u # s /\ u \in SUBSET t
      BY <2>2, PickIn
    <3>2. IsSum(Sum(t), f, t) /\ IsSum(Sum(u), f, u) /\ IsFiniteSet(t)
      BY <1>3, <1>4, <3>1
    <3>3. Sum(t)[u] = Sum(u)[u]
      <4> HIDE DEF u
      <4>1. u \in SUBSET u
        OBVIOUS
      <4> QED BY <3>1, <3>2, <4>1, SumsAgree
    <3>4. Sum(t)[t] = f[Pick(t)] + Sum(t)[u]
      BY <2>2, <3>2 DEF IsSum
    <3> QED BY <2>2, <3>3, <3>4
  <2> QED BY <2>1, <2>2
<1>6. \A t \in SUBSET s : t # {} => g[t] = f[Pick(t)] + g[t \ {Pick(t)}]
  <2> SUFFICES ASSUME NEW t \in SUBSET s, t # {}
               PROVE  g[t] = f[Pick(t)] + g[t \ {Pick(t)}]
    OBVIOUS
  <2>1. t \ {Pick(t)} \in SUBSET s /\ t \ {Pick(t)} # s
    BY PickIn
  <2> QED BY <1>5, <2>1
<1>7. g[{}] = 0 /\ g = [t \in SUBSET s |-> g[t]]
  OBVIOUS
<1> HIDE DEF g
<1>8. IsSum(g, f, s)
  BY <1>6, <1>7 DEF IsSum
<1> QED BY <1>8

LEMMA TotalEmpty ==
  ASSUME NEW f
  PROVE  Total(f, {}) = 0
<1>1. IsSum(CHOOSE g : IsSum(g, f, {}), f, {})
  BY SumExists, FS_EmptySet
<1> QED BY <1>1, TotalIs DEF IsSum

LEMMA TotalAt ==
  ASSUME NEW f, NEW S, IsFiniteSet(S), NEW T \in SUBSET S,
         NEW g, IsSum(g, f, S)
  PROVE  g[T] = Total(f, T)
<1>1. IsFiniteSet(T)
  BY FS_Subset
<1>2. PICK h : IsSum(h, f, T) /\ Total(f, T) = h[T]
  BY <1>1, SumExists, TotalIs
<1>3. T \in SUBSET T
  OBVIOUS
<1>4. g[T] = h[T]
  BY <1>2, <1>3, SumsAgree
<1> QED BY <1>2, <1>4

LEMMA TotalPick ==
  ASSUME NEW f, NEW S, IsFiniteSet(S), S # {}
  PROVE  Total(f, S) = f[Pick(S)] + Total(f, S \ {Pick(S)})
<1>1. PICK g : IsSum(g, f, S)
  BY SumExists
<1>2. g[S] = f[Pick(S)] + g[S \ {Pick(S)}]
  BY <1>1 DEF IsSum
<1>3. g[S] = Total(f, S)
  BY <1>1, TotalAt
<1>4. g[S \ {Pick(S)}] = Total(f, S \ {Pick(S)})
  BY <1>1, TotalAt
<1> QED BY <1>2, <1>3, <1>4

\* Which element is taken first does not matter.
LEMMA TotalRemove ==
  ASSUME NEW S, IsFiniteSet(S), NEW f, \A x \in S : f[x] \in Int
  PROVE  /\ Total(f, S) \in Int
         /\ \A y \in S : Total(f, S) = f[y] + Total(f, S \ {y})
<1> DEFINE Good(s) == /\ Total(f, s) \in Int
                      /\ \A y \in s : Total(f, s) = f[y] + Total(f, s \ {y})
           Bad == {s \in SUBSET S : ~Good(s)}
<1>1. SUFFICES ASSUME Bad # {} PROVE FALSE
  OBVIOUS
<1>2. \E s \in Bad : \A t \in SUBSET s : t # s => t \notin Bad
  <2>1. Bad \in SUBSET SUBSET S
    OBVIOUS
  <2> HIDE DEF Bad
  <2> QED BY <1>1, <2>1, MinimalSubset
<1> PICK s \in Bad : \A t \in SUBSET s : t # s => t \notin Bad
  BY <1>2
<1>3. \A t \in SUBSET s : t # s => Good(t)
  OBVIOUS
<1>4. IsFiniteSet(s)
  BY FS_Subset
<1>5. CASE s = {}
  BY <1>5, TotalEmpty
<1>6. CASE s # {}
  <2> DEFINE p == Pick(s)
  <2>1. p \in s /\ f[p] \in Int
    BY <1>6, PickIn
  <2>2. Total(f, s) = f[p] + Total(f, s \ {p})
    BY <1>4, <1>6, TotalPick
  <2> HIDE DEF p
  <2>3. Good(s \ {p})
    BY <1>3, <2>1
  <2>4. ASSUME NEW y \in s, y # p
        PROVE  Total(f, s) = f[y] + Total(f, s \ {y})
    <3> DEFINE u == s \ {p, y}
    <3>1. /\ (s \ {p}) \ {y} = u /\ (s \ {y}) \ {p} = u
          /\ y \in s \ {p} /\ p \in s \ {y} /\ f[y] \in Int
      BY <2>1, <2>4
    <3>2. Good(s \ {y}) /\ Good(u)
      BY <1>3, <2>1, <2>4
    <3> HIDE DEF u
    <3>3. Total(f, s \ {p}) = f[y] + Total(f, u)
      BY <2>3, <3>1
    <3>4. Total(f, s \ {y}) = f[p] + Total(f, u)
      BY <3>1, <3>2
    <3>5. Total(f, u) \in Int
      BY <3>2
    <3> HIDE DEF Good
    <3> QED BY <2>1, <2>2, <3>1, <3>3, <3>4, <3>5
  <2>5. Total(f, s \ {p}) \in Int
    BY <2>3
  <2>6. Total(f, s) \in Int
    BY <2>1, <2>2, <2>5
  <2>7. \A y \in s : Total(f, s) = f[y] + Total(f, s \ {y})
    BY <2>2, <2>4
  <2> QED BY <2>6, <2>7
<1> QED BY <1>5, <1>6

LEMMA TotalInt ==
  ASSUME NEW S, IsFiniteSet(S), NEW f, \A x \in S : f[x] \in Int
  PROVE  Total(f, S) \in Int
BY TotalRemove

\* A sum of terms that are no larger is no larger.
LEMMA TotalMonotone ==
  ASSUME NEW S, IsFiniteSet(S),
         NEW f, \A x \in S : f[x] \in Int,
         NEW g, \A x \in S : g[x] \in Int /\ f[x] <= g[x]
  PROVE  Total(f, S) <= Total(g, S)
<1> DEFINE Bad == {s \in SUBSET S : ~ Total(f, s) <= Total(g, s)}
<1>1. SUFFICES ASSUME Bad # {} PROVE FALSE
  OBVIOUS
<1>2. \E s \in Bad : \A t \in SUBSET s : t # s => t \notin Bad
  <2>1. Bad \in SUBSET SUBSET S
    OBVIOUS
  <2> HIDE DEF Bad
  <2> QED BY <1>1, <2>1, MinimalSubset
<1> PICK s \in Bad : \A t \in SUBSET s : t # s => t \notin Bad
  BY <1>2
<1>3. IsFiniteSet(s)
  BY FS_Subset
<1>4. CASE s = {}
  BY <1>4, TotalEmpty
<1>5. CASE s # {}
  <2> PICK y \in s : TRUE
    BY <1>5
  <2> DEFINE t == s \ {y}
  <2>1. t \in SUBSET s /\ t # s /\ IsFiniteSet(t)
    BY <1>3, FS_Subset
  <2>2. Total(f, t) <= Total(g, t)
    BY <2>1
  <2>3. Total(f, s) = f[y] + Total(f, t) /\ Total(g, s) = g[y] + Total(g, t)
    BY <1>3, TotalRemove
  <2>4. Total(f, t) \in Int /\ Total(g, t) \in Int
    BY <2>1, TotalInt
  <2> QED BY <2>2, <2>3, <2>4
<1> QED BY <1>4, <1>5

\* Terms that are not negative sum up to no less than some of them.
LEMMA TotalOfPart ==
  ASSUME NEW S, IsFiniteSet(S), NEW T \in SUBSET S,
         NEW f, \A x \in S : f[x] \in Nat
  PROVE  Total(f, T) \in Int /\ Total(f, S) \in Int /\ Total(f, T) <= Total(f, S)
<1> DEFINE Bad == {s \in SUBSET S : T \subseteq s /\ ~ Total(f, T) <= Total(f, s)}
<1>1. \A s \in SUBSET S : IsFiniteSet(s) /\ Total(f, s) \in Int
  <2> TAKE s \in SUBSET S
  <2>1. IsFiniteSet(s) /\ \A x \in s : f[x] \in Int
    BY FS_Subset
  <2> QED BY <2>1, TotalInt
<1>2. SUFFICES ASSUME Bad # {} PROVE FALSE
  BY <1>1
<1>3. \E s \in Bad : \A t \in SUBSET s : t # s => t \notin Bad
  <2>1. Bad \in SUBSET SUBSET S
    OBVIOUS
  <2> HIDE DEF Bad
  <2> QED BY <1>2, <2>1, MinimalSubset
<1>4. PICK s \in Bad : \A t \in SUBSET s : t # s => t \notin Bad
  BY <1>3
<1>5. PICK y \in s : y \notin T
  <2>1. s # T
    BY <1>1, <1>4
  <2> QED BY <1>4, <2>1
<1>6. /\ T \subseteq s \ {y} /\ s \ {y} \in SUBSET s /\ s \ {y} # s
      /\ s \in SUBSET S /\ s \ {y} \in SUBSET S /\ f[y] \in Nat
  BY <1>4, <1>5
<1>7. Total(f, T) <= Total(f, s \ {y})
  BY <1>4, <1>6
<1>8. Total(f, s) = f[y] + Total(f, s \ {y})
  <2>1. IsFiniteSet(s) /\ \A x \in s : f[x] \in Int
    BY <1>1, <1>6
  <2> QED BY <1>5, <2>1, TotalRemove
<1>9. ~ Total(f, T) <= Total(f, s)
  BY <1>4
<1> HIDE DEF Bad
<1> QED BY <1>1, <1>6, <1>7, <1>8, <1>9

\* Equal terms, equal sums.
LEMMA TotalEqual ==
  ASSUME NEW S, IsFiniteSet(S),
         NEW f, \A x \in S : f[x] \in Int,
         NEW g, \A x \in S : g[x] = f[x]
  PROVE  Total(f, S) = Total(g, S)
<1>1. Total(f, S) \in Int /\ Total(g, S) \in Int
  BY TotalInt
<1>2. Total(f, S) <= Total(g, S) /\ Total(g, S) <= Total(f, S)
  BY TotalMonotone
<1> QED BY <1>1, <1>2

\* Sums are linear.
LEMMA TotalLinear ==
  ASSUME NEW S, IsFiniteSet(S), NEW c \in Int,
         NEW f, \A x \in S : f[x] \in Int,
         NEW g, \A x \in S : g[x] \in Int,
         NEW h, \A x \in S : h[x] = f[x] + c * g[x]
  PROVE  Total(h, S) = Total(f, S) + c * Total(g, S)
<1> DEFINE Bad == {s \in SUBSET S : Total(h, s) # Total(f, s) + c * Total(g, s)}
<1>1. SUFFICES ASSUME Bad # {} PROVE FALSE
  OBVIOUS
<1>2. \E s \in Bad : \A t \in SUBSET s : t # s => t \notin Bad
  <2>1. Bad \in SUBSET SUBSET S
    OBVIOUS
  <2> HIDE DEF Bad
  <2> QED BY <1>1, <2>1, MinimalSubset
<1> PICK s \in Bad : \A t \in SUBSET s : t # s => t \notin Bad
  BY <1>2
<1>3. IsFiniteSet(s) /\ \A x \in S : h[x] \in Int
  BY FS_Subset
<1>4. CASE s = {}
  BY <1>4, TotalEmpty
<1>5. CASE s # {}
  <2> PICK y \in s : TRUE
    BY <1>5
  <2> DEFINE t == s \ {y}
  <2>1. t \in SUBSET s /\ t # s /\ IsFiniteSet(t)
    BY <1>3, FS_Subset
  <2>2. Total(h, t) = Total(f, t) + c * Total(g, t)
    BY <2>1
  <2>3. /\ Total(f, s) = f[y] + Total(f, t) /\ Total(g, s) = g[y] + Total(g, t)
        /\ Total(h, s) = h[y] + Total(h, t)
    BY <1>3, TotalRemove
  <2>4. Total(f, t) \in Int /\ Total(g, t) \in Int /\ f[y] \in Int /\ g[y] \in Int
    BY <2>1, TotalInt
  <2>5. c * (g[y] + Total(g, t)) = c * g[y] + c * Total(g, t)
    BY <2>4
  <2>6. c * g[y] \in Int /\ c * Total(g, t) \in Int
    BY <2>4
  <2> QED BY <2>2, <2>3, <2>4, <2>5, <2>6
<1> QED BY <1>4, <1>5

\* A sum of a constant.
LEMMA TotalConstant ==
  ASSUME NEW S, IsFiniteSet(S), NEW c \in Int, NEW f, \A x \in S : f[x] = c
  PROVE  Total(f, S) = c * Cardinality(S)
<1> DEFINE Bad == {s \in SUBSET S : Total(f, s) # c * Cardinality(s)}
<1>1. SUFFICES ASSUME Bad # {} PROVE FALSE
  OBVIOUS
<1>2. \E s \in Bad : \A t \in SUBSET s : t # s => t \notin Bad
  <2>1. Bad \in SUBSET SUBSET S
    OBVIOUS
  <2> HIDE DEF Bad
  <2> QED BY <1>1, <2>1, MinimalSubset
<1> PICK s \in Bad : \A t \in SUBSET s : t # s => t \notin Bad
  BY <1>2
<1>3. IsFiniteSet(s)
  BY FS_Subset
<1>4. CASE s = {}
  BY <1>4, TotalEmpty, FS_EmptySet
<1>5. CASE s # {}
  <2> PICK y \in s : TRUE
    BY <1>5
  <2> DEFINE t == s \ {y}
             n == Cardinality(t)
  <2>1. t \in SUBSET s /\ t # s /\ IsFiniteSet(t)
    BY <1>3, FS_Subset
  <2>2. Total(f, t) = c * n
    BY <2>1
  <2>3. Total(f, s) = c + Total(f, t)
    BY <1>3, TotalRemove
  <2>4. Cardinality(s) = n + 1 /\ n \in Nat
    BY <1>3, <2>1, FS_RemoveElement, FS_CardinalityType
  <2>5. c * (n + 1) = c * n + c /\ c * n \in Int
    BY <2>4
  <2> QED BY <2>2, <2>3, <2>4, <2>5
<1> QED BY <1>4, <1>5

-----------------------------------------------------------------------------
\* Arithmetic.

\* A product of naturals grows with either factor.
LEMMA ProductMonotone ==
  ASSUME NEW m \in Int, NEW n \in Int, NEW w \in Nat, m <= n
  PROVE  m * w \in Int /\ n * w \in Int /\ m * w <= n * w
<1> DEFINE d == n - m
<1>1. d \in Nat /\ n = m + d
  OBVIOUS
<1>2. m * w \in Int /\ n * w \in Int /\ d * w \in Nat
  BY <1>1
<1>3. n * w = m * w + d * w
  BY <1>1
<1> QED BY <1>2, <1>3

\* What a quotient is, without a remainder in it.
LEMMA QuotientIs ==
  ASSUME NEW t \in Nat, NEW w \in Nat \ {0}
  PROVE  /\ t \div w \in Nat
         /\ (t \div w) * w <= t
         /\ t < (t \div w + 1) * w
<1>1. t \div w \in Nat /\ t % w \in 0 .. w - 1
  OBVIOUS
<1>2. t = (t \div w) * w + (t % w)
  BY <1>1
<1> DEFINE q == t \div w
           r == t % w
<1>3. q \in Nat /\ r \in 0 .. w - 1 /\ t = q * w + r
  BY <1>1, <1>2
<1> HIDE DEF q, r
<1>4. (q + 1) * w = q * w + w /\ q * w \in Nat
  BY <1>3
<1>5. q * w <= t /\ t < (q + 1) * w
  BY <1>3, <1>4
<1> QED BY <1>3, <1>5 DEF q

\* The mean of numbers, rounded down, lies between the least and the greatest.
LEMMA MeanIsBetween ==
  ASSUME NEW S, IsFiniteSet(S), S # {}, NEW f, \A x \in S : f[x] \in Nat
  PROVE  LET mean == Total(f, S) \div Cardinality(S) IN
         /\ mean \in Nat
         /\ \E x \in S : f[x] <= mean
         /\ \E x \in S : mean <= f[x]
<1> DEFINE n == Cardinality(S)
           t == Total(f, S)
           q == t \div n
<1>1. n \in Nat \ {0}
  BY FS_CardinalityType, FS_EmptySet
<1>3. t \in Nat
  <2> DEFINE g == [x \in S |-> 0]
  <2>1. \A x \in S : g[x] \in Int /\ f[x] \in Int /\ g[x] <= f[x]
    OBVIOUS
  <2>2. Total(g, S) = 0 * n
    <3>1. \A x \in S : g[x] = 0
      OBVIOUS
    <3> HIDE DEF g
    <3> QED BY <3>1, TotalConstant
  <2> HIDE DEF g
  <2>3. Total(g, S) <= t /\ t \in Int
    BY <2>1, TotalMonotone, TotalInt
  <2>4. 0 * n = 0
    BY <1>1
  <2> QED BY <2>2, <2>3, <2>4
<1>4. q \in Nat /\ q * n \in Int /\ q * n <= t /\ t < (q + 1) * n
  <2> HIDE DEF t, n
  <2> QED BY <1>1, <1>3, QuotientIs
<1> HIDE DEF q
<1>5. \E x \in S : f[x] <= q
  <2> SUFFICES ASSUME \A x \in S : q + 1 <= f[x] PROVE FALSE
    BY <1>4
  <2> DEFINE g == [x \in S |-> q + 1]
  <2>1. \A x \in S : g[x] \in Int /\ f[x] \in Int /\ g[x] <= f[x]
    BY <1>4
  <2>2. Total(g, S) = (q + 1) * n
    <3>1. \A x \in S : g[x] = q + 1
      OBVIOUS
    <3> HIDE DEF g
    <3> QED BY <3>1, <1>4, TotalConstant
  <2> HIDE DEF g
  <2>3. Total(g, S) <= t
    BY <2>1, TotalMonotone
  <2>4. (q + 1) * n \in Int
    BY <1>1, <1>4
  <2> QED BY <1>3, <1>4, <2>2, <2>3, <2>4
<1>6. \E x \in S : q <= f[x]
  <2> SUFFICES ASSUME \A x \in S : f[x] <= q - 1 PROVE FALSE
    BY <1>4
  <2> DEFINE g == [x \in S |-> q - 1]
  <2>1. \A x \in S : g[x] \in Int /\ f[x] \in Int /\ f[x] <= g[x]
    BY <1>4
  <2>2. Total(g, S) = (q - 1) * n
    <3>1. \A x \in S : g[x] = q - 1
      OBVIOUS
    <3> HIDE DEF g
    <3> QED BY <3>1, <1>4, TotalConstant
  <2> HIDE DEF g
  <2>3. t <= Total(g, S)
    BY <2>1, TotalMonotone
  <2>4. (q - 1) * n = q * n - n
    BY <1>1, <1>4
  <2> QED BY <1>1, <1>3, <1>4, <2>2, <2>3, <2>4
<1> QED BY <1>4, <1>5, <1>6 DEF q

-----------------------------------------------------------------------------
\* Order statistics.


\* The k-th smallest price exists: it is the least value that k of the prices do
\* not exceed.
LEMMA KthSmallestExists ==
  ASSUME NEW n \in Nat, NEW px \in [1..n -> Nat], NEW k \in 1..n
  PROVE  \E v \in Range(px) : IsKthSmallest(px, k, v)
<1>1. \A v : /\ IsFiniteSet(AtMost(px, v))
             /\ Cardinality(AtMost(px, v)) \in 0..n
             /\ IsFiniteSet(Below(px, v))
             /\ Cardinality(Below(px, v)) \in 0..n
  <2>1. IsFiniteSet(1..n) /\ Cardinality(1..n) = n
    BY FS_Interval
  <2>2. \A v : AtMost(px, v) \in SUBSET (1..n) /\ Below(px, v) \in SUBSET (1..n)
    BY DEF AtMost, Below
  <2> QED BY <2>1, <2>2, FS_Subset, FS_CardinalityType
<1>2. PICK top \in Nat : k <= Cardinality(AtMost(px, top))
  <2> DEFINE Above(v) == n - Cardinality(AtMost(px, v))
             D == {Above(v) : v \in Nat}
  <2>1. D \subseteq Nat /\ D # {}
    BY <1>1
  <2>2. PICK d \in D : \A e \in D : d <= e
    BY <2>1, LeastNatural
  <2>3. PICK v \in Nat : d = Above(v)
    OBVIOUS
  <2>4. \A i \in 1..n : px[i] <= v
    <3> SUFFICES ASSUME NEW i \in 1..n, v < px[i] PROVE FALSE
      BY SMT
    <3>1. AtMost(px, v) \subseteq AtMost(px, px[i])
      BY DEF AtMost
    <3>2. i \in AtMost(px, px[i]) /\ i \notin AtMost(px, v)
      BY DEF AtMost
    <3>3. Cardinality(AtMost(px, v)) < Cardinality(AtMost(px, px[i]))
      BY <1>1, <3>1, <3>2, FS_Subset, SMTT(30)
    <3>4. Above(px[i]) \in D /\ Above(px[i]) < d
      BY <1>1, <2>3, <3>3, SMTT(30)
    <3>5. d <= Above(px[i]) /\ d \in Nat /\ Above(px[i]) \in Nat
      BY <2>1, <2>2, <3>4
    <3> HIDE DEF Above
    <3> QED BY <3>4, <3>5
  <2>5. AtMost(px, v) = 1..n
    BY <2>4 DEF AtMost
  <2>6. Cardinality(AtMost(px, v)) = n
    BY <2>5, FS_Interval
  <2> QED BY <2>6
<1>3. PICK v \in Nat : /\ k <= Cardinality(AtMost(px, v))
                       /\ \A w \in Nat : k <= Cardinality(AtMost(px, w)) => v <= w
  <2> DEFINE T == {v \in Nat : k <= Cardinality(AtMost(px, v))}
  <2>1. T \in SUBSET Nat /\ T # {}
    BY <1>2
  <2>2. \E v \in T : \A w \in T : v <= w
    BY <2>1, LeastNatural
  <2> QED BY <2>2
<1>4. Cardinality(Below(px, v)) < k
  <2>1. CASE v = 0
    <3>1. Below(px, v) = {}
      BY <2>1 DEF Below
    <3> QED BY <3>1, FS_EmptySet
  <2>2. CASE v # 0
    <3>1. v - 1 \in Nat /\ ~ (v <= v - 1)
      BY <2>2
    <3>2. Below(px, v) = AtMost(px, v - 1)
      BY <3>1 DEF Below, AtMost
    <3>3. ~ (k <= Cardinality(AtMost(px, v - 1)))
      BY <1>3, <3>1
    <3> QED BY <1>1, <3>2, <3>3
  <2> QED BY <2>1, <2>2
<1>5. v \in Range(px)
  <2>1. AtMost(px, v) # Below(px, v)
    BY <1>1, <1>3, <1>4
  <2>2. PICK i \in 1..n : px[i] = v
    BY <2>1 DEF AtMost, Below
  <2> QED BY <2>2 DEF Range
<1> QED BY <1>3, <1>4, <1>5 DEF IsKthSmallest

\* So KthSmallest returns it.
LEMMA KthSmallestIs ==
  ASSUME NEW n \in Nat, NEW px \in [1..n -> Nat], NEW k \in 1..n
  PROVE  IsKthSmallest(px, k, KthSmallest(px, k))
<1>1. \E v \in Range(px) : IsKthSmallest(px, k, v)
  BY KthSmallestExists
<1> QED BY <1>1 DEF KthSmallest

\* A k-th smallest price lies between the bounds of all prices, and the median of
\* a non-empty tuple does too.
LEMMA MedianInBounds ==
  ASSUME NEW n \in Nat \ {0}, NEW px \in [1..n -> Nat],
         NEW lo \in Nat, NEW hi \in Nat, \A i \in 1..n : px[i] \in lo..hi
  PROVE  Median(px) \in lo..hi
<1>1. \A k \in 1..n : KthSmallest(px, k) \in lo..hi
  <2> TAKE k \in 1..n
  <2>1. IsKthSmallest(px, k, KthSmallest(px, k))
    BY KthSmallestIs
  <2>2. KthSmallest(px, k) \in Range(px)
    BY <2>1 DEF IsKthSmallest
  <2> QED BY <2>2 DEF Range
<1>2. Len(px) = n
  OBVIOUS
<1>3. CASE n % 2 = 1
  <2>1. n \div 2 + 1 \in 1..n
    BY <1>3
  <2> QED BY <1>1, <1>2, <1>3, <2>1 DEF Median
<1>4. CASE n % 2 # 1
  <2>1. n \div 2 \in 1..n /\ n \div 2 + 1 \in 1..n
    BY <1>4
  <2>2. \A x, y \in lo..hi : (x + y) \div 2 \in lo..hi
    OBVIOUS
  <2> QED BY <1>1, <1>2, <1>4, <2>1, <2>2 DEF Median
<1> QED BY <1>3, <1>4

\* The median of one price is that price.
LEMMA MedianOfOne ==
  ASSUME NEW px \in [1..1 -> Nat]
  PROVE  Median(px) = px[1]
<1>1. IsKthSmallest(px, 1, KthSmallest(px, 1))
  <2>1. 1 \in Nat /\ 1 \in 1..1
    OBVIOUS
  <2> QED BY <2>1, KthSmallestIs
<1>2. KthSmallest(px, 1) = px[1]
  BY <1>1 DEF IsKthSmallest, Range
<1>3. Len(px) = 1 /\ 1 % 2 = 1 /\ 1 \div 2 + 1 = 1
  OBVIOUS
<1> QED BY <1>2, <1>3 DEF Median

-----------------------------------------------------------------------------
\* Half of the prices are at most the median, and half at least.

\* Positions of px whose price is at least v.
AtLeast(px, v) == {i \in DOMAIN px : px[i] >= v}

LEMMA PositionCounts ==
  ASSUME NEW n \in Nat, NEW px \in [1..n -> Nat], NEW v \in Nat
  PROVE  /\ IsFiniteSet(AtMost(px, v)) /\ Cardinality(AtMost(px, v)) \in Nat
         /\ IsFiniteSet(Below(px, v)) /\ Cardinality(Below(px, v)) \in Nat
         /\ IsFiniteSet(AtLeast(px, v))
         /\ Cardinality(AtLeast(px, v)) = n - Cardinality(Below(px, v))
<1>1. IsFiniteSet(1..n) /\ Cardinality(1..n) = n
  BY FS_Interval
<1>2. /\ AtMost(px, v) \in SUBSET (1..n) /\ Below(px, v) \in SUBSET (1..n)
      /\ AtLeast(px, v) = (1..n) \ Below(px, v)
      /\ (1..n) \cap Below(px, v) = Below(px, v)
  BY DEF AtMost, Below, AtLeast
<1>3. /\ IsFiniteSet(AtMost(px, v)) /\ Cardinality(AtMost(px, v)) \in Nat
      /\ IsFiniteSet(Below(px, v)) /\ Cardinality(Below(px, v)) \in Nat
  BY <1>1, <1>2, FS_Subset, FS_CardinalityType
<1>4. /\ IsFiniteSet((1..n) \ Below(px, v))
      /\ Cardinality((1..n) \ Below(px, v)) = n - Cardinality(Below(px, v))
  <2> DEFINE S == 1..n
             T == Below(px, v)
  <2>1. IsFiniteSet(S) /\ Cardinality(S) = n /\ S \cap T = T
    BY <1>1, <1>2
  <2> HIDE DEF S, T
  <2>2. IsFiniteSet(S \ T) /\ Cardinality(S \ T) = Cardinality(S) - Cardinality(S \cap T)
    BY <2>1, FS_Difference
  <2>3. IsFiniteSet(S \ T) /\ Cardinality(S \ T) = n - Cardinality(T)
    BY <2>1, <2>2
  <2> QED BY <2>3 DEF S, T
<1> QED BY <1>2, <1>3, <1>4

\* At a higher value no fewer positions are at or below it, and every position that
\* is at or below the lower value is below the higher one.
LEMMA PositionCountsGrow ==
  ASSUME NEW n \in Nat, NEW px \in [1..n -> Nat], NEW v \in Nat, NEW w \in Nat, v <= w
  PROVE  /\ Cardinality(AtMost(px, v)) <= Cardinality(AtMost(px, w))
         /\ Cardinality(Below(px, v)) <= Cardinality(Below(px, w))
         /\ v < w => Cardinality(AtMost(px, v)) <= Cardinality(Below(px, w))
<1>1. /\ IsFiniteSet(AtMost(px, w)) /\ IsFiniteSet(Below(px, w))
  BY PositionCounts
<1>2. /\ AtMost(px, v) \subseteq AtMost(px, w)
      /\ Below(px, v) \subseteq Below(px, w)
      /\ v < w => AtMost(px, v) \subseteq Below(px, w)
  BY DEF AtMost, Below
<1> QED BY <1>1, <1>2, FS_Subset

LEMMA MedianSplits ==
  ASSUME NEW n \in Nat \ {0}, NEW px \in [1..n -> Nat]
  PROVE  /\ Median(px) \in Nat
         /\ n <= 2 * Cardinality(AtMost(px, Median(px)))
         /\ n <= 2 * Cardinality(AtLeast(px, Median(px)))
<1> DEFINE h == n \div 2
           Kth(k) == KthSmallest(px, k)
<1>1. \A k \in 1..n : /\ Kth(k) \in Nat
                      /\ Cardinality(Below(px, Kth(k))) < k
                      /\ k <= Cardinality(AtMost(px, Kth(k)))
  <2> TAKE k \in 1..n
  <2>1. IsKthSmallest(px, k, KthSmallest(px, k))
    BY KthSmallestIs
  <2> QED BY <2>1 DEF IsKthSmallest, Range
<1>2. Len(px) = n /\ h \in Nat
  OBVIOUS
<1>3. CASE n % 2 = 1
  <2>1. h + 1 \in 1..n /\ n = 2 * h + 1
    BY <1>3
  <2>2. Median(px) = Kth(h + 1)
    BY <1>2, <1>3 DEF Median
  <2> HIDE DEF h, Kth
  <2>3. /\ Median(px) \in Nat
        /\ Cardinality(Below(px, Median(px))) < h + 1
        /\ h + 1 <= Cardinality(AtMost(px, Median(px)))
    BY <1>1, <2>1, <2>2
  <2>4. /\ Cardinality(AtMost(px, Median(px))) \in Nat
        /\ Cardinality(Below(px, Median(px))) \in Nat
        /\ Cardinality(AtLeast(px, Median(px))) = n - Cardinality(Below(px, Median(px)))
    BY <2>3, PositionCounts
  <2> QED BY <1>2, <2>1, <2>3, <2>4
<1>4. CASE n % 2 # 1
  <2>1. h \in 1..n /\ h + 1 \in 1..n /\ n = 2 * h
    BY <1>4
  <2>2. Median(px) = (Kth(h) + Kth(h + 1)) \div 2
    BY <1>2, <1>4 DEF Median
  <2> HIDE DEF h, Kth
  <2>3. /\ Kth(h) \in Nat /\ Kth(h + 1) \in Nat
        /\ h <= Cardinality(AtMost(px, Kth(h)))
        /\ Cardinality(Below(px, Kth(h))) < h
        /\ Cardinality(Below(px, Kth(h + 1))) < h + 1
        /\ h + 1 <= Cardinality(AtMost(px, Kth(h + 1)))
    BY <1>1, <2>1
  <2>4. Kth(h) <= Kth(h + 1)
    <3> SUFFICES ASSUME Kth(h + 1) < Kth(h) PROVE FALSE
      BY <2>3
    <3>1. Cardinality(AtMost(px, Kth(h + 1))) <= Cardinality(Below(px, Kth(h)))
      BY <2>3, PositionCountsGrow
    <3>2. /\ Cardinality(AtMost(px, Kth(h + 1))) \in Nat
          /\ Cardinality(Below(px, Kth(h))) \in Nat
      BY <2>3, PositionCounts
    <3> QED BY <1>2, <2>3, <3>1, <3>2
  <2>5. /\ Median(px) \in Nat
        /\ Kth(h) <= Median(px) /\ Median(px) <= Kth(h + 1)
    BY <2>2, <2>3, <2>4
  <2>6. /\ Cardinality(AtMost(px, Kth(h))) <= Cardinality(AtMost(px, Median(px)))
        /\ Cardinality(Below(px, Median(px))) <= Cardinality(Below(px, Kth(h + 1)))
    BY <2>3, <2>5, PositionCountsGrow
  <2>7. /\ Cardinality(AtMost(px, Kth(h))) \in Nat
        /\ Cardinality(AtMost(px, Median(px))) \in Nat
        /\ Cardinality(Below(px, Kth(h + 1))) \in Nat
        /\ Cardinality(Below(px, Median(px))) \in Nat
        /\ Cardinality(AtLeast(px, Median(px))) = n - Cardinality(Below(px, Median(px)))
    BY <2>3, <2>5, PositionCounts
  <2> QED BY <1>2, <2>1, <2>3, <2>5, <2>6, <2>7, SMTT(30)
<1> QED BY <1>3, <1>4
=============================================================================
