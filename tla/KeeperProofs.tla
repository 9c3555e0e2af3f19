---------------------------- MODULE KeeperProofs ----------------------------
(***************************************************************************)
(* Theorems about the attestation service, for every set of venues and     *)
(* assets and every value of the weights and intervals: what aggregate()   *)
(* computes (the mean between the quotes, the outlier filter, the          *)
(* influence of one venue), what the service signs and when it is stopped, *)
(* what it serves (the refinement of AttestationService.tla), and what the *)
(* signed bytes mean.                                                      *)
(***************************************************************************)
EXTENDS Keeper, Board, StatisticsProofs, SequenceTheorems

-----------------------------------------------------------------------------
\* Rounding.

\* The rounded ratio is within a half of the ratio.
LEMMA RatioIs ==
  ASSUME NEW x \in Nat, NEW w \in Nat \ {0}
  PROVE  LET q == RoundedRatio(x, w) IN
         /\ q \in Nat /\ q * w \in Int
         /\ 2 * (q * w) <= 2 * x + w
         /\ 2 * x < 2 * (q * w) + w
<1> DEFINE t == 2 * x + w
           m == 2 * w
           q == t \div m
<1>1. t \in Nat /\ m \in Nat \ {0}
  OBVIOUS
<1>2. q \in Nat /\ q * m <= t /\ t < (q + 1) * m
  <2> HIDE DEF t, m
  <2> QED BY <1>1, QuotientIs
<1> HIDE DEF q
<1>3. q * w \in Int /\ q * m = 2 * (q * w) /\ (q + 1) * m = 2 * (q * w) + 2 * w
  BY <1>2
<1>4. RoundedRatio(x, w) = q
  BY DEF RoundedRatio, q
<1> QED BY <1>2, <1>3, <1>4

\* A ratio between integers is rounded to between them.
LEMMA RatioBounds ==
  ASSUME NEW x \in Nat, NEW w \in Nat \ {0}, NEW c \in Int
  PROVE  /\ c * w <= x => c <= RoundedRatio(x, w)
         /\ x <= c * w => RoundedRatio(x, w) <= c
<1> DEFINE q == RoundedRatio(x, w)
<1>1. /\ q \in Nat /\ q * w \in Int
      /\ 2 * (q * w) <= 2 * x + w
      /\ 2 * x < 2 * (q * w) + w
  BY RatioIs
<1> HIDE DEF q
<1>2. ASSUME c * w <= x, q + 1 <= c PROVE FALSE
  <2>1. (q + 1) * w \in Int /\ c * w \in Int /\ (q + 1) * w <= c * w
    BY <1>1, <1>2, ProductMonotone
  <2>2. (q + 1) * w = q * w + w
    BY <1>1
  <2> QED BY <1>1, <1>2, <2>1, <2>2
<1>3. ASSUME x <= c * w, c + 1 <= q PROVE FALSE
  <2>1. (c + 1) * w \in Int /\ q * w \in Int /\ (c + 1) * w <= q * w
    BY <1>1, <1>3, ProductMonotone
  <2>2. (c + 1) * w = c * w + w /\ c * w \in Int
    OBVIOUS
  <2> QED BY <1>1, <1>3, <2>1, <2>2
<1>4. c * w <= x => c <= q
  BY <1>1, <1>2
<1>5. x <= c * w => q <= c
  BY <1>1, <1>3
<1> QED BY <1>4, <1>5 DEF q

-----------------------------------------------------------------------------
\* The average.

\* Finitely many venues with prices.
Priced(table, S) ==
  /\ S \subseteq Venues
  /\ \A v \in S : table[v].price \in Nat \ {0}

LEMMA WeightsPositive ==
  ASSUME NEW S \in SUBSET Venues, S # {}
  PROVE  IsFiniteSet(S) /\ Total(Weight, S) \in Nat \ {0}
<1> DEFINE one == [v \in S |-> 1]
<1>1. IsFiniteSet(S)
  BY AggregateAssumption, FS_Subset
<1>2. \A v \in S : Weight[v] \in Int /\ one[v] \in Int /\ one[v] <= Weight[v]
  BY AggregateAssumption
<1>3. Total(Weight, S) \in Int
  BY <1>1, <1>2, TotalInt
<1>4. Total(one, S) = 1 * Cardinality(S)
  BY <1>1, TotalConstant
<1>5. Cardinality(S) \in Nat \ {0}
  BY <1>1, FS_CardinalityType, FS_EmptySet
<1> HIDE DEF one
<1>6. Total(one, S) <= Total(Weight, S)
  BY <1>1, <1>2, TotalMonotone
<1> QED BY <1>1, <1>3, <1>4, <1>5, <1>6

\* A common bound of the prices, times the total weight.
LEMMA WeightedBounds ==
  ASSUME NEW table, NEW S, Priced(table, S), S # {}, NEW c \in Int
  PROVE  /\ Total(Weighted(table, S), S) \in Nat
         /\ (\A v \in S : c <= table[v].price) =>
              c * Total(Weight, S) <= Total(Weighted(table, S), S)
         /\ (\A v \in S : table[v].price <= c) =>
              Total(Weighted(table, S), S) <= c * Total(Weight, S)
<1> DEFINE zero == [v \in S |-> 0]
           scaled == [v \in S |-> c * Weight[v]]
           wp == Weighted(table, S)
<1>1. /\ IsFiniteSet(S) /\ Total(Weight, S) \in Int
      /\ \A v \in S : Weight[v] \in Nat \ {0} /\ table[v].price \in Nat \ {0}
  BY WeightsPositive, AggregateAssumption DEF Priced
<1>2. \A v \in S : wp[v] = table[v].price * Weight[v] /\ wp[v] \in Nat
  BY <1>1 DEF Weighted
<1>3. \A v \in S : zero[v] = 0 /\ scaled[v] = zero[v] + c * Weight[v] /\ scaled[v] \in Int
  BY <1>1
<1>4. Total(zero, S) = 0
  <2>1. Total(zero, S) = 0 * Cardinality(S)
    BY <1>1, TotalConstant
  <2>2. Cardinality(S) \in Nat
    BY <1>1, FS_CardinalityType
  <2> QED BY <2>1, <2>2
<1> HIDE DEF zero, scaled, wp
<1>5. Total(scaled, S) = c * Total(Weight, S)
  <2>1. Total(scaled, S) = Total(zero, S) + c * Total(Weight, S)
    <3>1. /\ \A v \in S : zero[v] \in Int
          /\ \A v \in S : Weight[v] \in Int
          /\ \A v \in S : scaled[v] = zero[v] + c * Weight[v]
      BY <1>1, <1>3
    <3> QED BY <1>1, <3>1, TotalLinear
  <2>2. c * Total(Weight, S) \in Int
    BY <1>1
  <2> QED BY <1>4, <2>1, <2>2
<1>6. Total(wp, S) \in Nat
  <2>1. Total(wp, S) \in Int /\ Total(zero, S) <= Total(wp, S)
    BY <1>1, <1>2, <1>3, TotalInt, TotalMonotone
  <2> QED BY <1>4, <2>1
<1>7. ASSUME \A v \in S : c <= table[v].price
      PROVE  Total(scaled, S) <= Total(wp, S)
  <2>1. \A v \in S : wp[v] \in Int /\ scaled[v] <= wp[v]
    BY <1>1, <1>2, <1>3, <1>7, ProductMonotone
  <2> QED BY <1>1, <1>3, <2>1, TotalMonotone
<1>8. ASSUME \A v \in S : table[v].price <= c
      PROVE  Total(wp, S) <= Total(scaled, S)
  <2>1. \A v \in S : wp[v] \in Int /\ scaled[v] \in Int /\ wp[v] <= scaled[v]
    BY <1>1, <1>2, <1>3, <1>8, ProductMonotone
  <2> QED BY <1>1, <2>1, TotalMonotone
<1> QED BY <1>5, <1>6, <1>7, <1>8 DEF wp

\* The weighted average is positive, and some price is no more and some no less.
LEMMA AverageIsBetween ==
  ASSUME NEW table, NEW S, Priced(table, S), S # {}
  PROVE  LET avg == WeightedAverage(table, S) IN
         /\ avg \in Nat \ {0}
         /\ \E v \in S : table[v].price <= avg
         /\ \E v \in S : avg <= table[v].price
<1> DEFINE avg == WeightedAverage(table, S)
           x == Total(Weighted(table, S), S)
           w == Total(Weight, S)
<1>1. x \in Nat /\ w \in Nat \ {0} /\ avg = RoundedRatio(x, w)
  BY WeightedBounds, WeightsPositive DEF Priced, WeightedAverage
<1>2. avg \in Nat
  BY <1>1, RatioIs
<1>3. \A v \in S : table[v].price \in Nat \ {0}
  BY DEF Priced
<1>4. ASSUME NEW c \in Int, \A v \in S : c <= table[v].price
      PROVE  c <= avg
  BY <1>1, <1>4, WeightedBounds, RatioBounds
<1>5. ASSUME NEW c \in Int, \A v \in S : table[v].price <= c
      PROVE  avg <= c
  BY <1>1, <1>5, WeightedBounds, RatioBounds
<1> HIDE DEF avg
<1>6. avg \in Nat \ {0}
  <2>1. 1 <= avg
    BY <1>3, <1>4
  <2> QED BY <1>2, <2>1
<1>7. \E v \in S : table[v].price <= avg
  <2> SUFFICES ASSUME \A v \in S : ~ table[v].price <= avg PROVE FALSE
    OBVIOUS
  <2>1. \A v \in S : avg + 1 <= table[v].price
    BY <1>2, <1>3
  <2> QED BY <1>2, <1>4, <2>1
<1>8. \E v \in S : avg <= table[v].price
  <2> SUFFICES ASSUME \A v \in S : ~ avg <= table[v].price PROVE FALSE
    OBVIOUS
  <2>1. \A v \in S : table[v].price <= avg - 1
    BY <1>2, <1>3
  <2> QED BY <1>2, <1>5, <2>1
<1> QED BY <1>6, <1>7, <1>8 DEF avg

-----------------------------------------------------------------------------
\* The outlier filter.

Square(f) == [x \in DOMAIN f |-> f[x] * f[x]]

LEMMA SquareIsNat ==
  ASSUME NEW d \in Int
  PROVE  d * d \in Nat
OBVIOUS

LEMMA SquaresAdd ==
  ASSUME NEW S, IsFiniteSet(S), NEW f, DOMAIN f = S, \A x \in S : f[x] \in Int,
         NEW T \in SUBSET S
  PROVE  /\ Total(Square(f), T) \in Nat
         /\ \A y \in T : Total(Square(f), T) = f[y] * f[y] + Total(Square(f), T \ {y})
<1> DEFINE sq == Square(f)
           zero == [x \in T |-> 0]
<1>1. IsFiniteSet(T)
  BY FS_Subset
<1>2. \A x \in S : sq[x] = f[x] * f[x] /\ sq[x] \in Nat
  BY SquareIsNat DEF Square
<1>3. \A x \in T : zero[x] = 0 /\ sq[x] \in Int /\ zero[x] <= sq[x]
  BY <1>2
<1> HIDE DEF sq, zero
<1>4. Total(zero, T) = 0
  <2>1. Total(zero, T) = 0 * Cardinality(T)
    BY <1>1, <1>3, TotalConstant
  <2>2. Cardinality(T) \in Nat
    BY <1>1, FS_CardinalityType
  <2> QED BY <2>1, <2>2
<1>5. Total(zero, T) <= Total(sq, T)
  BY <1>1, <1>3, TotalMonotone
<1>6. Total(sq, T) \in Int /\ \A y \in T : Total(sq, T) = sq[y] + Total(sq, T \ {y})
  BY <1>1, <1>3, TotalRemove
<1> QED BY <1>2, <1>4, <1>5, <1>6 DEF sq

\* The step of the induction: one more term.
LEMMA OneMoreTerm ==
  ASSUME NEW t \in Int, NEW d \in Int, NEW q \in Nat, NEW k \in Nat,
         t * t <= k * q
  PROVE  (d + t) * (d + t) <= (k + 1) * (d * d + q)
<1>1. (d + t) * (d + t) = d * d + 2 * (d * t) + t * t
  OBVIOUS
<1>2. (k + 1) * (d * d + q) = k * (d * d) + k * q + d * d + q
  <2>1. d * d \in Nat
    BY SquareIsNat
  <2> QED BY <2>1
<1>3. 2 * (d * t) <= k * (d * d) + q
  <2>1. CASE k = 0
    <3>1. t * t <= 0
      BY <2>1
    <3>2. t = 0
      BY <3>1
    <3>3. d * t = 0
      BY <3>2
    <3> QED BY <2>1, <3>3
  <2>2. CASE k # 0
    <3> SUFFICES ASSUME k * (d * d) + q + 1 <= 2 * (d * t) PROVE FALSE
      BY SquareIsNat
    <3> DEFINE a == k * (d * d)
               b == d * t
    <3>1. a \in Nat /\ b \in Int /\ a + q + 1 <= 2 * b
      BY SquareIsNat
    <3>2. (k * d - t) * (k * d - t) = k * a - 2 * (k * b) + t * t
      OBVIOUS
    <3>3. (k * d - t) * (k * d - t) \in Nat
      <4>1. k * d - t \in Int
        OBVIOUS
      <4> QED BY <4>1, SquareIsNat
    <3> HIDE DEF a, b
    <3>4. (a + q + 1) * k <= (2 * b) * k
      BY <3>1, ProductMonotone
    <3>5. (a + q + 1) * k = k * a + k * q + k /\ (2 * b) * k = 2 * (k * b)
      BY <3>1
    <3>6. k * a \in Int /\ k * b \in Int /\ k * q \in Int /\ t * t \in Int
      BY <3>1
    <3> QED BY <2>2, <3>2, <3>3, <3>4, <3>5, <3>6
  <2> QED BY <2>1, <2>2
<1>4. /\ d * d \in Int /\ t * t \in Int /\ d * t \in Int
      /\ k * (d * d) \in Int /\ k * q \in Int
  BY SquareIsNat
<1> QED BY <1>1, <1>2, <1>3, <1>4

\* The square of a sum is at most the sum of the squares, times the number of terms.
LEMMA SquareOfSum ==
  ASSUME NEW S, IsFiniteSet(S), NEW f, DOMAIN f = S, \A x \in S : f[x] \in Int,
         NEW T \in SUBSET S
  PROVE  Total(f, T) * Total(f, T) <= Cardinality(T) * Total(Square(f), T)
<1> DEFINE Good(s) == Total(f, s) * Total(f, s) <= Cardinality(s) * Total(Square(f), s)
           Bad == {s \in SUBSET S : ~Good(s)}
<1>1. SUFFICES ASSUME Bad # {} PROVE FALSE
  OBVIOUS
<1>2. \E s \in Bad : \A t \in SUBSET s : t # s => t \notin Bad
  <2>1. Bad \in SUBSET SUBSET S
    OBVIOUS
  <2> HIDE DEF Bad
  <2> QED BY <1>1, <2>1, MinimalSubset
<1> PICK s \in Bad : \A t \in SUBSET s : t # s => t \notin Bad
  BY <1>2
<1>3. IsFiniteSet(s)
  BY FS_Subset
<1>4. CASE s = {}
  <2>1. Total(f, s) = 0 /\ Total(Square(f), s) = 0 /\ Cardinality(s) = 0
    BY <1>4, TotalEmpty, FS_EmptySet
  <2> QED BY <2>1
<1>5. CASE s # {}
  <2> PICK y \in s : TRUE
    BY <1>5
  <2> DEFINE u == s \ {y}
             d == f[y]
             t == Total(f, u)
             q == Total(Square(f), u)
             k == Cardinality(u)
  <2>1. u \in SUBSET s /\ u # s /\ IsFiniteSet(u) /\ u \in SUBSET S
    BY <1>3, FS_Subset
  <2>2. t * t <= k * q
    BY <2>1
  <2>3. Total(f, s) = d + t /\ t \in Int /\ d \in Int
    BY <1>3, <2>1, TotalRemove, TotalInt
  <2>4. Total(Square(f), s) = d * d + q /\ q \in Nat
    BY <2>1, SquaresAdd
  <2>5. Cardinality(s) = k + 1 /\ k \in Nat
    BY <1>3, <2>1, FS_RemoveElement, FS_CardinalityType
  <2> HIDE DEF t, d, q, k
  <2>6. (d + t) * (d + t) <= (k + 1) * (d * d + q)
    BY <2>2, <2>3, <2>4, <2>5, OneMoreTerm
  <2> QED BY <2>3, <2>4, <2>5, <2>6
<1> QED BY <1>4, <1>5

Deviations(table, F) == [v \in F |-> Deviation(table, F, v)]

\* The deviations are integers and cancel out.
LEMMA DeviationsCancel ==
  ASSUME NEW table, NEW F, Priced(table, F)
  PROVE  LET dev == Deviations(table, F) IN
         /\ IsFiniteSet(F) /\ Cardinality(F) \in Nat
         /\ DOMAIN dev = F /\ \A v \in F : dev[v] \in Int /\ dev[v] = Deviation(table, F, v)
         /\ Spread(table, F) = Total(Square(dev), F)
         /\ Total(dev, F) = 0
<1> DEFINE dev == Deviations(table, F)
           px == [u \in F |-> table[u].price]
           n == Cardinality(F)
           t == Total(px, F)
           mean == [u \in F |-> -t]
<1>1. IsFiniteSet(F) /\ n \in Nat
  BY AggregateAssumption, FS_Subset, FS_CardinalityType DEF Priced
<1>2. \A v \in F : px[v] \in Int /\ px[v] = table[v].price
  BY DEF Priced
<1>3. t \in Int
  <2> HIDE DEF px
  <2> QED BY <1>1, <1>2, TotalInt
<1>4. \A v \in F : dev[v] = n * table[v].price - t
  BY DEF Deviations, Deviation
<1>5. \A v \in F : dev[v] = Deviation(table, F, v)
  BY DEF Deviations
<1>6. DOMAIN dev = F
  BY DEF Deviations
<1>7. Spread(table, F) = Total(Square(dev), F)
  <2>1. [v \in F |-> Deviation(table, F, v) * Deviation(table, F, v)] = Square(dev)
    BY <1>5, <1>6 DEF Square
  <2> QED BY <2>1 DEF Spread
<1> HIDE DEF dev
<1>8. \A v \in F : dev[v] \in Int
  BY <1>1, <1>2, <1>3, <1>4
<1>9. Total(dev, F) = 0
  <2>1. \A v \in F : mean[v] = -t /\ mean[v] \in Int
    BY <1>3
  <2> HIDE DEF mean, px, n, t
  <2>2. \A v \in F : dev[v] = mean[v] + n * px[v]
    BY <1>1, <1>2, <1>3, <1>4, <2>1
  <2>3. Total(dev, F) = Total(mean, F) + n * Total(px, F)
    <3>1. /\ IsFiniteSet(F) /\ n \in Int
          /\ \A v \in F : mean[v] \in Int
          /\ \A v \in F : px[v] \in Int
      BY <1>1, <1>2, <2>1
    <3> QED BY <2>2, <3>1, TotalLinear
  <2>4. Total(mean, F) = (-t) * n
    <3>1. -t \in Int
      BY <1>3
    <3> QED BY <1>1, <2>1, <3>1, TotalConstant DEF n
  <2>5. (-t) * n = -(n * t) /\ n * t \in Int
    BY <1>1, <1>3
  <2> QED BY <2>3, <2>4, <2>5 DEF t
<1> QED BY <1>1, <1>5, <1>6, <1>7, <1>8, <1>9 DEF dev, n

\* The filter leaves at least one of the fresh samples.
LEMMA SomeSampleIsKept ==
  ASSUME NEW table, NEW F, Priced(table, F), F # {}
  PROVE  Kept(table, F) \subseteq F /\ Kept(table, F) # {}
<1> DEFINE dev == Deviations(table, F)
           n == Cardinality(F)
           sq == Square(dev)
           spread == Spread(table, F)
           limit == OUTLIER_STDDEV * OUTLIER_STDDEV
           more == [v \in F |-> spread + 1]
           scaled == [v \in F |-> n * sq[v]]
           zero == [v \in F |-> 0]
<1>1. /\ IsFiniteSet(F) /\ n \in Nat /\ DOMAIN dev = F
      /\ \A v \in F : dev[v] \in Int /\ dev[v] = Deviation(table, F, v)
      /\ spread = Total(sq, F)
  BY DeviationsCancel
<1> HIDE DEF dev
<1>2. \A v \in F : sq[v] = dev[v] * dev[v] /\ sq[v] \in Nat
  BY <1>1, SquareIsNat DEF Square
<1>3. spread \in Nat
  BY <1>1, SquaresAdd
<1>4. n \in Nat \ {0}
  BY <1>1, FS_EmptySet
<1>5. \A v \in F : Near(table, F, v, OUTLIER_STDDEV) <=> n * sq[v] <= limit * spread
  BY <1>1, <1>2 DEF Near
<1>6. Kept(table, F) \subseteq F
  BY DEF Kept
<1>7. SUFFICES ASSUME \A v \in F : ~ (n * sq[v] <= limit * spread) PROVE FALSE
  BY <1>5, <1>6 DEF Kept
<1> HIDE DEF n, sq, spread
<1>8. \A v \in F : spread + 1 <= n * sq[v]
  <2>1. limit \in Nat \ {0}
    BY AggregateAssumption
  <2> HIDE DEF limit
  <2>2. spread <= limit * spread /\ limit * spread \in Nat
    <3>1. 1 * spread <= limit * spread
      BY <1>3, <2>1, ProductMonotone
    <3> QED BY <1>3, <2>1, <3>1
  <2>3. \A v \in F : n * sq[v] \in Nat
    BY <1>2, <1>4
  <2> QED BY <1>3, <1>7, <2>2, <2>3
<1>9. Total(more, F) = (spread + 1) * n
  <2>1. \A v \in F : more[v] = spread + 1
    OBVIOUS
  <2> HIDE DEF more
  <2> QED BY <1>1, <1>3, <2>1, TotalConstant DEF n
<1>10. Total(scaled, F) = n * spread
  <2>1. \A v \in F : zero[v] = 0 /\ scaled[v] = zero[v] + n * sq[v]
    BY <1>2, <1>4
  <2> HIDE DEF zero, scaled
  <2>2. (\A v \in F : zero[v] \in Int) /\ (\A v \in F : sq[v] \in Int)
    BY <1>2, <2>1
  <2>3. Total(scaled, F) = Total(zero, F) + n * Total(sq, F)
    BY <1>1, <1>4, <2>1, <2>2, TotalLinear
  <2>4. Total(zero, F) = 0 * Cardinality(F)
    BY <1>1, <2>1, TotalConstant
  <2>5. 0 * Cardinality(F) = 0
    BY <1>1 DEF n
  <2>6. n * spread \in Int
    BY <1>3, <1>4
  <2> QED BY <1>1, <2>3, <2>4, <2>5, <2>6
<1>11. Total(more, F) <= Total(scaled, F)
  <2>1. \A v \in F : more[v] \in Int /\ scaled[v] \in Int /\ more[v] <= scaled[v]
    BY <1>2, <1>3, <1>4, <1>8
  <2> HIDE DEF more, scaled
  <2> QED BY <1>1, <2>1, TotalMonotone
<1>12. (spread + 1) * n = n * spread + n /\ n * spread \in Int
  BY <1>3, <1>4
<1> QED BY <1>4, <1>9, <1>10, <1>11, <1>12

\* No sample of n is further from their mean than the square root of n - 1 standard
\* deviations.
LEMMA NoGrossDeviation ==
  ASSUME NEW table, NEW F, Priced(table, F), NEW v \in F
  PROVE  /\ Cardinality(F) \in Nat \ {0} /\ Spread(table, F) \in Nat
         /\ Deviation(table, F, v) \in Int
         /\ Cardinality(F) * (Deviation(table, F, v) * Deviation(table, F, v))
              <= (Cardinality(F) - 1) * Spread(table, F)
<1> DEFINE dev == Deviations(table, F)
           T == F \ {v}
           n == Cardinality(F)
           k == Cardinality(T)
           d == Deviation(table, F, v)
           t == Total(dev, T)
           q == Total(Square(dev), T)
<1>1. /\ IsFiniteSet(F) /\ n \in Nat /\ DOMAIN dev = F
      /\ \A u \in F : dev[u] \in Int
      /\ dev[v] = d
      /\ Spread(table, F) = Total(Square(dev), F)
      /\ Total(dev, F) = 0
  BY DeviationsCancel
<1> HIDE DEF dev, d
<1>2. T \in SUBSET F /\ IsFiniteSet(T) /\ d \in Int
  BY <1>1, FS_Subset
<1>3. k \in Nat /\ n = k + 1
  BY <1>1, <1>2, FS_RemoveElement, FS_CardinalityType
<1>4. t \in Int /\ d + t = 0
  BY <1>1, <1>2, TotalRemove, TotalInt
<1>5. q \in Nat /\ Spread(table, F) = d * d + q
  BY <1>1, <1>2, SquaresAdd
<1>6. t * t <= k * q
  BY <1>1, <1>2, SquareOfSum
<1> HIDE DEF n, k, t, q, T
<1>7. t * t = d * d
  <2>1. t = -d
    BY <1>2, <1>4
  <2> QED BY <1>2, <2>1
<1>8. d * d \in Nat /\ k * q \in Nat /\ k * (d * d) \in Nat
  BY <1>2, <1>3, <1>5, SquareIsNat
<1>9. n * (d * d) = k * (d * d) + d * d
  BY <1>3, <1>8
<1>10. (n - 1) * (d * d + q) = k * (d * d) + k * q
  BY <1>3, <1>5, <1>8
<1>11. n * (d * d) <= (n - 1) * (d * d + q)
  BY <1>6, <1>7, <1>8, <1>9, <1>10
<1> QED BY <1>2, <1>3, <1>5, <1>8, <1>11 DEF n, d

\* With no more fresh samples than the square of the threshold and one (ten, in
\* config.mjs) the filter drops nothing, however gross the outlier.
THEOREM FewSamplesAreAllKept ==
  ASSUME NEW table, NEW F, Priced(table, F),
         Cardinality(F) <= OUTLIER_STDDEV * OUTLIER_STDDEV + 1
  PROVE  Kept(table, F) = F
<1> DEFINE n == Cardinality(F)
           limit == OUTLIER_STDDEV * OUTLIER_STDDEV
           spread == Spread(table, F)
<1>1. SUFFICES ASSUME NEW v \in F PROVE Near(table, F, v, OUTLIER_STDDEV)
  BY DEF Kept
<1> DEFINE sq == Deviation(table, F, v) * Deviation(table, F, v)
<1>2. n \in Nat \ {0} /\ spread \in Nat /\ sq \in Nat /\ n * sq <= (n - 1) * spread
  BY NoGrossDeviation, SquareIsNat
<1>3. limit \in Nat
  BY AggregateAssumption
<1>4. n - 1 <= limit
  BY <1>2, <1>3
<1> HIDE DEF n, limit, spread, sq
<1>5. (n - 1) * spread <= limit * spread
  BY <1>2, <1>3, <1>4, ProductMonotone
<1>6. n * sq <= limit * spread
  <2>1. n * sq \in Int /\ (n - 1) * spread \in Int /\ limit * spread \in Int
    BY <1>2, <1>3
  <2> QED BY <1>2, <1>5, <2>1
<1> QED BY <1>6 DEF Near, n, limit, spread, sq

\* However many venues there are, the filter drops fewer than one fresh sample in the
\* square of the threshold: fewer than a ninth of them in config.mjs.
THEOREM FewSamplesAreDropped ==
  ASSUME NEW table, NEW F, Priced(table, F), F # {}
  PROVE  OUTLIER_STDDEV * OUTLIER_STDDEV * Cardinality(F \ Kept(table, F))
           < Cardinality(F)
<1> DEFINE dev == Deviations(table, F)
           n == Cardinality(F)
           D == F \ Kept(table, F)
           k == Cardinality(D)
           sq == Square(dev)
           spread == Spread(table, F)
           limit == OUTLIER_STDDEV * OUTLIER_STDDEV
           scaled == [v \in F |-> n * sq[v]]
           zero == [v \in F |-> 0]
           more == [v \in D |-> limit * spread + 1]
<1>1. /\ IsFiniteSet(F) /\ n \in Nat /\ DOMAIN dev = F
      /\ \A v \in F : dev[v] \in Int /\ dev[v] = Deviation(table, F, v)
      /\ spread = Total(sq, F)
  BY DeviationsCancel
<1> HIDE DEF dev
<1>2. \A v \in F : sq[v] = dev[v] * dev[v] /\ sq[v] \in Nat
  BY <1>1, SquareIsNat DEF Square
<1>3. spread \in Nat
  BY <1>1, SquaresAdd
<1>4. n \in Nat \ {0} /\ limit \in Nat
  BY <1>1, FS_EmptySet, AggregateAssumption
<1>5. D \in SUBSET F /\ IsFiniteSet(D) /\ k \in Nat
  BY <1>1, FS_Subset, FS_CardinalityType
<1>6. \A v \in D : ~ (n * sq[v] <= limit * spread)
  BY <1>1, <1>2 DEF Kept, Near
<1> HIDE DEF n, sq, spread, D, k, limit
<1>7. limit * spread \in Nat /\ limit * spread + 1 \in Int
  BY <1>3, <1>4
<1>8. \A v \in F : scaled[v] = n * sq[v] /\ scaled[v] \in Nat
  BY <1>2, <1>4
<1>9. \A v \in D : more[v] = limit * spread + 1
  OBVIOUS
<1>10. Total(scaled, F) = n * spread
  <2>1. \A v \in F : zero[v] = 0 /\ scaled[v] = zero[v] + n * sq[v]
    BY <1>2, <1>4
  <2> HIDE DEF zero, scaled
  <2>2. (\A v \in F : zero[v] \in Int) /\ (\A v \in F : sq[v] \in Int)
    BY <1>2, <2>1
  <2>3. Total(scaled, F) = Total(zero, F) + n * Total(sq, F)
    BY <1>1, <1>4, <2>1, <2>2, TotalLinear
  <2>4. Total(zero, F) = 0 * Cardinality(F)
    BY <1>1, <2>1, TotalConstant
  <2>5. 0 * Cardinality(F) = 0
    BY <1>1 DEF n
  <2>6. n * spread \in Int
    BY <1>3, <1>4
  <2> QED BY <1>1, <2>3, <2>4, <2>5, <2>6
<1> HIDE DEF scaled, more
<1>11. Total(more, D) = (limit * spread + 1) * k
  BY <1>5, <1>7, <1>9, TotalConstant DEF k
<1>12. Total(more, D) <= Total(scaled, D)
  <2>1. \A v \in D : more[v] \in Int /\ scaled[v] \in Int /\ more[v] <= scaled[v]
    BY <1>5, <1>6, <1>7, <1>8, <1>9
  <2> QED BY <1>5, <2>1, TotalMonotone
<1>13. /\ Total(scaled, D) \in Int /\ Total(scaled, F) \in Int
       /\ Total(scaled, D) <= Total(scaled, F)
  BY <1>1, <1>5, <1>8, TotalOfPart
<1>14. (limit * spread + 1) * k <= n * spread
  <2>1. (limit * spread + 1) * k \in Int
    BY <1>5, <1>7
  <2> QED BY <1>10, <1>11, <1>12, <1>13, <2>1
<1>15. limit * k < n
  <2>1. SUFFICES ASSUME n <= limit * k PROVE FALSE
    BY <1>4, <1>5
  <2>2. k # 0
    BY <1>4, <1>5, <2>1
  <2>3. n * spread <= (limit * k) * spread /\ (limit * k) * spread \in Int
    BY <1>3, <1>4, <1>5, <2>1, ProductMonotone
  <2>4. (limit * spread + 1) * k = (limit * k) * spread + k
    BY <1>3, <1>4, <1>5
  <2>5. n * spread \in Int
    BY <1>3, <1>4
  <2> QED BY <1>5, <1>14, <2>2, <2>3, <2>4, <2>5
<1> QED BY <1>15 DEF n, k, D, limit

-----------------------------------------------------------------------------
\* aggregate().

SampleTable == [Venues -> Sample \cup {NoSample}]

LEMMA FreshArePriced ==
  ASSUME NEW table \in SampleTable, NEW moment
  PROVE  Priced(table, FreshVenues(table, moment))
BY DEF SampleTable, Sample, FreshVenues, Priced

\* What is signed: nothing without a fresh sample, else a price and a count.
LEMMA AggregateIs ==
  ASSUME NEW table \in SampleTable, NEW moment
  PROVE  LET F == FreshVenues(table, moment)
             agg == Aggregated(table, moment)
         IN /\ F = {} => agg = NoPrice
            /\ F # {} => /\ agg # NoPrice
                         /\ agg.price \in Nat \ {0}
                         /\ agg.sources \in 1..Cardinality(Venues)
                         /\ \E v \in F : table[v].price <= agg.price
                         /\ \E v \in F : agg.price <= table[v].price
<1> DEFINE F == FreshVenues(table, moment)
           kept == Kept(table, F)
           avg == WeightedAverage(table, kept)
<1>1. Priced(table, F)
  BY FreshArePriced
<1>2. Aggregated(table, moment) =
        IF kept = {} THEN NoPrice ELSE [price |-> avg, sources |-> Cardinality(kept)]
  BY DEF Aggregated
<1> HIDE DEF F
<1>3. CASE F = {}
  <2>1. kept = {}
    BY <1>3 DEF Kept
  <2> QED BY <1>2, <1>3, <2>1 DEF F
<1>4. CASE F # {}
  <2>1. kept \subseteq F /\ kept # {}
    BY <1>1, <1>4, SomeSampleIsKept
  <2> HIDE DEF kept
  <2>2. Priced(table, kept)
    BY <1>1, <2>1 DEF Priced
  <2>3. /\ avg \in Nat \ {0}
        /\ \E v \in kept : table[v].price <= avg
        /\ \E v \in kept : avg <= table[v].price
    BY <2>1, <2>2, AverageIsBetween
  <2>4. Cardinality(kept) \in 1..Cardinality(Venues)
    <3>1. IsFiniteSet(Venues) /\ kept \in SUBSET Venues /\ kept # {}
      BY <2>1, <2>2, AggregateAssumption DEF Priced
    <3>2. IsFiniteSet(kept) /\ Cardinality(kept) <= Cardinality(Venues)
      BY <3>1, FS_Subset
    <3>3. /\ Cardinality(kept) \in Nat /\ Cardinality(Venues) \in Nat
          /\ Cardinality(kept) # 0
      BY <3>1, <3>2, FS_CardinalityType, FS_EmptySet
    <3> QED BY <3>2, <3>3
  <2> HIDE DEF avg
  <2>5. Aggregated(table, moment) = [price |-> avg, sources |-> Cardinality(kept)]
    BY <1>2, <2>1
  <2>6. [price |-> avg, sources |-> Cardinality(kept)] # NoPrice
    BY <2>3, <2>4, AggregateAssumption
  <2> QED BY <1>4, <2>1, <2>3, <2>4, <2>5, <2>6 DEF F
<1> QED BY <1>3, <1>4

\* Whatever was quoted, and whatever the weights: while one venue's sample is fresh
\* there is a price, and it lies between the lowest and the highest fresh quote.
THEOREM AggregatesStayWithinQuotes ==
  ASSUME NEW table \in SampleTable, NEW moment
  PROVE  WithinFresh(table, moment)
BY AggregateIs DEF WithinFresh

\* What one venue's other quote does to the sum.
LEMMA OneOtherQuote ==
  ASSUME NEW S, NEW table, Priced(table, S), NEW other, Priced(other, S),
         NEW v \in S, \A u \in S \ {v} : other[u].price = table[u].price
  PROVE  /\ Total(Weighted(table, S), S) \in Nat /\ Total(Weighted(other, S), S) \in Nat
         /\ Total(Weighted(table, S), S) - Total(Weighted(other, S), S)
              = Weight[v] * (table[v].price - other[v].price)
<1> DEFINE f == Weighted(table, S)
           g == Weighted(other, S)
           T == S \ {v}
<1>1. IsFiniteSet(S) /\ T \in SUBSET S /\ IsFiniteSet(T)
  BY WeightsPositive, FS_Subset DEF Priced
<1>2. \A u \in S : /\ f[u] = table[u].price * Weight[u]
                   /\ g[u] = other[u].price * Weight[u]
                   /\ Weight[u] \in Nat
                   /\ table[u].price \in Nat /\ other[u].price \in Nat
  BY AggregateAssumption DEF Weighted, Priced
<1>3. \A u \in S : f[u] \in Int /\ g[u] \in Int
  BY <1>2
<1>4. Total(f, S) \in Nat /\ Total(g, S) \in Nat
  BY WeightedBounds
<1> HIDE DEF f, g
<1>5. /\ Total(f, S) = f[v] + Total(f, T)
      /\ Total(g, S) = g[v] + Total(g, T)
  BY <1>1, <1>3, TotalRemove
<1>6. Total(f, T) = Total(g, T) /\ Total(f, T) \in Int
  <2>1. \A u \in T : f[u] \in Int /\ g[u] = f[u]
    BY <1>2, <1>3
  <2> QED BY <1>1, <2>1, TotalEqual, TotalInt
<1>7. f[v] - g[v] = Weight[v] * (table[v].price - other[v].price)
  BY <1>2
<1> QED BY <1>3, <1>4, <1>5, <1>6, <1>7 DEF f, g

\* Rounding two averages adds less than one.
LEMMA RoundedDistance ==
  ASSUME NEW x \in Nat, NEW y \in Nat, NEW w \in Nat \ {0},
         RoundedRatio(y, w) < RoundedRatio(x, w)
  PROVE  w * (RoundedRatio(x, w) - RoundedRatio(y, w) - 1) <= x - y
<1> DEFINE q == RoundedRatio(x, w)
           r == RoundedRatio(y, w)
<1>1. /\ q \in Nat /\ q * w \in Int /\ 2 * (q * w) <= 2 * x + w
      /\ r \in Nat /\ r * w \in Int /\ 2 * y < 2 * (r * w) + w
  BY RatioIs
<1> HIDE DEF q, r
<1>2. w * (q - r - 1) = q * w - r * w - w
  BY <1>1
<1> QED BY <1>1, <1>2 DEF q, r

\* No venue moves the price beyond its share of the weight, as long as the filter
\* has nothing to drop: the five venues of config.mjs are half of what it takes.
THEOREM InfluenceIsBounded ==
  ASSUME NEW table \in SampleTable, NEW moment, NEW v \in Venues, NEW p \in Nat \ {0},
         Cardinality(FreshVenues(table, moment)) <= OUTLIER_STDDEV * OUTLIER_STDDEV + 1
  PROVE  BoundedInfluence(table, moment, v, p)
<1> DEFINE F == FreshVenues(table, moment)
           other == [table EXCEPT ![v] = [price |-> p, ts |-> table[v].ts]]
           distance(x, y) == IF x < y THEN y - x ELSE x - y
           w == Total(Weight, F)
           x == Total(Weighted(table, F), F)
           y == Total(Weighted(other, F), F)
           q == RoundedRatio(x, w)
           r == RoundedRatio(y, w)
<1>1. SUFFICES ASSUME v \in F
               PROVE  w * (distance(Aggregated(table, moment).price,
                                    Aggregated(other, moment).price) - 1)
                        <= Weight[v] * distance(table[v].price, p)
  BY DEF BoundedInfluence
<1>2. table[v] \in Sample
  BY <1>1 DEF FreshVenues, SampleTable
<1>3. /\ other \in SampleTable
      /\ other[v] = [price |-> p, ts |-> table[v].ts] /\ other[v] # NoSample
      /\ \A u \in Venues \ {v} : other[u] = table[u]
  <2>1. [price |-> p, ts |-> table[v].ts] \in Sample
    BY <1>2 DEF Sample
  <2> QED BY <2>1, AggregateAssumption DEF SampleTable
<1>4. FreshVenues(other, moment) = F
  <2> HIDE DEF other
  <2>1. \A u \in Venues : u \in F <=> u \in FreshVenues(other, moment)
    BY <1>1, <1>3 DEF FreshVenues
  <2> QED BY <2>1 DEF FreshVenues
<1> HIDE DEF other
<1>5. Priced(table, F) /\ Priced(other, F)
  BY <1>3, <1>4, FreshArePriced
<1> HIDE DEF F
<1>6. Kept(table, F) = F /\ Kept(other, F) = F
  <2>1. Cardinality(F) <= OUTLIER_STDDEV * OUTLIER_STDDEV + 1
    BY DEF F
  <2> QED BY <1>5, <2>1, FewSamplesAreAllKept
<1>7. /\ Aggregated(table, moment).price = q
      /\ Aggregated(other, moment).price = r
  BY <1>1, <1>4, <1>6 DEF Aggregated, WeightedAverage, F
<1>8. F \subseteq Venues /\ w \in Nat \ {0}
  BY <1>1, <1>5, WeightsPositive DEF Priced
<1>9. /\ x \in Nat /\ y \in Nat
      /\ x - y = Weight[v] * (table[v].price - p)
  <2>1. \A u \in F \ {v} : other[u].price = table[u].price
    BY <1>3, <1>8
  <2>2. other[v].price = p
    BY <1>3
  <2> QED BY <1>1, <1>5, <2>1, <2>2, OneOtherQuote
<1>10. table[v].price \in Nat /\ Weight[v] \in Nat
  BY <1>2, AggregateAssumption DEF Sample
<1> DEFINE d == table[v].price
<1> HIDE DEF w, x, y
<1>11. q \in Nat /\ r \in Nat
  BY <1>8, <1>9, RatioIs
<1>12. r < q => w * (q - r - 1) <= x - y
  BY <1>8, <1>9, RoundedDistance
<1>13. q < r => w * (r - q - 1) <= y - x
  BY <1>8, <1>9, RoundedDistance
<1> HIDE DEF q, r, d
<1>14. /\ Weight[v] * (d - p) \in Int
       /\ Weight[v] * (p - d) = -(Weight[v] * (d - p))
       /\ Weight[v] * (d - p) <= Weight[v] * distance(d, p)
       /\ -(Weight[v] * (d - p)) <= Weight[v] * distance(d, p)
       /\ 0 <= Weight[v] * distance(d, p)
  <2>1. d \in Nat /\ Weight[v] \in Nat
    BY <1>10 DEF d
  <2>2. CASE d < p
    <3>1. distance(d, p) = p - d /\ p - d \in Nat
      BY <2>1, <2>2
    <3>2. Weight[v] * (p - d) \in Nat /\ Weight[v] * (p - d) = -(Weight[v] * (d - p))
      BY <2>1, <3>1
    <3>3. Weight[v] * (d - p) \in Int
      BY <2>1
    <3> QED BY <3>1, <3>2, <3>3
  <2>3. CASE ~ d < p
    <3>1. distance(d, p) = d - p /\ d - p \in Nat
      BY <2>1, <2>3
    <3>2. Weight[v] * (d - p) \in Nat /\ Weight[v] * (p - d) = -(Weight[v] * (d - p))
      BY <2>1, <3>1
    <3> QED BY <3>1, <3>2
  <2> QED BY <2>2, <2>3
<1>15. x - y = Weight[v] * (d - p)
  BY <1>9 DEF d
<1>16. w * (distance(q, r) - 1) <= Weight[v] * distance(d, p)
  <2> DEFINE share == Weight[v] * (d - p)
             most == Weight[v] * distance(d, p)
  <2>1. share \in Int /\ share <= most /\ -share <= most /\ 0 <= most /\ x - y = share
    BY <1>14, <1>15
  <2>2. most \in Int
    <3>1. d \in Nat /\ Weight[v] \in Nat
      BY <1>10 DEF d
    <3> QED BY <3>1
  <2> HIDE DEF share, most
  <2>3. CASE r < q
    <3>1. distance(q, r) = q - r
      BY <1>11, <2>3
    <3>2. w * (q - r - 1) \in Int
      BY <1>8, <1>11
    <3> QED BY <1>9, <1>12, <2>1, <2>2, <2>3, <3>1, <3>2 DEF most
  <2>4. CASE q < r
    <3>1. distance(q, r) = r - q
      BY <1>11, <2>4
    <3>2. w * (r - q - 1) \in Int
      BY <1>8, <1>11
    <3> QED BY <1>9, <1>13, <2>1, <2>2, <2>4, <3>1, <3>2 DEF most
  <2>5. CASE q = r
    <3>1. distance(q, r) - 1 = -1
      BY <1>11, <2>5
    <3>2. w * (-1) = -w
      BY <1>8
    <3> QED BY <1>8, <2>1, <2>2, <3>1, <3>2 DEF most
  <2> QED BY <1>11, <2>3, <2>4, <2>5
<1> QED BY <1>7, <1>16 DEF d


-----------------------------------------------------------------------------
\* Stamps.

\* The stamp a keeper puts on what it signs at a moment.
StampOf(time) == [timestamp |-> Seconds(time), round_id |-> RoundId(time)]

\* Everything signed so far carries the stamp of a moment that has passed.
SignedInThePast ==
  /\ now \in Nat
  /\ \A s \in signed : \E time \in 0..now : s = StampOf(time)

\* The moments of one second span whole round windows: a round is signed with one
\* second only, and a later round with the same or a later second.
LEMMA SecondFollowsRound ==
  ASSUME NEW t \in Nat, NEW u \in Nat, RoundId(t) <= RoundId(u)
  PROVE  Seconds(t) <= Seconds(u)
PROOF
  <1> DEFINE W == ROUND_WINDOW_MS
             k == SECOND \div W
             s == Seconds(u) + 1
  <1>1. W \in Nat \ {0} /\ SECOND \in Nat \ {0}
    BY KeeperAssumption
  <1>2. k \in Nat /\ SECOND = k * W
    BY <1>1, WindowsDivideSeconds
  <1>3. /\ RoundId(t) \in Nat /\ RoundId(u) \in Nat
        /\ Seconds(t) \in Nat /\ Seconds(u) \in Nat
    BY <1>1, QuotientIs DEF RoundId, Seconds
  <1>4. SUFFICES ASSUME s <= Seconds(t) PROVE FALSE
    BY <1>3
  <1> DEFINE n == s * k
  <1>5. n \in Nat /\ n * W = s * SECOND
    BY <1>1, <1>2, <1>3
  <1>6. u < n * W
    BY <1>1, <1>5, QuotientIs DEF Seconds
  <1>7. n * W <= t
    <2>1. s * SECOND <= Seconds(t) * SECOND
      BY <1>1, <1>3, <1>4, ProductMonotone
    <2>2. Seconds(t) * SECOND <= t
      BY <1>1, QuotientIs DEF Seconds
    <2> QED
      BY <1>1, <1>3, <1>5, <2>1, <2>2
  <1>8. RoundId(u) < n
    <2>1. SUFFICES ASSUME n <= RoundId(u) PROVE FALSE
      BY <1>3, <1>5
    <2>2. n * W \in Nat /\ n * W <= RoundId(u) * W
      BY <1>1, <1>3, <1>5, <2>1, ProductMonotone
    <2>3. RoundId(u) * W \in Nat /\ RoundId(u) * W <= u
      BY <1>1, <1>3, QuotientIs, ProductMonotone DEF RoundId
    <2> QED
      BY <1>6, <2>2, <2>3
  <1>9. n <= RoundId(t)
    <2>1. SUFFICES ASSUME RoundId(t) + 1 <= n PROVE FALSE
      BY <1>3, <1>5
    <2>2. /\ (RoundId(t) + 1) * W \in Nat
          /\ (RoundId(t) + 1) * W <= n * W
      BY <1>1, <1>3, <1>5, <2>1, ProductMonotone
    <2>3. t < (RoundId(t) + 1) * W
      BY <1>1, QuotientIs DEF RoundId
    <2>4. n * W \in Nat
      BY <1>1, <1>5
    <2> QED
      BY <1>7, <2>2, <2>3, <2>4
  <1> QED
    BY <1>3, <1>5, <1>8, <1>9

\* Stamps of past moments are coherent.
LEMMA PastIsCoherent ==
  SignedInThePast => SigningIsCoherent
PROOF
  <1> SUFFICES ASSUME SignedInThePast,
                      NEW s \in signed, NEW t \in signed,
                      s.round_id <= t.round_id
               PROVE  s.timestamp <= t.timestamp
    BY DEF SigningIsCoherent
  <1>1. PICK x \in 0..now : s = StampOf(x)
    BY DEF SignedInThePast
  <1>2. PICK y \in 0..now : t = StampOf(y)
    BY DEF SignedInThePast
  <1>3. x \in Nat /\ y \in Nat
    BY DEF SignedInThePast
  <1>4. RoundId(x) <= RoundId(y)
    BY <1>1, <1>2 DEF StampOf
  <1> QED
    BY <1>1, <1>2, <1>3, <1>4, SecondFollowsRound DEF StampOf

\* Only SignRound signs, and it stamps with the present; only Tick moves the clock,
\* and it moves it forward.
LEMMA PastStep ==
  SignedInThePast /\ [Next]_vars => SignedInThePast'
PROOF
  <1> SUFFICES ASSUME SignedInThePast, [Next]_vars
               PROVE  SignedInThePast'
    OBVIOUS
  <1>1. ASSUME UNCHANGED <<signed, now>>
        PROVE  SignedInThePast'
    BY <1>1 DEF SignedInThePast, StampOf
  <1>2. CASE VenueStep
    BY <1>1, <1>2 DEF VenueStep
  <1>3. CASE StartPoll
    BY <1>1, <1>3 DEF StartPoll
  <1>4. CASE SignRound
    <2>1. now' = now /\ signed' \subseteq signed \cup {StampOf(now)}
      BY <1>4 DEF SignRound, StampOfNow, StampOf
    <2>2. now \in 0..now
      BY DEF SignedInThePast
    <2> QED
      BY <2>1, <2>2 DEF SignedInThePast, StampOf, Seconds, RoundId
  <1>5. CASE Watchdog
    BY <1>1, <1>5 DEF Watchdog, Down
  <1>6. CASE Exit
    BY <1>1, <1>6 DEF Exit, Down
  <1>7. CASE Restart
    BY <1>1, <1>7 DEF Restart
  <1>8. CASE \E v \in Venues, a \in Assets : Delist(v, a)
    BY <1>1, <1>8 DEF Delist
  <1>9. CASE Tick
    <2>1. now' = now + 1 /\ signed' = signed
      BY <1>9 DEF Tick
    <2>2. now \in Nat /\ 0..now \subseteq 0..(now + 1)
      BY DEF SignedInThePast
    <2> QED
      BY <2>1, <2>2 DEF SignedInThePast, StampOf, Seconds, RoundId
  <1>10. CASE UNCHANGED vars
    BY <1>1, <1>10 DEF vars
  <1> QED
    BY <1>2, <1>3, <1>4, <1>5, <1>6, <1>7, <1>8, <1>9, <1>10 DEF Next

\* Whatever is signed with the key, over any number of crashes and restarts and
\* however long a poll hangs, carries timestamps that do not run backwards along
\* the rounds.
THEOREM StampsAreCoherent == Spec => []SigningIsCoherent
PROOF
  <1>1. Init => SignedInThePast
    BY DEF Init, SignedInThePast
  <1>2. SignedInThePast /\ [Next]_vars => SignedInThePast'
    BY PastStep
  <1>3. SignedInThePast => SigningIsCoherent
    BY PastIsCoherent
  <1> QED
    BY <1>1, <1>2, <1>3, PTL DEF Spec

-----------------------------------------------------------------------------
\* Types.

LEMMA StampsAreNat ==
  ASSUME NEW t \in Nat
  PROVE  Seconds(t) \in Nat /\ RoundId(t) \in Nat
BY KeeperAssumption, QuotientIs DEF Seconds, RoundId

\* What a poll leaves under an asset: the attestation it found, or one with the
\* present stamp if a venue's sample is fresh.
LEMMA AttestIs ==
  ASSUME TypeOK, NEW a \in Assets
  PROVE  LET F == FreshVenues(samples[a], now) IN
         /\ F = {} => Attest(a) = latest[a] /\ Aggregated(samples[a], now) = NoPrice
         /\ F # {} => /\ Attest(a) \in Attestation /\ Attest(a) # NoAttestation
                      /\ Attest(a).price \in Nat \ {0}
                      /\ Attest(a).sources \in 1..Cardinality(Venues)
                      /\ Attest(a).timestamp = Seconds(now)
                      /\ Attest(a).round_id = RoundId(now)
                      /\ \E v \in F : samples[a][v].price <= Attest(a).price
                      /\ \E v \in F : Attest(a).price <= samples[a][v].price
<1> DEFINE F == FreshVenues(samples[a], now)
           agg == Aggregated(samples[a], now)
           s == samples[a]
<1>1. s \in SampleTable /\ now \in Nat
  BY DEF TypeOK, SampleTable
<1>2. /\ F = {} => agg = NoPrice
      /\ F # {} => /\ agg # NoPrice
                   /\ agg.price \in Nat \ {0}
                   /\ agg.sources \in 1..Cardinality(Venues)
                   /\ \E v \in F : s[v].price <= agg.price
                   /\ \E v \in F : agg.price <= s[v].price
  <2> HIDE DEF s
  <2> QED BY <1>1, AggregateIs DEF s
<1> HIDE DEF F, agg
<1>3. CASE F = {}
  BY <1>2, <1>3 DEF Attest, F, agg
<1>4. CASE F # {}
  <2>1. Attest(a) = [price |-> agg.price, sources |-> agg.sources,
                     timestamp |-> Seconds(now), round_id |-> RoundId(now)]
    BY <1>2, <1>4 DEF Attest, StampOfNow, agg
  <2>2. Attest(a) \in Attestation
    BY <1>1, <1>2, <1>4, <2>1, StampsAreNat DEF Attestation
  <2>3. Attest(a) # NoAttestation
    BY <2>2, KeeperAssumption DEF Attestation
  <2> QED BY <1>2, <1>4, <2>1, <2>2, <2>3 DEF F
<1> QED BY <1>3, <1>4

\* A process that knows nothing.
LEMMA BlankTables ==
  /\ [a \in Assets |-> [v \in Venues |-> NoSample]]
       \in [Assets -> [Venues -> Sample \cup {NoSample}]]
  /\ [a \in Assets |-> NoAttestation] \in [Assets -> Attestation \cup {NoAttestation}]
OBVIOUS

LEMMA InitTypes ==
  ASSUME Init
  PROVE  TypeOK
<1>1. /\ samples \in [Assets -> [Venues -> Sample \cup {NoSample}]]
      /\ latest \in [Assets -> Attestation \cup {NoAttestation}]
  BY BlankTables DEF Init
<1>2. {startedAt, nextWatch, wake, pollStart, now} \subseteq Nat
  BY KeeperAssumption DEF Init
<1>3. /\ up \in BOOLEAN /\ polling \in BOOLEAN
      /\ awaiting \subseteq Venues /\ allMode \subseteq Fallback
      /\ delisted \subseteq Venues \X Assets /\ signed \subseteq Stamp
  BY DEF Init
<1> QED BY <1>1, <1>2, <1>3 DEF TypeOK

LEMMA VenueStepTypes ==
  ASSUME TypeOK, VenueStep
  PROVE  TypeOK'
<1>1. /\ UNCHANGED <<up, startedAt, nextWatch, wake, polling, pollStart, latest,
                     delisted, signed, now>>
      /\ awaiting' \subseteq awaiting
  BY DEF VenueStep, Fail, Reject, Answer
<1>2. allMode' \subseteq Fallback
  BY DEF VenueStep, Fail, Reject, Answer, ModeAfterRejection, TypeOK
<1>3. samples' \in [Assets -> [Venues -> Sample \cup {NoSample}]]
  <2>1. PICK v \in awaiting :
          \/ Fail(v)
          \/ Reject(v)
          \/ \E S \in SUBSET (Lists[v] \ Delisted(v)) :
               \E quote \in [S -> Quotes] : Answer(v, quote)
    BY DEF VenueStep
  <2>2. CASE Fail(v) \/ Reject(v)
    BY <2>2 DEF Fail, Reject, TypeOK
  <2>3. CASE \E S \in SUBSET (Lists[v] \ Delisted(v)) :
               \E quote \in [S -> Quotes] : Answer(v, quote)
    <3> PICK S \in SUBSET (Lists[v] \ Delisted(v)) :
          \E quote \in [S -> Quotes] : Answer(v, quote)
      BY <2>3
    <3>1. PICK quote \in [S -> Quotes] : Answer(v, quote)
      OBVIOUS
    <3>2. \A a \in DOMAIN quote : [price |-> quote[a], ts |-> now] \in Sample
      BY <3>1, KeeperAssumption DEF Sample, TypeOK
    <3>3. \A a \in Assets : samples[a] \in [Venues -> Sample \cup {NoSample}]
      BY DEF TypeOK
    <3> QED BY <3>1, <3>2, <3>3 DEF Answer
  <2> QED BY <2>1, <2>2, <2>3
<1> QED BY <1>1, <1>2, <1>3 DEF TypeOK

LEMMA SignRoundTypes ==
  ASSUME TypeOK, SignRound
  PROVE  TypeOK'
<1>1. \A a \in Assets : Attest(a) \in Attestation \cup {NoAttestation}
  BY AttestIs DEF TypeOK
<1>2. latest' \in [Assets -> Attestation \cup {NoAttestation}]
  BY <1>1 DEF SignRound
<1>3. StampOfNow \in Stamp
  BY StampsAreNat DEF StampOfNow, Stamp, TypeOK
<1>4. signed' \subseteq Stamp
  BY <1>3 DEF SignRound, TypeOK
<1>5. NextPoll \in Nat
  <2>1. now \in Nat /\ pollStart + POLL_INTERVAL_MS \in Nat
    BY KeeperAssumption DEF TypeOK
  <2>2. \A x, y \in Nat : Max({x, y}) \in {x, y}
    <3> SUFFICES ASSUME NEW x \in Nat, NEW y \in Nat PROVE Max({x, y}) \in {x, y}
      OBVIOUS
    <3>1. \E m \in {x, y} : \A z \in {x, y} : m >= z
      <4>1. CASE x <= y
        BY <4>1
      <4>2. CASE ~ x <= y
        BY <4>2
      <4> QED BY <4>1, <4>2
    <3> QED BY <3>1 DEF Max
  <2> QED BY <2>1, <2>2 DEF NextPoll
<1> QED BY <1>2, <1>4, <1>5 DEF SignRound, TypeOK

LEMMA DownTypes ==
  ASSUME TypeOK, Down
  PROVE  TypeOK'
<1>1. /\ samples' \in [Assets -> [Venues -> Sample \cup {NoSample}]]
      /\ latest' \in [Assets -> Attestation \cup {NoAttestation}]
  BY BlankTables DEF Down, Forgets
<1>2. {startedAt', nextWatch', wake', pollStart', now'} \subseteq Nat
  BY KeeperAssumption DEF Down, StartsAt, TypeOK
<1>3. /\ up' \in BOOLEAN /\ polling' \in BOOLEAN
      /\ awaiting' \subseteq Venues /\ allMode' \subseteq Fallback
      /\ delisted' \subseteq Venues \X Assets /\ signed' \subseteq Stamp
  BY DEF Down, Forgets, TypeOK
<1> QED BY <1>1, <1>2, <1>3 DEF TypeOK

LEMMA NextTypes ==
  ASSUME TypeOK, [Next]_vars
  PROVE  TypeOK'
<1>1. CASE VenueStep
  BY <1>1, VenueStepTypes
<1>2. CASE StartPoll
  BY <1>2 DEF StartPoll, Asked, TypeOK
<1>3. CASE SignRound
  BY <1>3, SignRoundTypes
<1>4. CASE Watchdog
  <2>1. CASE Down
    BY <2>1, DownTypes
  <2>2. CASE ~Down
    <3>1. nextWatch' = nextWatch + WATCHDOG_PERIOD_MS
      BY <1>4, <2>2 DEF Watchdog
    <3>2. /\ UNCHANGED <<up, startedAt, wake, polling, pollStart, awaiting, allMode>>
          /\ UNCHANGED <<samples, latest, delisted, signed, now>>
      BY <1>4, <2>2 DEF Watchdog
    <3>3. nextWatch' \in Nat
      BY <3>1, KeeperAssumption DEF TypeOK
    <3> QED BY <3>2, <3>3 DEF TypeOK
  <2> QED BY <2>1, <2>2
<1>5. CASE Exit
  BY <1>5, DownTypes DEF Exit
<1>6. CASE Restart
  BY <1>6, KeeperAssumption DEF Restart, StartsAt, TypeOK
<1>7. CASE \E v \in Venues, a \in Assets : Delist(v, a)
  BY <1>7 DEF Delist, process, TypeOK
<1>8. CASE Tick
  BY <1>8 DEF Tick, process, TypeOK
<1>9. CASE UNCHANGED vars
  BY <1>9 DEF vars, process, TypeOK
<1> QED BY <1>1, <1>2, <1>3, <1>4, <1>5, <1>6, <1>7, <1>8, <1>9 DEF Next

\* Samples, attestations and deadlines keep their types; in particular the price of
\* every attestation is an integer and the samples of every asset are a table of
\* aggregate().
THEOREM StateIsTyped == Spec => []TypeOK
<1> QED BY InitTypes, NextTypes, PTL DEF Spec

\* What is served are attestations of the abstract service.
Served == latest \in [Assets -> Service!Attested \cup {NoAttestation}]

\* A round signs the assets that have a fresh sample.
LEMMA SignRoundIsSign ==
  ASSUME TypeOK, Served, SignRound
  PROVE  Served' /\ \E S \in SUBSET Assets : Service!Sign(S)
<1> DEFINE S == {a \in Assets : FreshVenues(samples[a], now) # {}}
<1>1. latest' = [a \in Assets |-> Attest(a)] /\ now' = now
  BY DEF SignRound
<1>2. ASSUME NEW a \in S
      PROVE  /\ Attest(a) \in Service!Attested
             /\ Attest(a).timestamp = now \div SECOND
             /\ Attest(a).round_id = now \div ROUND_WINDOW_MS
  <2>1. FreshVenues(samples[a], now) # {} /\ a \in Assets
    OBVIOUS
  <2>2. /\ Attest(a) \in Attestation
        /\ Attest(a).price \in Nat \ {0}
        /\ Attest(a).sources \in 1..Cardinality(Venues)
        /\ Attest(a).timestamp = Seconds(now) /\ Attest(a).round_id = RoundId(now)
    BY <2>1, AttestIs
  <2>3. Attest(a) \in Service!Attested
    BY <2>2 DEF Attestation, Service!Attested
  <2> QED BY <2>2, <2>3 DEF Seconds, RoundId
<1>3. \A a \in Assets \ S : Attest(a) = latest[a]
  BY AttestIs
<1> HIDE DEF S
<1>4. \A a \in S : latest'[a] \in Service!Attested /\ Service!StampedNow(latest'[a])
  <2>1. S \subseteq Assets
    BY DEF S
  <2> QED BY <1>1, <1>2, <2>1 DEF Service!StampedNow
<1>5. \A a \in Assets \ S : latest'[a] = latest[a]
  BY <1>1, <1>3
<1>6. latest' \in [Assets -> Service!Attested \cup {NoAttestation}]
  <2>1. \A a \in Assets : Attest(a) \in Service!Attested \cup {NoAttestation}
    BY <1>2, <1>3 DEF Served
  <2> QED BY <1>1, <2>1
<1>7. S \in SUBSET Assets
  BY DEF S
<1> QED BY <1>1, <1>4, <1>5, <1>6, <1>7 DEF Served, Service!Sign

LEMMA DownIsForget ==
  ASSUME Served, Down
  PROVE  Served' /\ Service!Forget
BY DEF Down, Forgets, Served, Service!Forget

LEMMA NextIsServiceStep ==
  ASSUME TypeOK, Served, [Next]_vars
  PROVE  Served' /\ [Service!Next]_(Service!serviceVars)
<1>1. CASE UNCHANGED <<latest, now>>
  BY <1>1 DEF Served, Service!serviceVars
<1>2. CASE SignRound
  BY <1>2, SignRoundIsSign DEF Service!Next
<1>3. CASE Down
  BY <1>3, DownIsForget DEF Service!Next
<1>4. CASE Tick
  <2>1. latest' = latest /\ now' = now + 1
    BY <1>4 DEF Tick, process
  <2> QED BY <2>1 DEF Served, Service!Next, Service!Tick
<1>5. CASE Watchdog /\ ~Down
  BY <1>1, <1>5 DEF Watchdog
<1>6. CASE VenueStep \/ StartPoll \/ Restart
  BY <1>1, <1>6 DEF VenueStep, StartPoll, Restart
<1>7. CASE \E v \in Venues, a \in Assets : Delist(v, a)
  BY <1>1, <1>7 DEF Delist, process
<1>8. CASE UNCHANGED vars
  BY <1>1, <1>8 DEF vars, process
<1> QED BY <1>2, <1>3, <1>4, <1>5, <1>6, <1>7, <1>8 DEF Next, Exit

\* Refinement: whatever the venues answer and however often the process ends, what the
\* keeper serves is the snapshot of an attestation service.
THEOREM KeeperIsAttestationService == Spec => ServiceSpec
<1>1. Init => Served /\ Service!Init
  BY BlankTables DEF Init, Served, Service!Init
<1>2. TypeOK /\ Served /\ [Next]_vars => Served' /\ [Service!Next]_(Service!serviceVars)
  BY NextIsServiceStep
<1>3. Spec => Service!Spec
  BY <1>1, <1>2, StateIsTyped, PTL DEF Spec, Service!Spec
<1> QED BY <1>3 DEF ServiceSpec

\* An attestation rests on quotes a venue gave for that asset within STALENESS_MS, to
\* this process: its price lies between two of them.
THEOREM SignaturesAreFresh == Spec => SignedFromFreshQuotes
<1> DEFINE Step ==
      \A a \in Assets : up' /\ latest'[a] # latest[a] =>
        \E lo, hi \in {v \in Venues : samples[a][v] # NoSample} :
          /\ now - samples[a][lo].ts <= STALENESS_MS
          /\ now - samples[a][hi].ts <= STALENESS_MS
          /\ samples[a][lo].price <= latest'[a].price
          /\ latest'[a].price <= samples[a][hi].price
<1>1. TypeOK /\ [Next]_vars => Step
  <2> SUFFICES ASSUME TypeOK, [Next]_vars, NEW a \in Assets,
                      up', latest'[a] # latest[a]
               PROVE  \E lo, hi \in {v \in Venues : samples[a][v] # NoSample} :
                        /\ now - samples[a][lo].ts <= STALENESS_MS
                        /\ now - samples[a][hi].ts <= STALENESS_MS
                        /\ samples[a][lo].price <= latest'[a].price
                        /\ latest'[a].price <= samples[a][hi].price
    OBVIOUS
  <2>1. SignRound
    BY DEF Next, VenueStep, StartPoll, Watchdog, Exit, Down, Restart, Delist, Tick,
           vars, process
  <2>2. latest'[a] = Attest(a)
    BY <2>1 DEF SignRound
  <2>3. FreshVenues(samples[a], now) # {}
    BY <2>2, AttestIs
  <2>4. PICK lo \in FreshVenues(samples[a], now), hi \in FreshVenues(samples[a], now) :
          samples[a][lo].price <= Attest(a).price /\ Attest(a).price <= samples[a][hi].price
    BY <2>3, AttestIs
  <2> QED BY <2>2, <2>4 DEF FreshVenues
<1>2. Spec => [][Step]_vars
  BY <1>1, InitTypes, NextTypes, PTL DEF Spec
<1> QED BY <1>2, PTL DEF SignedFromFreshQuotes

-----------------------------------------------------------------------------
\* Deadlines.

\* Stamps do not run backwards in time.
LEMMA LaterStamps ==
  ASSUME NEW t \in Nat, NEW u \in Nat, t <= u
  PROVE  RoundId(t) <= RoundId(u) /\ Seconds(t) <= Seconds(u)
<1>1. ASSUME NEW w \in Nat \ {0}
      PROVE  t \div w <= u \div w
  <2> DEFINE m == t \div w
             n == u \div w
  <2>1. m \in Nat /\ m * w <= t /\ n \in Nat /\ u < (n + 1) * w
    BY QuotientIs
  <2> HIDE DEF m, n
  <2>2. SUFFICES ASSUME n + 1 <= m PROVE FALSE
    BY <2>1 DEF m, n
  <2>3. (n + 1) * w \in Int /\ m * w \in Int /\ (n + 1) * w <= m * w
    BY <2>1, <2>2, ProductMonotone
  <2> QED BY <2>1, <2>3
<1> QED BY <1>1, KeeperAssumption DEF RoundId, Seconds

\* A quote taken at time t is in the attestation of a, or a later one is.
SignedSince(a, t) ==
  latest[a] # NoAttestation /\ latest[a].round_id >= RoundId(t)

\* A process that is down knows nothing, a poll is not late, and every quote has been
\* signed, or taken by the running poll.
Deadlines ==
  /\ ~up => ~polling /\ \A a \in Assets, v \in Venues : samples[a][v] = NoSample
  /\ polling => pollStart <= now /\ now <= Deadline
  /\ \A a \in Assets, v \in Venues :
       samples[a][v] # NoSample =>
         /\ samples[a][v].ts <= now
         /\ SignedSince(a, samples[a][v].ts) \/ (polling /\ pollStart <= samples[a][v].ts)

LEMMA VenueStepDeadlines ==
  ASSUME TypeOK, Deadlines, VenueStep
  PROVE  Deadlines'
<1>1. /\ UNCHANGED <<up, polling, pollStart, latest, now>>
      /\ up /\ polling
      /\ now \in Nat
  BY DEF VenueStep, TypeOK
<1>2. ASSUME NEW a \in Assets, NEW v \in Venues, samples'[a][v] # NoSample
      PROVE  samples'[a][v] = samples[a][v] \/ samples'[a][v].ts = now
  <2>1. PICK u \in awaiting :
          \/ Fail(u)
          \/ Reject(u)
          \/ \E S \in SUBSET (Lists[u] \ Delisted(u)) :
               \E quote \in [S -> Quotes] : Answer(u, quote)
    BY DEF VenueStep
  <2>2. CASE Fail(u) \/ Reject(u)
    BY <2>2 DEF Fail, Reject
  <2>3. CASE \E S \in SUBSET (Lists[u] \ Delisted(u)) :
               \E quote \in [S -> Quotes] : Answer(u, quote)
    <3> PICK S \in SUBSET (Lists[u] \ Delisted(u)) :
          \E quote \in [S -> Quotes] : Answer(u, quote)
      BY <2>3
    <3>1. PICK quote \in [S -> Quotes] : Answer(u, quote)
      OBVIOUS
    <3>2. samples[a] \in [Venues -> Sample \cup {NoSample}]
      BY DEF TypeOK
    <3>3. samples'[a] = IF a \in DOMAIN quote
                        THEN [samples[a] EXCEPT ![u] = [price |-> quote[a], ts |-> now]]
                        ELSE samples[a]
      BY <3>1 DEF Answer
    <3> QED BY <3>2, <3>3
  <2> QED BY <2>1, <2>2, <2>3
<1>3. pollStart <= now
  BY <1>1 DEF Deadlines
<1>4. ASSUME NEW a \in Assets, NEW v \in Venues, samples'[a][v] # NoSample
      PROVE  /\ samples'[a][v].ts <= now
             /\ \/ SignedSince(a, samples'[a][v].ts)
                \/ polling /\ pollStart <= samples'[a][v].ts
  BY <1>1, <1>2, <1>3, <1>4 DEF Deadlines
<1>5. (polling => pollStart <= now /\ now <= Deadline)'
  BY <1>1 DEF Deadlines, Deadline
<1> QED BY <1>1, <1>4, <1>5 DEF Deadlines, SignedSince, RoundId

LEMMA SignRoundDeadlines ==
  ASSUME TypeOK, Deadlines, SignRound
  PROVE  Deadlines'
<1>1. /\ UNCHANGED <<up, samples, now>>
      /\ up /\ polling /\ ~polling'
      /\ \A a \in Assets : latest'[a] = Attest(a)
  BY DEF SignRound
<1>2. ASSUME NEW a \in Assets, NEW v \in Venues, samples[a][v] # NoSample
      PROVE  /\ samples[a][v].ts <= now
             /\ Attest(a) # NoAttestation
             /\ Attest(a).round_id >= RoundId(samples[a][v].ts)
  <2> DEFINE t == samples[a][v].ts
             F == FreshVenues(samples[a], now)
  <2>1. samples[a][v] \in Sample /\ now \in Nat /\ pollStart \in Nat
    BY <1>2 DEF TypeOK
  <2>2. t \in Nat /\ t <= now
    BY <1>2, <2>1 DEF Deadlines, Sample
  <2>3. RoundId(t) <= RoundId(now) /\ RoundId(now) \in Nat /\ RoundId(t) \in Nat
    BY <2>1, <2>2, LaterStamps, StampsAreNat
  <2>4. CASE F # {}
    BY <2>2, <2>3, <2>4, AttestIs
  <2>5. CASE F = {}
    <3>1. ~ (now - t <= STALENESS_MS)
      BY <1>2, <2>5 DEF FreshVenues
    <3>2. ~ (pollStart <= t)
      <4>1. now <= pollStart + FETCH_TIMEOUT_MS
        BY <1>1 DEF Deadlines, Deadline
      <4>2. FETCH_TIMEOUT_MS \in Nat /\ STALENESS_MS \in Nat
        BY KeeperAssumption, AggregateAssumption
      <4> QED BY <2>1, <2>2, <3>1, <4>1, <4>2, SamplesOutliveAPoll
    <3>3. SignedSince(a, t)
      BY <1>2, <3>2 DEF Deadlines
    <3>4. Attest(a) = latest[a]
      BY <2>5, AttestIs
    <3> QED BY <2>2, <3>3, <3>4 DEF SignedSince
  <2> QED BY <2>4, <2>5
<1>3. \A a \in Assets, v \in Venues :
        samples'[a][v] # NoSample =>
          /\ samples'[a][v].ts <= now'
          /\ SignedSince(a, samples[a][v].ts)'
  BY <1>1, <1>2 DEF SignedSince, RoundId
<1> QED BY <1>1, <1>3 DEF Deadlines, SignedSince, RoundId

\* Steps that leave the tables and the poll alone, or forget them.
LEMMA OtherDeadlines ==
  ASSUME TypeOK, Deadlines
  PROVE  /\ UNCHANGED <<up, polling, pollStart, samples, latest, now>> => Deadlines'
         /\ Down => Deadlines'
         /\ StartPoll => Deadlines'
         /\ Restart => Deadlines'
         /\ Tick => Deadlines'
<1>1. now \in Nat
  BY DEF TypeOK
<1>2. ASSUME UNCHANGED <<up, polling, pollStart, samples, latest, now>>
      PROVE  Deadlines'
  BY <1>2 DEF Deadlines, Deadline, SignedSince, RoundId
<1>3. ASSUME Down
      PROVE  Deadlines'
  BY <1>3 DEF Down, Forgets, Deadlines
<1>4. ASSUME StartPoll
      PROVE  Deadlines'
  <2>1. UNCHANGED <<up, samples, latest, now>> /\ ~polling /\ up /\ pollStart' = now
    BY <1>4 DEF StartPoll
  <2>2. (polling => pollStart <= now /\ now <= Deadline)'
    BY <1>1, <2>1, KeeperAssumption DEF Deadline
  <2>3. \A a \in Assets, v \in Venues :
          samples[a][v] # NoSample =>
            samples[a][v].ts <= now /\ SignedSince(a, samples[a][v].ts)
    BY <2>1 DEF Deadlines
  <2> QED BY <2>1, <2>2, <2>3 DEF Deadlines, SignedSince, RoundId
<1>5. ASSUME Restart
      PROVE  Deadlines'
  BY <1>5 DEF Restart, Deadlines
<1>6. ASSUME Tick
      PROVE  Deadlines'
  <2>1. /\ UNCHANGED <<up, polling, pollStart, samples, latest>>
        /\ now' = now + 1
        /\ up /\ polling => now < Deadline
    BY <1>6 DEF Tick, NothingDue, process
  <2>2. (polling => pollStart <= now /\ now <= Deadline)'
    <3> SUFFICES ASSUME polling PROVE pollStart <= now + 1 /\ now + 1 <= Deadline
      BY <2>1 DEF Deadline
    <3>1. up /\ pollStart <= now /\ pollStart \in Nat /\ FETCH_TIMEOUT_MS \in Nat
      BY KeeperAssumption DEF Deadlines, TypeOK
    <3> QED BY <1>1, <2>1, <3>1 DEF Deadline
  <2>3. ASSUME NEW a \in Assets, NEW v \in Venues, samples[a][v] # NoSample
        PROVE  samples[a][v].ts <= now + 1
    <3>1. samples[a][v].ts \in Nat /\ samples[a][v].ts <= now
      BY <2>3 DEF Deadlines, TypeOK, Sample
    <3> QED BY <1>1, <3>1
  <2> QED BY <2>1, <2>2, <2>3 DEF Deadlines, SignedSince, RoundId
<1> QED BY <1>2, <1>3, <1>4, <1>5, <1>6

LEMMA NextDeadlines ==
  ASSUME TypeOK, Deadlines, [Next]_vars
  PROVE  Deadlines'
<1>1. CASE VenueStep
  BY <1>1, VenueStepDeadlines
<1>2. CASE SignRound
  BY <1>2, SignRoundDeadlines
<1>3. CASE StartPoll \/ Exit \/ Restart \/ Tick
  BY <1>3, OtherDeadlines DEF Exit
<1>4. CASE Watchdog
  BY <1>4, OtherDeadlines DEF Watchdog
<1>5. CASE \E v \in Venues, a \in Assets : Delist(v, a)
  BY <1>5, OtherDeadlines DEF Delist, process
<1>6. CASE UNCHANGED vars
  BY <1>6, OtherDeadlines DEF vars, process
<1> QED BY <1>1, <1>2, <1>3, <1>4, <1>5, <1>6 DEF Next

\* A venue that hangs delays the quotes of the others by its timeout and no more: a
\* quote taken FETCH_TIMEOUT_MS ago is in the attestation served, or a later one is.
THEOREM QuotesAreNotHeldBack == Spec => []QuotesAreSignedInTime
<1>1. Init => Deadlines
  BY DEF Init, Deadlines
<1>2. TypeOK /\ Deadlines => QuotesAreSignedInTime
  <2> SUFFICES ASSUME TypeOK, Deadlines, NEW a \in Assets, NEW v \in Venues,
                      samples[a][v] # NoSample, now > samples[a][v].ts + FETCH_TIMEOUT_MS
               PROVE  SignedSince(a, samples[a][v].ts)
    BY DEF QuotesAreSignedInTime, SignedSince
  <2>1. samples[a][v].ts \in Nat /\ now \in Nat /\ pollStart \in Nat
    BY DEF TypeOK, Sample
  <2>2. FETCH_TIMEOUT_MS \in Nat
    BY KeeperAssumption
  <2>3. ~ (polling /\ pollStart <= samples[a][v].ts)
    BY <2>1, <2>2 DEF Deadlines, Deadline
  <2> QED BY <2>3 DEF Deadlines
<1>3. TypeOK /\ Deadlines /\ [Next]_vars => (TypeOK /\ Deadlines)'
  BY NextTypes, NextDeadlines
<1> QED BY InitTypes, <1>1, <1>2, <1>3, PTL DEF Spec

-----------------------------------------------------------------------------
\* The watchdog.

\* A bounded set of naturals has a greatest element.
LEMMA MaxIs ==
  ASSUME NEW b \in Nat, NEW T \in SUBSET (0..b), T # {}
  PROVE  Max(T) \in T /\ \A x \in T : x <= Max(T)
<1> DEFINE Above(x) == {y \in T : x < y}
           All == {Above(x) : x \in T}
<1>1. IsFiniteSet(T)
  <2>1. 0 \in Int /\ b \in Int
    OBVIOUS
  <2>2. IsFiniteSet(0..b)
    BY <2>1, FS_Interval
  <2> QED BY <2>2, FS_Subset
<1>2. All \in SUBSET SUBSET T /\ All # {}
  OBVIOUS
<1>3. \E s \in All : \A t \in SUBSET s : t # s => t \notin All
  <2> HIDE DEF All
  <2> QED BY <1>1, <1>2, MinimalSubset
<1>4. PICK x \in T : \A t \in SUBSET Above(x) : t # Above(x) => t \notin All
  BY <1>3
<1>5. \A y \in T : y <= x
  <2> SUFFICES ASSUME NEW y \in T, x < y PROVE FALSE
    OBVIOUS
  <2>1. Above(y) \in SUBSET Above(x) /\ y \in Above(x) /\ y \notin Above(y)
    <3>1. \A z \in T : z \in Int
      OBVIOUS
    <3>2. x \in Int /\ y \in Int
      BY <3>1
    <3>3. \A z \in T : y < z => x < z
      BY <3>1, <3>2
    <3>4. ~ (y < y)
      BY <3>2
    <3>5. Above(y) \in SUBSET Above(x)
      BY <3>3
    <3>6. y \in Above(x)
      OBVIOUS
    <3> QED BY <3>4, <3>5, <3>6
  <2>2. Above(y) \in All
    OBVIOUS
  <2> HIDE DEF All, Above
  <2> QED BY <1>4, <2>1, <2>2
<1>6. \E z \in T : \A y \in T : z >= y
  BY <1>5
<1>7. Max(T) \in T /\ \A y \in T : Max(T) >= y
  BY <1>6 DEF Max
<1> QED BY <1>7

\* The attestations stem from now or before, the watchdog is due every period, and
\* a process it has let live past the grace period was serving when it looked.
Watched ==
  /\ \A a \in Assets : latest[a] # NoAttestation => latest[a].timestamp <= Seconds(now)
  /\ up => now <= nextWatch /\ startedAt + WATCHDOG_PERIOD_MS <= nextWatch
  /\ up /\ startedAt + WATCHDOG_GRACE_MS + WATCHDOG_PERIOD_MS <= nextWatch =>
       \E a \in Assets :
         /\ latest[a] # NoAttestation
         /\ Seconds(nextWatch - WATCHDOG_PERIOD_MS)
              <= latest[a].timestamp + SERVE_MAX_STALENESS_S

\* What the watchdog and /health look at.
LEMMA FreshestAttestation ==
  ASSUME TypeOK, Watched, ~NeverSigned
  PROVE  \E a \in Signed :
           /\ LastSignedAge = Seconds(now) - latest[a].timestamp
           /\ \A x \in Signed : latest[x].timestamp <= latest[a].timestamp
<1> DEFINE T == {latest[a].timestamp : a \in Signed}
<1>1. Seconds(now) \in Nat
  BY StampsAreNat DEF TypeOK
<1>2. \A a \in Signed : latest[a].timestamp \in 0..Seconds(now)
  BY <1>1 DEF Signed, TypeOK, Attestation, Watched
<1>3. T \in SUBSET (0..Seconds(now)) /\ T # {}
  BY <1>2 DEF NeverSigned
<1>4. Max(T) \in T /\ \A x \in T : x <= Max(T)
  <2> HIDE DEF T
  <2> QED BY <1>1, <1>3, MaxIs
<1>5. PICK a \in Signed : Max(T) = latest[a].timestamp
  BY <1>4
<1>6. \A x \in Signed : latest[x].timestamp <= latest[a].timestamp
  BY <1>4, <1>5
<1> QED BY <1>5, <1>6 DEF LastSignedAge

LEMMA WatchdogWatched ==
  ASSUME TypeOK, Watched, Watchdog, ~Down
  PROVE  Watched'
<1>1. /\ up /\ now >= nextWatch
      /\ ~ (now - startedAt >= WATCHDOG_GRACE_MS /\ Stalled)
      /\ nextWatch' = nextWatch + WATCHDOG_PERIOD_MS
      /\ UNCHANGED <<up, startedAt, latest, now>>
  BY DEF Watchdog
<1>2. /\ now \in Nat /\ nextWatch \in Nat /\ startedAt \in Nat
      /\ WATCHDOG_PERIOD_MS \in Nat \ {0} /\ WATCHDOG_GRACE_MS \in Nat \ {0}
      /\ SERVE_MAX_STALENESS_S \in Nat
  BY KeeperAssumption DEF TypeOK
<1>3. now = nextWatch /\ startedAt + WATCHDOG_PERIOD_MS <= nextWatch
  BY <1>1, <1>2 DEF Watched
<1>4. nextWatch' - WATCHDOG_PERIOD_MS = now
  BY <1>1, <1>2, <1>3
<1>5. ASSUME startedAt + WATCHDOG_GRACE_MS + WATCHDOG_PERIOD_MS <= nextWatch'
      PROVE  \E a \in Assets :
               /\ latest[a] # NoAttestation
               /\ Seconds(now) <= latest[a].timestamp + SERVE_MAX_STALENESS_S
  <2>1. ~Stalled
    BY <1>1, <1>2, <1>3, <1>5
  <2>2. ~NeverSigned /\ ~ (LastSignedAge > SERVE_MAX_STALENESS_S)
    BY <2>1 DEF Stalled
  <2>3. PICK a \in Signed : LastSignedAge = Seconds(now) - latest[a].timestamp
    BY <2>2, FreshestAttestation
  <2>4. latest[a].timestamp \in Nat /\ Seconds(now) \in Nat /\ latest[a] # NoAttestation
    BY <1>2, StampsAreNat DEF Signed, TypeOK, Attestation
  <2> QED BY <1>2, <2>2, <2>3, <2>4 DEF Signed
<1>6. up' => now' <= nextWatch' /\ startedAt' + WATCHDOG_PERIOD_MS <= nextWatch'
  BY <1>1, <1>2, <1>3
<1>7. Seconds(now)' = Seconds(now)
  BY <1>1 DEF Seconds
<1>8. Seconds(nextWatch - WATCHDOG_PERIOD_MS)' = Seconds(now)
  BY <1>4 DEF Seconds
<1> QED BY <1>1, <1>5, <1>6, <1>7, <1>8 DEF Watched

LEMMA SignRoundWatched ==
  ASSUME TypeOK, Watched, SignRound
  PROVE  Watched'
<1>1. /\ UNCHANGED <<up, startedAt, nextWatch, now>>
      /\ \A a \in Assets : latest'[a] = Attest(a)
  BY DEF SignRound
<1>2. ASSUME NEW a \in Assets
      PROVE  \/ Attest(a) = latest[a]
             \/ Attest(a) # NoAttestation /\ Attest(a).timestamp = Seconds(now)
  BY AttestIs
<1>3. /\ Seconds(now) \in Nat /\ SERVE_MAX_STALENESS_S \in Nat
      /\ \A a \in Assets : latest[a] # NoAttestation => latest[a].timestamp \in Nat
  BY StampsAreNat, KeeperAssumption DEF TypeOK, Attestation
<1>4. \A a \in Assets : latest'[a] # NoAttestation => latest'[a].timestamp <= Seconds(now)
  BY <1>1, <1>2, <1>3 DEF Watched
<1>5. \A a \in Assets : latest[a] # NoAttestation =>
        latest'[a] # NoAttestation /\ latest[a].timestamp <= latest'[a].timestamp
  BY <1>1, <1>2, <1>3 DEF Watched
<1>6. \A a \in Assets : latest'[a] # NoAttestation => latest'[a].timestamp \in Nat
  BY <1>1, <1>2, <1>3
<1>7. ASSUME up, startedAt + WATCHDOG_GRACE_MS + WATCHDOG_PERIOD_MS <= nextWatch
      PROVE  \E a \in Assets :
               /\ latest'[a] # NoAttestation
               /\ Seconds(nextWatch - WATCHDOG_PERIOD_MS)
                    <= latest'[a].timestamp + SERVE_MAX_STALENESS_S
  <2> DEFINE s == Seconds(nextWatch - WATCHDOG_PERIOD_MS)
  <2>1. PICK a \in Assets : /\ latest[a] # NoAttestation
                            /\ s <= latest[a].timestamp + SERVE_MAX_STALENESS_S
    BY <1>7 DEF Watched
  <2>2. s \in Nat
    <3>1. nextWatch - WATCHDOG_PERIOD_MS \in Nat
      BY <1>7, KeeperAssumption DEF TypeOK
    <3> QED BY <3>1, StampsAreNat
  <2> HIDE DEF s
  <2>3. s <= latest'[a].timestamp + SERVE_MAX_STALENESS_S
    BY <1>3, <1>5, <1>6, <2>1, <2>2
  <2> QED BY <1>5, <2>1, <2>3 DEF s
<1> QED BY <1>1, <1>4, <1>7 DEF Watched, Seconds

LEMMA OtherWatched ==
  ASSUME TypeOK, Watched
  PROVE  /\ UNCHANGED <<up, startedAt, nextWatch, latest, now>> => Watched'
         /\ Down => Watched'
         /\ Restart => Watched'
         /\ Tick => Watched'
<1>1. /\ now \in Nat /\ nextWatch \in Nat /\ startedAt \in Nat
      /\ WATCHDOG_PERIOD_MS \in Nat \ {0} /\ WATCHDOG_GRACE_MS \in Nat \ {0}
  BY KeeperAssumption DEF TypeOK
<1>2. ASSUME UNCHANGED <<up, startedAt, nextWatch, latest, now>>
      PROVE  Watched'
  BY <1>2 DEF Watched, Seconds
<1>3. ASSUME Down
      PROVE  Watched'
  BY <1>3 DEF Down, Forgets, Watched
<1>4. ASSUME Restart
      PROVE  Watched'
  <2>1. /\ startedAt' = now /\ nextWatch' = now + WATCHDOG_PERIOD_MS
        /\ UNCHANGED <<latest, now>>
    BY <1>4 DEF Restart, StartsAt
  <2>2. Seconds(now)' = Seconds(now)
    BY <2>1 DEF Seconds
  <2> QED BY <1>1, <2>1, <2>2 DEF Watched
<1>5. ASSUME Tick
      PROVE  Watched'
  <2>1. /\ UNCHANGED <<up, startedAt, nextWatch, latest>>
        /\ now' = now + 1
        /\ up => now < nextWatch
    BY <1>5 DEF Tick, NothingDue, process
  <2>2. Seconds(now) <= Seconds(now') /\ Seconds(now) \in Nat /\ Seconds(now') \in Nat
    BY <1>1, <2>1, LaterStamps, StampsAreNat
  <2>3. \A a \in Assets : latest[a] # NoAttestation => latest[a].timestamp <= Seconds(now')
    <3> SUFFICES ASSUME NEW a \in Assets, latest[a] # NoAttestation
                 PROVE  latest[a].timestamp <= Seconds(now')
      OBVIOUS
    <3>1. latest[a].timestamp \in Nat /\ latest[a].timestamp <= Seconds(now)
      BY DEF Watched, TypeOK, Attestation
    <3> QED BY <2>2, <3>1
  <2>4. up' => now' <= nextWatch'
    BY <1>1, <2>1
  <2> QED BY <2>1, <2>3, <2>4 DEF Watched, Seconds
<1> QED BY <1>2, <1>3, <1>4, <1>5

LEMMA NextWatched ==
  ASSUME TypeOK, Watched, [Next]_vars
  PROVE  Watched'
<1>1. CASE VenueStep \/ StartPoll
  BY <1>1, OtherWatched DEF VenueStep, StartPoll
<1>2. CASE SignRound
  BY <1>2, SignRoundWatched
<1>3. CASE Watchdog
  BY <1>3, WatchdogWatched, OtherWatched
<1>4. CASE Exit \/ Restart \/ Tick
  BY <1>4, OtherWatched DEF Exit
<1>5. CASE \E v \in Venues, a \in Assets : Delist(v, a)
  BY <1>5, OtherWatched DEF Delist, process
<1>6. CASE UNCHANGED vars
  BY <1>6, OtherWatched DEF vars, process
<1> QED BY <1>1, <1>2, <1>3, <1>4, <1>5, <1>6 DEF Next

\* What was served when the watchdog last looked is what bounds the age now.
LEMMA WatchedIsServing ==
  ASSUME TypeOK, Watched
  PROVE  StallEndsTheProcess
<1> SUFFICES ASSUME up, now - startedAt >= WATCHDOG_GRACE_MS + WATCHDOG_PERIOD_MS
             PROVE  /\ ~NeverSigned
                    /\ LastSignedAge * SECOND
                         <= SERVE_MAX_STALENESS_S * SECOND + WATCHDOG_PERIOD_MS + SECOND
  BY DEF StallEndsTheProcess
<1> DEFINE looked == nextWatch - WATCHDOG_PERIOD_MS
           S == SERVE_MAX_STALENESS_S
<1>1. /\ now \in Nat /\ nextWatch \in Nat /\ startedAt \in Nat
      /\ WATCHDOG_PERIOD_MS \in Nat \ {0} /\ WATCHDOG_GRACE_MS \in Nat \ {0}
      /\ SECOND \in Nat \ {0} /\ S \in Nat
  BY KeeperAssumption DEF TypeOK
<1>2. now <= nextWatch /\ startedAt + WATCHDOG_PERIOD_MS <= nextWatch
  BY DEF Watched
<1>3. /\ startedAt + WATCHDOG_GRACE_MS + WATCHDOG_PERIOD_MS <= nextWatch
      /\ looked \in Nat /\ now <= looked + WATCHDOG_PERIOD_MS
  BY <1>1, <1>2
<1>4. PICK a \in Assets : /\ latest[a] # NoAttestation
                          /\ Seconds(looked) <= latest[a].timestamp + S
  BY <1>3 DEF Watched
<1>5. a \in Signed /\ ~NeverSigned
  BY <1>4 DEF Signed, NeverSigned
<1>6. PICK b \in Signed : /\ LastSignedAge = Seconds(now) - latest[b].timestamp
                          /\ latest[a].timestamp <= latest[b].timestamp
  BY <1>5, FreshestAttestation
<1>7. latest[a].timestamp \in Nat /\ latest[b].timestamp \in Nat
  BY <1>4 DEF Signed, TypeOK, Attestation
<1> HIDE DEF looked, S
<1> DEFINE n == Seconds(now)
           m == Seconds(looked)
           t == latest[b].timestamp
<1>8. /\ n \in Nat /\ n * SECOND <= now
      /\ m \in Nat /\ looked < (m + 1) * SECOND
  BY <1>1, <1>3, QuotientIs DEF Seconds
<1>9. m <= t + S /\ t \in Nat
  BY <1>1, <1>4, <1>6, <1>7, <1>8
<1> HIDE DEF n, m, t
<1>10. (m + 1) * SECOND <= (t + S + 1) * SECOND
  <2>1. m + 1 \in Int /\ t + S + 1 \in Int /\ m + 1 <= t + S + 1 /\ SECOND \in Nat
    BY <1>1, <1>8, <1>9
  <2> QED BY <2>1, ProductMonotone
<1>11. /\ (t + S + 1) * SECOND = t * SECOND + S * SECOND + SECOND
       /\ (n - t) * SECOND = n * SECOND - t * SECOND
       /\ n * SECOND \in Int /\ t * SECOND \in Int /\ S * SECOND \in Int
       /\ (m + 1) * SECOND \in Int
  BY <1>1, <1>8, <1>9
<1>12. (n - t) * SECOND <= S * SECOND + WATCHDOG_PERIOD_MS + SECOND
  BY <1>1, <1>3, <1>8, <1>10, <1>11
<1> QED BY <1>5, <1>6, <1>12 DEF n, t, S

\* A process that cannot sign, from its start or since its last round, ends: past the
\* grace period and one period of the watchdog it serves an attestation that is at
\* most one period and a second older than the serving bound.
THEOREM StallsEndTheProcess == Spec => []StallEndsTheProcess
<1>1. Init => Watched
  <2> SUFFICES ASSUME Init PROVE Watched
    OBVIOUS
  <2>2. /\ now = 0 /\ startedAt = 0 /\ nextWatch = WATCHDOG_PERIOD_MS
        /\ \A a \in Assets : latest[a] = NoAttestation
    BY DEF Init
  <2>3. WATCHDOG_PERIOD_MS \in Nat \ {0} /\ WATCHDOG_GRACE_MS \in Nat \ {0}
    BY KeeperAssumption
  <2> QED BY <2>2, <2>3 DEF Watched
<1>2. TypeOK /\ Watched => StallEndsTheProcess
  BY WatchedIsServing
<1>3. TypeOK /\ Watched /\ [Next]_vars => (TypeOK /\ Watched)'
  BY NextTypes, NextWatched
<1> QED BY InitTypes, <1>1, <1>2, <1>3, PTL DEF Spec

-----------------------------------------------------------------------------
\* Bytes.

\* p is the function Power is defined with.
IsPowers(p, n) == p = [k \in 0..n |-> IF k = 0 THEN 1 ELSE Base * p[k - 1]]

LEMMA BaseIs == Base \in Nat /\ Base > 1
BY WidthsAssumption

LEMMA PowersAre ==
  ASSUME NEW n \in Nat, NEW p, IsPowers(p, n)
  PROVE  p[0] = 1 /\ \A k \in 1..n : p[k] = Base * p[k - 1]
<1>1. \A k \in 0..n : p[k] = IF k = 0 THEN 1 ELSE Base * p[k - 1]
  BY DEF IsPowers
<1> QED BY <1>1

LEMMA PowersAgree ==
  ASSUME NEW n \in Nat, NEW m \in Nat, NEW p, IsPowers(p, n), NEW q, IsPowers(q, m)
  PROVE  \A k \in Nat : k <= n /\ k <= m => p[k] = q[k]
<1> DEFINE T == {k \in Nat : k <= n /\ k <= m /\ p[k] # q[k]}
<1>1. SUFFICES ASSUME T # {} PROVE FALSE
  OBVIOUS
<1>2. PICK k \in T : \A j \in T : k <= j
  BY <1>1, LeastNatural
<1>3. /\ p[0] = 1 /\ \A j \in 1..n : p[j] = Base * p[j - 1]
      /\ q[0] = 1 /\ \A j \in 1..m : q[j] = Base * q[j - 1]
  BY PowersAre
<1>4. k \in 1..n /\ k \in 1..m /\ k - 1 \in Nat /\ k - 1 \notin T
  BY <1>2, <1>3
<1>5. p[k - 1] = q[k - 1]
  BY <1>4
<1> QED BY <1>2, <1>3, <1>4, <1>5

LEMMA PowersExist ==
  ASSUME NEW n \in Nat
  PROVE  \E p : IsPowers(p, n)
<1> DEFINE T == {m \in Nat : ~ \E p : IsPowers(p, m)}
<1>1. SUFFICES ASSUME T # {} PROVE FALSE
  OBVIOUS
<1>2. PICK m \in T : \A j \in T : m <= j
  BY <1>1, LeastNatural
<1>3. CASE m = 0
  <2> DEFINE p == [k \in 0..0 |-> 1]
  <2>1. p = [k \in 0..0 |-> IF k = 0 THEN 1 ELSE Base * p[k - 1]]
    OBVIOUS
  <2> HIDE DEF p
  <2>2. IsPowers(p, 0)
    BY <2>1 DEF IsPowers
  <2> QED BY <1>2, <1>3, <2>2
<1>4. CASE m # 0
  <2>1. m - 1 \in Nat /\ m - 1 \notin T
    BY <1>2, <1>4
  <2>2. PICK q : IsPowers(q, m - 1)
    BY <2>1
  <2>3. q[0] = 1 /\ \A k \in 1..m - 1 : q[k] = Base * q[k - 1]
    BY <2>1, <2>2, PowersAre
  <2> DEFINE p == [k \in 0..m |-> IF k = 0 THEN 1 ELSE Base * q[k - 1]]
  <2>4. \A k \in 0..m - 1 : p[k] = q[k]
    BY <1>2, <2>1, <2>3
  <2>5. \A k \in 1..m : p[k - 1] = q[k - 1]
    <3> HIDE DEF p
    <3>1. \A k \in 1..m : k - 1 \in 0..m - 1
      BY <1>2
    <3> QED BY <2>4, <3>1
  <2>6. p = [k \in 0..m |-> IF k = 0 THEN 1 ELSE Base * p[k - 1]]
    <3>1. \A k \in 0..m : k # 0 => k \in 1..m
      BY <1>2
    <3>2. \A k \in 0..m : p[k] = IF k = 0 THEN 1 ELSE Base * p[k - 1]
      BY <2>5, <3>1
    <3>3. p = [k \in 0..m |-> p[k]]
      OBVIOUS
    <3> HIDE DEF p
    <3> QED BY <3>2, <3>3
  <2> HIDE DEF p
  <2>7. IsPowers(p, m)
    BY <2>6 DEF IsPowers
  <2> QED BY <1>2, <2>7
<1> QED BY <1>3, <1>4

LEMMA PowerIs ==
  ASSUME NEW n \in Nat
  PROVE  Power(n) \in Nat \ {0} /\ Power(0) = 1 /\ Power(n + 1) = Base * Power(n)
<1> DEFINE P(k) == CHOOSE p : IsPowers(p, k)
<1>1. \A k \in Nat : Power(k) = P(k)[k] /\ IsPowers(P(k), k)
  BY PowersExist DEF Power, IsPowers
<1> HIDE DEF P
<1>2. Power(0) = 1
  BY <1>1, PowersAre
<1>3. ASSUME NEW k \in Nat PROVE Power(k + 1) = Base * Power(k)
  <2>1. k + 1 \in Nat /\ k + 1 \in 1..k + 1 /\ (k + 1) - 1 = k /\ k <= k + 1
    OBVIOUS
  <2>2. IsPowers(P(k + 1), k + 1) /\ IsPowers(P(k), k)
    BY <1>1, <2>1
  <2>3. P(k + 1)[k + 1] = Base * P(k + 1)[k]
    BY <2>1, <2>2, PowersAre
  <2>4. P(k + 1)[k] = P(k)[k]
    BY <2>1, <2>2, PowersAgree
  <2> QED BY <1>1, <2>1, <2>3, <2>4
<1>4. Power(n) \in Nat \ {0}
  <2> DEFINE T == {k \in Nat : Power(k) \notin Nat \ {0}}
  <2>1. SUFFICES ASSUME T # {} PROVE FALSE
    OBVIOUS
  <2>2. PICK k \in T : \A j \in T : k <= j
    BY <2>1, LeastNatural
  <2>3. k # 0
    BY <1>2, <2>2
  <2>4. k - 1 \in Nat /\ k - 1 \notin T /\ (k - 1) + 1 = k
    BY <2>2, <2>3
  <2>5. Power(k - 1) \in Nat \ {0} /\ Power(k) = Base * Power(k - 1)
    BY <1>3, <2>4
  <2>6. Base * Power(k - 1) \in Nat \ {0}
    BY <2>5, BaseIs
  <2> QED BY <2>2, <2>5, <2>6
<1> QED BY <1>2, <1>3, <1>4

\* Dividing twice divides by the product.
LEMMA QuotientIsUnique ==
  ASSUME NEW x \in Nat, NEW w \in Nat \ {0}, NEW q \in Int, q * w <= x, x < (q + 1) * w
  PROVE  q = x \div w
<1> DEFINE r == x \div w
<1>1. r \in Nat /\ r * w <= x /\ x < (r + 1) * w
  BY QuotientIs
<1> HIDE DEF r
<1>2. ASSUME q + 1 <= r PROVE FALSE
  <2>1. (q + 1) * w <= r * w /\ (q + 1) * w \in Int /\ r * w \in Int
    BY <1>1, <1>2, ProductMonotone
  <2> QED BY <1>1, <2>1
<1>3. ASSUME r + 1 <= q PROVE FALSE
  <2>1. (r + 1) * w <= q * w /\ (r + 1) * w \in Int /\ q * w \in Int
    BY <1>1, <1>3, ProductMonotone
  <2> QED BY <1>1, <2>1
<1> QED BY <1>1, <1>2, <1>3 DEF r

LEMMA DivideTwice ==
  ASSUME NEW x \in Nat, NEW a \in Nat \ {0}, NEW b \in Nat \ {0}
  PROVE  (x \div a) \div b = x \div (b * a)
<1> DEFINE y == x \div a
           q == y \div b
<1>1. y \in Nat /\ y * a <= x /\ x < (y + 1) * a
  BY QuotientIs
<1>2. q \in Nat /\ q * b <= y /\ y < (q + 1) * b
  <2> HIDE DEF y
  <2> QED BY <1>1, QuotientIs
<1> HIDE DEF y, q
<1>3. q * b \in Int /\ (q + 1) * b \in Int
  BY <1>2
<1>4. (q * b) * a <= y * a /\ (y + 1) * a <= ((q + 1) * b) * a
  <2>1. y + 1 <= (q + 1) * b /\ y + 1 \in Int
    BY <1>1, <1>2, <1>3
  <2> QED BY <1>1, <1>2, <1>3, <2>1, ProductMonotone
<1>5. (q * b) * a = q * (b * a) /\ ((q + 1) * b) * a = (q + 1) * (b * a)
  BY <1>2
<1>6. b * a \in Nat \ {0}
  OBVIOUS
<1>7. y * a \in Int /\ (y + 1) * a \in Int /\ q * (b * a) \in Int /\ (q + 1) * (b * a) \in Int
  BY <1>1, <1>2, <1>6
<1>8. q * (b * a) <= x /\ x < (q + 1) * (b * a)
  BY <1>1, <1>4, <1>5, <1>7
<1>9. q = x \div (b * a)
  BY <1>2, <1>6, <1>8, QuotientIsUnique
<1> QED BY <1>9 DEF q, y

\* The bytes buildMessage writes by shifting are the big-endian bytes.
\* v is the function PriceBytes is defined with.
IsShifted(v, price) ==
  v = [i \in 1..PriceWidth |-> IF i = PriceWidth THEN price ELSE v[i + 1] \div Base]

LEMMA DivideByOne == ASSUME NEW x \in Nat PROVE x \div Power(0) = x
<1>1. Power(0) = 1
  BY PowerIs
<1> QED BY <1>1

LEMMA ShiftOnce ==
  ASSUME NEW x \in Nat, NEW d \in Nat
  PROVE  x \div Power(d + 1) = (x \div Power(d)) \div Base
<1>1. Power(d) \in Nat \ {0} /\ Power(d + 1) = Base * Power(d) /\ Base \in Nat \ {0}
  BY PowerIs, BaseIs
<1> QED BY <1>1, DivideTwice

LEMMA WidthIs == PriceWidth \in Nat \ {0} /\ TagWidth \in Nat \ {0} /\ StampWidth \in Nat \ {0}
BY WidthsAssumption

LEMMA ShiftedIs ==
  ASSUME NEW price \in Nat, NEW v, IsShifted(v, price), NEW i \in 1..PriceWidth
  PROVE  v[i] = price \div Power(PriceWidth - i)
<1> DEFINE T == {d \in Nat : d < PriceWidth /\ v[PriceWidth - d] # price \div Power(d)}
<1>1. T = {}
  <2>1. SUFFICES ASSUME T # {} PROVE FALSE
    OBVIOUS
  <2>2. PICK d \in T : \A e \in T : d <= e
    BY <2>1, LeastNatural
  <2>3. \A j \in 1..PriceWidth : v[j] = IF j = PriceWidth THEN price ELSE v[j + 1] \div Base
    BY DEF IsShifted
  <2>4. PriceWidth - d \in 1..PriceWidth /\ PriceWidth \in Nat
    BY <2>2, WidthIs
  <2>5. CASE d = 0
    BY <2>2, <2>3, <2>4, <2>5, DivideByOne
  <2>6. CASE d # 0
    <3>1. d - 1 \in Nat /\ d - 1 < PriceWidth /\ d - 1 \notin T /\ (d - 1) + 1 = d
          /\ PriceWidth - d # PriceWidth /\ (PriceWidth - d) + 1 = PriceWidth - (d - 1)
      BY <2>2, <2>4, <2>6
    <3>2. v[PriceWidth - (d - 1)] = price \div Power(d - 1)
      BY <3>1
    <3>3. v[PriceWidth - d] = v[PriceWidth - (d - 1)] \div Base
      BY <2>3, <2>4, <3>1
    <3>4. price \div Power(d) = (price \div Power(d - 1)) \div Base
      BY <3>1, ShiftOnce
    <3> QED BY <2>2, <3>2, <3>3, <3>4
  <2> QED BY <2>5, <2>6
<1>2. PriceWidth - i \in Nat /\ PriceWidth - i < PriceWidth /\ PriceWidth - (PriceWidth - i) = i
  BY WidthIs
<1>3. PriceWidth - i \notin T
  BY <1>1
<1> QED BY <1>2, <1>3

LEMMA ShiftedExists ==
  ASSUME NEW price \in Nat
  PROVE  \E v : IsShifted(v, price)
<1> DEFINE v == [i \in 1..PriceWidth |-> price \div Power(PriceWidth - i)]
<1>1. ASSUME NEW i \in 1..PriceWidth
      PROVE  v[i] = IF i = PriceWidth THEN price ELSE v[i + 1] \div Base
  <2>1. v[i] = price \div Power(PriceWidth - i)
    OBVIOUS
  <2>2. CASE i = PriceWidth
    <3>1. PriceWidth - i = 0
      BY <2>2, WidthIs
    <3> QED BY <2>1, <2>2, <3>1, DivideByOne
  <2>3. CASE i # PriceWidth
    <3>1. i + 1 \in 1..PriceWidth /\ PriceWidth - (i + 1) \in Nat
          /\ (PriceWidth - (i + 1)) + 1 = PriceWidth - i
      BY <2>3, WidthIs
    <3>2. v[i + 1] = price \div Power(PriceWidth - (i + 1))
      BY <3>1
    <3>3. price \div Power(PriceWidth - i) = (price \div Power(PriceWidth - (i + 1))) \div Base
      BY <3>1, ShiftOnce
    <3> QED BY <2>1, <2>3, <3>2, <3>3
  <2> QED BY <2>2, <2>3
<1>2. v = [i \in 1..PriceWidth |-> v[i]]
  OBVIOUS
<1> HIDE DEF v
<1>3. v = [i \in 1..PriceWidth |-> IF i = PriceWidth THEN price ELSE v[i + 1] \div Base]
  BY <1>1, <1>2
<1> QED BY <1>3 DEF IsShifted

LEMMA ShiftingWritesBigEndian ==
  ASSUME NEW price \in Nat
  PROVE  PriceBytes(price) = BigEndian(price, PriceWidth)
<1> DEFINE v == CHOOSE f : IsShifted(f, price)
<1>1. IsShifted(v, price)
  BY ShiftedExists
<1>2. PriceBytes(price) = [i \in 1..PriceWidth |-> IF i < 1 THEN 0 ELSE v[i] % Base]
  BY DEF PriceBytes, IsShifted, LastByteWritten
<1> HIDE DEF v
<1>3. \A i \in 1..PriceWidth : ~ (i < 1) /\ v[i] = price \div Power(PriceWidth - i)
  BY <1>1, ShiftedIs, WidthIs
<1> QED BY <1>2, <1>3 DEF BigEndian

\* Reading the big-endian bytes of a number that fits gives the number back.
\* n is the function NumberOf is defined with.
IsRead(n, bytes) ==
  n = [i \in 0..Len(bytes) |-> IF i = 0 THEN 0 ELSE n[i - 1] * Base + bytes[i]]

LEMMA BigEndianIs ==
  ASSUME NEW x \in Nat, NEW w \in Nat
  PROVE  /\ BigEndian(x, w) \in Seq(Nat)
         /\ Len(BigEndian(x, w)) = w
         /\ \A i \in 1..w : BigEndian(x, w)[i] = (x \div Power(w - i)) % Base
<1>1. \A i \in 1..w : (x \div Power(w - i)) % Base \in Nat
  <2> SUFFICES ASSUME NEW i \in 1..w PROVE (x \div Power(w - i)) % Base \in Nat
    OBVIOUS
  <2>1. w - i \in Nat
    OBVIOUS
  <2>2. Power(w - i) \in Nat \ {0}
    BY <2>1, PowerIs
  <2>3. x \div Power(w - i) \in Nat
    BY <2>2, QuotientIs
  <2> QED BY <2>3, BaseIs
<1> QED BY <1>1 DEF BigEndian

LEMMA DigitAppended ==
  ASSUME NEW x \in Nat, NEW d \in Nat
  PROVE  x \div Power(d) = (x \div Power(d + 1)) * Base + ((x \div Power(d)) % Base)
<1> DEFINE y == x \div Power(d)
<1>1. y \in Nat
  BY PowerIs, QuotientIs
<1>2. x \div Power(d + 1) = y \div Base
  BY ShiftOnce
<1> HIDE DEF y
<1>3. y = (y \div Base) * Base + (y % Base)
  BY <1>1, BaseIs
<1> QED BY <1>2, <1>3 DEF y

LEMMA NothingAboveTheWidth ==
  ASSUME NEW x \in Nat, NEW w \in Nat, x < Power(w)
  PROVE  x \div Power(w) = 0
<1>1. Power(w) \in Nat \ {0}
  BY PowerIs
<1> QED BY <1>1

LEMMA ReadIs ==
  ASSUME NEW x \in Nat, NEW w \in Nat, x < Power(w),
         NEW n, IsRead(n, BigEndian(x, w)), NEW i \in 0..w
  PROVE  n[i] = x \div Power(w - i)
<1> DEFINE T == {j \in Nat : j <= w /\ n[j] # x \div Power(w - j)}
<1>1. T = {}
  <2>1. SUFFICES ASSUME T # {} PROVE FALSE
    OBVIOUS
  <2>2. PICK j \in T : \A e \in T : j <= e
    BY <2>1, LeastNatural
  <2>3. \A k \in 0..w : n[k] = IF k = 0 THEN 0 ELSE n[k - 1] * Base + BigEndian(x, w)[k]
    BY BigEndianIs DEF IsRead
  <2>4. CASE j = 0
    <3>1. n[0] = 0 /\ w - 0 = w
      BY <2>3
    <3>2. x \div Power(w) = 0
      BY NothingAboveTheWidth
    <3> QED BY <2>2, <2>4, <3>1, <3>2
  <2>5. CASE j # 0
    <3>1. j \in 0..w /\ j \in 1..w /\ j - 1 \in Nat /\ j - 1 <= w /\ j - 1 \notin T
          /\ w - j \in Nat /\ (w - j) + 1 = w - (j - 1)
      BY <2>2, <2>5
    <3>2. n[j - 1] = x \div Power(w - (j - 1))
      BY <3>1
    <3>3. n[j] = n[j - 1] * Base + BigEndian(x, w)[j]
      BY <2>3, <2>5, <3>1
    <3>4. BigEndian(x, w)[j] = (x \div Power(w - j)) % Base
      BY <3>1, BigEndianIs
    <3>5. x \div Power(w - j) = (x \div Power(w - (j - 1))) * Base + ((x \div Power(w - j)) % Base)
      BY <3>1, DigitAppended
    <3> QED BY <2>2, <3>2, <3>3, <3>4, <3>5
  <2> QED BY <2>4, <2>5
<1>2. i \in Nat /\ i <= w /\ i \notin T
  BY <1>1
<1> QED BY <1>2

LEMMA ReadExists ==
  ASSUME NEW x \in Nat, NEW w \in Nat, x < Power(w)
  PROVE  \E n : IsRead(n, BigEndian(x, w))
<1> DEFINE n == [i \in 0..w |-> x \div Power(w - i)]
           B == BigEndian(x, w)
<1>1. ASSUME NEW i \in 0..w
      PROVE  n[i] = IF i = 0 THEN 0 ELSE n[i - 1] * Base + B[i]
  <2>1. n[i] = x \div Power(w - i)
    OBVIOUS
  <2>2. CASE i = 0
    <3>1. x \div Power(w) = 0 /\ w - 0 = w
      BY NothingAboveTheWidth
    <3> QED BY <2>1, <2>2, <3>1
  <2>3. CASE i # 0
    <3>1. i \in 1..w /\ i - 1 \in 0..w /\ w - i \in Nat /\ (w - i) + 1 = w - (i - 1)
      BY <2>3
    <3>2. n[i - 1] = x \div Power(w - (i - 1))
      BY <3>1
    <3>3. B[i] = (x \div Power(w - i)) % Base
      BY <3>1, BigEndianIs
    <3>4. x \div Power(w - i) = (x \div Power(w - (i - 1))) * Base + ((x \div Power(w - i)) % Base)
      BY <3>1, DigitAppended
    <3> QED BY <2>1, <2>3, <3>2, <3>3, <3>4
  <2> QED BY <2>2, <2>3
<1>2. n = [i \in 0..w |-> n[i]]
  OBVIOUS
<1>3. Len(B) = w
  BY BigEndianIs
<1> HIDE DEF n, B
<1>4. n = [i \in 0..Len(B) |-> IF i = 0 THEN 0 ELSE n[i - 1] * Base + B[i]]
  BY <1>1, <1>2, <1>3
<1>5. IsRead(n, B)
  BY <1>4 DEF IsRead
<1> QED BY <1>5 DEF B

LEMMA BytesReadBack ==
  ASSUME NEW x \in Nat, NEW w \in Nat, x < Power(w)
  PROVE  NumberOf(BigEndian(x, w)) = x
<1> DEFINE B == BigEndian(x, w)
           n == CHOOSE f : IsRead(f, B)
<1>1. IsRead(n, B) /\ Len(B) = w
  BY ReadExists, BigEndianIs
<1>2. NumberOf(B) = n[Len(B)]
  <2> HIDE DEF B
  <2> QED BY DEF NumberOf, IsRead
<1> HIDE DEF n
<1>3. n[w] = x \div Power(w - w)
  BY <1>1, ReadIs
<1>4. w - w = 0
  OBVIOUS
<1> QED BY <1>1, <1>2, <1>3, <1>4, DivideByOne

\* The bytes b stand in s after the first skip bytes.
StandsAt(s, skip, b) ==
  skip + Len(b) <= Len(s) /\ \A i \in 1..Len(b) : s[skip + i] = b[i]

LEMMA AppendedStands ==
  ASSUME NEW s \in Seq(Nat), NEW b \in Seq(Nat)
  PROVE  s \o b \in Seq(Nat) /\ Len(s \o b) = Len(s) + Len(b) /\ StandsAt(s \o b, Len(s), b)
BY DEF StandsAt

LEMMA StandsStill ==
  ASSUME NEW s \in Seq(Nat), NEW b \in Seq(Nat), NEW skip \in Nat, NEW c \in Seq(Nat),
         StandsAt(s, skip, b)
  PROVE  StandsAt(s \o c, skip, b)
<1>1. Len(s) \in Nat /\ Len(b) \in Nat /\ Len(c) \in Nat /\ skip + Len(b) <= Len(s)
  BY DEF StandsAt
<1>2. \A i \in 1..Len(b) : skip + i \in 1..Len(s)
  BY <1>1
<1>3. \A k \in 1..Len(s) : (s \o c)[k] = s[k]
  OBVIOUS
<1>4. Len(s \o c) = Len(s) + Len(c)
  OBVIOUS
<1>5. skip + Len(b) <= Len(s \o c)
  BY <1>1, <1>4
<1> QED BY <1>2, <1>3, <1>5 DEF StandsAt

FieldAt(s, skip, width) == SubSeq(s, skip + 1, skip + width)

LEMMA FieldIs ==
  ASSUME NEW s \in Seq(Nat), NEW b \in Seq(Nat), NEW skip \in Nat,
         StandsAt(s, skip, b), NEW width \in Nat, Len(b) = width
  PROVE  FieldAt(s, skip, width) = b
<1>1. skip + width <= Len(s) /\ Len(s) \in Nat
  BY DEF StandsAt
<1>2. (skip + width) - (skip + 1) + 1 = width
  OBVIOUS
<1>3. /\ Len(SubSeq(s, skip + 1, skip + width)) = width
      /\ SubSeq(s, skip + 1, skip + width) \in Seq(Nat)
      /\ \A i \in 1..width : SubSeq(s, skip + 1, skip + width)[i] = s[skip + i]
  BY <1>1
<1>4. \A i \in 1..width : SubSeq(s, skip + 1, skip + width)[i] = b[i]
  BY <1>3 DEF StandsAt
<1> QED BY <1>3, <1>4, SeqEqual DEF FieldAt

\* For every tag, and every price and stamps that fit their widths, the service and
\* the contract sign the same bytes, and the bytes say exactly what was signed
\* (buildMessage of scripts/keeper/message.mjs, build_msg of oracle_v0).
THEOREM MessagesMeanWhatIsSigned ==
  ASSUME NEW tag \in Seq(Nat), NEW price \in Nat, NEW timestamp \in Nat,
         NEW round_id \in Nat,
         price < Power(PriceWidth),
         timestamp < Power(StampWidth), round_id < Power(StampWidth)
  PROVE  MeansWhatIsSigned(tag, price, timestamp, round_id)
<1> DEFINE a == AssetTag8(tag)
           b == BigEndian(price, PriceWidth)
           c == BigEndian(timestamp, StampWidth)
           d == BigEndian(round_id, StampWidth)
           bytes == BuildMessage(tag, price, timestamp, round_id)
<1>1. a \in Seq(Nat) /\ Len(a) = TagWidth
  <2>1. \A i \in 1..TagWidth : (IF i <= Len(tag) THEN tag[i] ELSE 0) \in Nat
    OBVIOUS
  <2> QED BY <2>1, WidthIs DEF AssetTag8
<1>2. /\ b \in Seq(Nat) /\ Len(b) = PriceWidth
      /\ c \in Seq(Nat) /\ Len(c) = StampWidth
      /\ d \in Seq(Nat) /\ Len(d) = StampWidth
  BY BigEndianIs, WidthIs
<1>3. bytes = a \o b \o c \o d
  BY ShiftingWritesBigEndian DEF BuildMessage
<1>4. bytes = build_msg(a, price, timestamp, round_id)
  BY <1>3 DEF build_msg
<1>5. /\ NumberOf(b) = price
      /\ NumberOf(c) = timestamp
      /\ NumberOf(d) = round_id
  BY BytesReadBack, WidthIs
<1> HIDE DEF a, b, c, d, bytes
<1> DEFINE ab == a \o b
           abc == ab \o c
           afterPrice == TagWidth + PriceWidth
           afterStamp == afterPrice + StampWidth
<1>6. afterPrice \in Nat /\ afterStamp \in Nat /\ 0 \in Nat
  BY WidthIs
<1>7. bytes = abc \o d
  BY <1>3
<1>8. /\ ab \in Seq(Nat) /\ Len(ab) = afterPrice /\ StandsAt(ab, TagWidth, b)
      /\ abc \in Seq(Nat) /\ Len(abc) = afterStamp /\ StandsAt(abc, afterPrice, c)
      /\ bytes \in Seq(Nat) /\ StandsAt(bytes, afterStamp, d)
  <2>1. ab \in Seq(Nat) /\ Len(ab) = afterPrice /\ StandsAt(ab, TagWidth, b)
    BY <1>1, <1>2, AppendedStands
  <2> HIDE DEF ab, afterPrice
  <2>2. abc \in Seq(Nat) /\ Len(abc) = afterStamp /\ StandsAt(abc, afterPrice, c)
    <3>1. abc \in Seq(Nat) /\ Len(abc) = Len(ab) + Len(c) /\ StandsAt(abc, Len(ab), c)
      BY <1>2, <2>1, AppendedStands
    <3> QED BY <1>2, <2>1, <3>1
  <2> HIDE DEF abc, afterStamp
  <2> QED BY <1>2, <1>7, <2>1, <2>2, AppendedStands
<1> HIDE DEF afterPrice, afterStamp
<1>9. /\ FieldAt(bytes, 0, TagWidth) = a
      /\ FieldAt(bytes, TagWidth, PriceWidth) = b
      /\ FieldAt(bytes, afterPrice, StampWidth) = c
      /\ FieldAt(bytes, afterStamp, StampWidth) = d
  <2>1. StandsAt(a, 0, a)
    BY <1>1 DEF StandsAt
  <2>2. StandsAt(ab, 0, a)
    BY <1>1, <1>2, <1>6, <2>1, StandsStill
  <2> HIDE DEF ab
  <2>3. StandsAt(abc, 0, a) /\ StandsAt(abc, TagWidth, b)
    BY <1>1, <1>2, <1>6, <1>8, <2>2, WidthIs, StandsStill
  <2> HIDE DEF abc
  <2>4. /\ StandsAt(bytes, 0, a)
        /\ StandsAt(bytes, TagWidth, b)
        /\ StandsAt(bytes, afterPrice, c)
    BY <1>1, <1>2, <1>6, <1>7, <1>8, <2>3, WidthIs, StandsStill
  <2>5. FieldAt(bytes, 0, TagWidth) = a
    BY <1>1, <1>6, <1>8, <2>4, WidthIs, FieldIs
  <2>6. FieldAt(bytes, TagWidth, PriceWidth) = b
    BY <1>2, <1>6, <1>8, <2>4, WidthIs, FieldIs
  <2>7. FieldAt(bytes, afterPrice, StampWidth) = c
    BY <1>2, <1>6, <1>8, <2>4, WidthIs, FieldIs
  <2>8. FieldAt(bytes, afterStamp, StampWidth) = d
    BY <1>2, <1>6, <1>8, WidthIs, FieldIs
  <2> QED BY <2>5, <2>6, <2>7, <2>8
<1>10. Meaning(bytes) = [asset |-> a, price |-> price,
                        timestamp |-> timestamp, round_id |-> round_id]
  BY <1>5, <1>9 DEF Meaning, FieldAt, afterPrice, afterStamp
<1> QED BY <1>4, <1>10 DEF MeansWhatIsSigned, a, bytes

\* An asset of the contract is its own tag.
LEMMA AssetIsItsTag ==
  ASSUME NEW asset \in Seq(Nat), Len(asset) = TagWidth
  PROVE  AssetTag8(asset) = asset
<1>1. asset = [i \in 1..TagWidth |-> asset[i]]
  OBVIOUS
<1>2. \A i \in 1..TagWidth : i <= Len(asset)
  BY WidthIs
<1> QED BY <1>1, <1>2 DEF AssetTag8

\* Different calls ask for signatures of different bytes: two lists of arguments for
\* which build_msg of oracle_v0 gives the same bytes are the same, so a signature
\* checked for one asset, price, timestamp and round serves for no other.  It is why
\* Oracle's messages are records.
THEOREM MessagesAreDistinct ==
  ASSUME NEW asset \in Seq(Nat), Len(asset) = TagWidth,
         NEW other \in Seq(Nat), Len(other) = TagWidth,
         NEW price \in Nat, price < Power(PriceWidth),
         NEW price2 \in Nat, price2 < Power(PriceWidth),
         NEW timestamp \in Nat, timestamp < Power(StampWidth),
         NEW timestamp2 \in Nat, timestamp2 < Power(StampWidth),
         NEW round_id \in Nat, round_id < Power(StampWidth),
         NEW round_id2 \in Nat, round_id2 < Power(StampWidth),
         build_msg(asset, price, timestamp, round_id)
           = build_msg(other, price2, timestamp2, round_id2)
  PROVE  /\ asset = other /\ price = price2
         /\ timestamp = timestamp2 /\ round_id = round_id2
<1> DEFINE bytes == build_msg(asset, price, timestamp, round_id)
<1>1. Meaning(bytes) = [asset |-> asset, price |-> price,
                        timestamp |-> timestamp, round_id |-> round_id]
  <2>1. MeansWhatIsSigned(asset, price, timestamp, round_id)
    BY MessagesMeanWhatIsSigned
  <2> QED BY <2>1, AssetIsItsTag DEF MeansWhatIsSigned
<1>2. Meaning(bytes) = [asset |-> other, price |-> price2,
                        timestamp |-> timestamp2, round_id |-> round_id2]
  <2>1. MeansWhatIsSigned(other, price2, timestamp2, round_id2)
    BY MessagesMeanWhatIsSigned
  <2> QED BY <2>1, AssetIsItsTag DEF MeansWhatIsSigned
<1> HIDE DEF bytes
<1> QED BY <1>1, <1>2

-----------------------------------------------------------------------------
\* The board: one asset's quotes as they come, aggregated and signed at any moment.

\* Inductive: the samples are quotes of venues that list the asset.
BoardInv ==
  /\ ticker \in DOMAIN Tag /\ board \in SampleTable /\ clock \in Moments
  /\ \A v \in Venues : board[v] # NoSample =>
       v \in Listing[ticker] /\ board[v].price \in Quoted

LEMMA BoardInitInv ==
  ASSUME BoardInit
  PROVE  BoardInv
BY DEF BoardInit, BoardInv, SampleTable

LEMMA BoardStepInv ==
  ASSUME BoardInv, [BoardNext]_boardVars
  PROVE  BoardInv'
<1>1. CASE Pass
  BY <1>1 DEF Pass, BoardInv
<1>2. ASSUME NEW v \in Venues, NEW p \in Quoted, Quote(v, p)
      PROVE  BoardInv'
  <2>1. [price |-> p, ts |-> clock] \in Sample
    BY BoardAssumption DEF BoardInv, Sample
  <2>2. board' \in SampleTable
    BY <1>2, <2>1 DEF BoardInv, Quote, SampleTable
  <2>3. ASSUME NEW u \in Venues, board'[u] # NoSample
        PROVE  u \in Listing[ticker] /\ board'[u].price \in Quoted
    <3>1. CASE u = v
      BY <1>2, <3>1 DEF BoardInv, Quote, SampleTable
    <3>2. CASE u # v
      BY <1>2, <2>3, <3>2 DEF BoardInv, Quote, SampleTable
    <3> QED BY <3>1, <3>2
  <2> QED BY <1>2, <2>2, <2>3 DEF BoardInv, Quote
<1>3. CASE UNCHANGED boardVars
  BY <1>3 DEF boardVars, BoardInv
<1> QED BY <1>1, <1>2, <1>3 DEF BoardNext

LEMMA BoardHolds == BoardSpec => []BoardInv
<1> QED BY BoardInitInv, BoardStepInv, PTL DEF BoardSpec

\* As long as one venue of the asset has quoted in time there is a price, and it lies
\* between the lowest and the highest fresh quote (aggregate() of aggregate.mjs).
THEOREM PricesStayWithinQuotes == BoardSpec => []AggregateWithinFresh
<1>1. BoardInv => AggregateWithinFresh
  BY AggregatesStayWithinQuotes DEF BoardInv, AggregateWithinFresh
<1> QED BY <1>1, BoardHolds, PTL

\* No venue moves the price of an asset beyond its share of the fresh weight, with the
\* few venues that FewVenues allows (aggregate() of aggregate.mjs).
THEOREM VenuesKeepTheirShare == BoardSpec => []NoVenueOutweighsItsShare
<1>1. ASSUME BoardInv PROVE NoVenueOutweighsItsShare
  <2> SUFFICES ASSUME NEW v \in Venues, NEW p \in Quoted
               PROVE  BoundedInfluence(board, clock, v, p)
    BY DEF NoVenueOutweighsItsShare
  <2> DEFINE F == FreshVenues(board, clock)
             L == Listing[ticker]
  <2>1. board \in SampleTable /\ ticker \in DOMAIN Tag /\ p \in Nat \ {0}
    BY <1>1, BoardAssumption DEF BoardInv
  <2>2. F \in SUBSET L /\ L \in SUBSET Venues
    BY <1>1, BoardAssumption DEF BoardInv, FreshVenues
  <2>3. Cardinality(L) <= OUTLIER_STDDEV * OUTLIER_STDDEV + 1
    BY <2>1, FewVenues
  <2> HIDE DEF F, L
  <2>4. IsFiniteSet(L)
    BY <2>2, AggregateAssumption, FS_Subset
  <2>5. /\ Cardinality(F) \in Nat /\ Cardinality(L) \in Nat
        /\ Cardinality(F) <= Cardinality(L)
    BY <2>2, <2>4, FS_Subset, FS_CardinalityType
  <2>6. Cardinality(F) <= OUTLIER_STDDEV * OUTLIER_STDDEV + 1
    <3>1. OUTLIER_STDDEV * OUTLIER_STDDEV \in Nat
      BY AggregateAssumption
    <3> QED BY <2>3, <2>5, <3>1
  <2> QED BY <2>1, <2>6, InfluenceIsBounded DEF F
<1> QED BY <1>1, BoardHolds, PTL

\* Whatever the venues quoted, the bytes the service signs for an asset are those the
\* contract rebuilds, and say the asset, the price and the stamps and nothing else
\* (buildMessage of message.mjs, build_msg of oracle_v0).
THEOREM SignedBytesSayThePrice == BoardSpec => []SignedBytesMeanThePrice
<1>1. ASSUME BoardInv PROVE SignedBytesMeanThePrice
  <2> DEFINE F == FreshVenues(board, clock)
             agg == Aggregated(board, clock)
  <2> SUFFICES ASSUME agg # NoPrice
               PROVE  MeansWhatIsSigned(Tag[ticker], agg.price, clock, 2 * clock)
    BY DEF SignedBytesMeanThePrice
  <2>1. board \in SampleTable /\ Tag[ticker] \in Seq(Nat) /\ clock \in Moments
    BY <1>1, BoardAssumption DEF BoardInv
  <2>2. clock \in Nat /\ 2 * clock \in Nat
    BY <2>1, BoardAssumption
  <2>3. Power(PriceWidth) \in Nat /\ Power(StampWidth) \in Nat
    BY WidthIs, PowerIs
  <2>4. clock < Power(StampWidth) /\ 2 * clock < Power(StampWidth)
    BY <2>1, <2>2, <2>3, FieldsAreWideEnough
  <2>5. F # {} /\ agg.price \in Nat /\ \E v \in F : agg.price <= board[v].price
    BY <2>1, AggregateIs
  <2>6. PICK v \in F : agg.price <= board[v].price
    BY <2>5
  <2>7. board[v].price \in Quoted
    BY <1>1, <2>6 DEF BoardInv, FreshVenues
  <2>8. board[v].price < Power(PriceWidth) /\ board[v].price \in Nat
    BY <2>7, BoardAssumption, FieldsAreWideEnough
  <2> HIDE DEF F, agg
  <2>9. agg.price < Power(PriceWidth)
    BY <2>3, <2>5, <2>6, <2>8
  <2> QED BY <2>1, <2>2, <2>4, <2>5, <2>9, MessagesMeanWhatIsSigned
<1> QED BY <1>1, BoardHolds, PTL
=============================================================================
