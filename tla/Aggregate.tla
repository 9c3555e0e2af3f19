----------------------------- MODULE Aggregate -----------------------------
(***************************************************************************)
(* The price of one asset from the venues' samples (scripts/keeper/        *)
(* aggregate.mjs): drop stale samples, drop outliers, take the weighted    *)
(* average of the rest and scale it as keeper.mjs signs it.                *)
(*                                                                         *)
(* A venue's price is counted in units of the signed precision, so the     *)
(* floating-point average and its rounding are integer arithmetic here,    *)
(* and the standard deviation is compared squared.                         *)
(***************************************************************************)
EXTENDS Integers, FiniteSets, Sums

CONSTANTS
  Venues,          \* EXCHANGES
  Weight,          \* WEIGHTS, 1 where the table has no entry
  STALENESS_MS, OUTLIER_STDDEV,
  NoSample,        \* the venue has never quoted the asset
  NoPrice          \* aggregate() returns null

Sample == [price : Nat \ {0}, ts : Nat]

ASSUME AggregateAssumption ==
  /\ IsFiniteSet(Venues)
  /\ Weight \in [Venues -> Nat \ {0}]
  /\ STALENESS_MS \in Nat
  /\ OUTLIER_STDDEV \in Nat \ {0}
  /\ NoSample \notin Sample
  /\ NoPrice \notin [price : Nat, sources : Nat]

\* samples is a table [Venues -> Sample \cup {NoSample}].
\* Fault: stale samples are kept.
EverQuoted(samples, now) == {v \in Venues : samples[v] # NoSample}

FreshVenues(samples, now) ==
  {v \in Venues : /\ samples[v] # NoSample
                  /\ now - samples[v].ts <= STALENESS_MS}

\* Distance of v's price from the mean of F, times the size of F.
Deviation(samples, F, v) ==
  Cardinality(F) * samples[v].price - Total([u \in F |-> samples[u].price], F)

\* Total of the squared distances.
Spread(samples, F) ==
  Total([v \in F |-> Deviation(samples, F, v) * Deviation(samples, F, v)], F)

\* v is at most `limit` standard deviations from the unweighted mean of F.
Near(samples, F, v, limit) ==
  Cardinality(F) * (Deviation(samples, F, v) * Deviation(samples, F, v))
    <= limit * limit * Spread(samples, F)

\* Fault: the threshold is one standard deviation.
KeptWithinOne(samples, F) ==
  IF Cardinality(F) < 3 THEN F ELSE {v \in F : Near(samples, F, v, 1)}

\* The outliers are left out from three fresh samples on.
Kept(samples, F) ==
  IF Cardinality(F) < 3 THEN F ELSE {v \in F : Near(samples, F, v, OUTLIER_STDDEV)}

\* Math.round
RoundedRatio(x, y) == (2 * x + y) \div (2 * y)

\* Price times weight, over the sources.
Weighted(samples, S) == [v \in S |-> samples[v].price * Weight[v]]

\* Fault: the weighted sum is divided by the number of sources.
MeanOverCount(samples, S) ==
  RoundedRatio(Total(Weighted(samples, S), S), Cardinality(S))

WeightedAverage(samples, S) ==
  RoundedRatio(Total(Weighted(samples, S), S), Total(Weight, S))

\* aggregate(): the price to sign and the number of its sources.
Aggregated(samples, now) ==
  LET kept == Kept(samples, FreshVenues(samples, now)) IN
  IF kept = {} THEN NoPrice
  ELSE [price |-> WeightedAverage(samples, kept), sources |-> Cardinality(kept)]

-----------------------------------------------------------------------------
\* What the aggregate promises, for a table of samples at a moment.

\* As long as one venue's sample is fresh there is a price, and it lies between
\* the lowest and the highest fresh price: no filter removes every sample, and no
\* weight or rounding takes the average outside.
WithinFresh(samples, now) ==
  LET F == FreshVenues(samples, now)
      agg == Aggregated(samples, now)
  IN F # {} => /\ agg # NoPrice
               /\ \E v \in F : samples[v].price <= agg.price
               /\ \E v \in F : agg.price <= samples[v].price

\* No venue moves the price beyond its weight: if venue v had quoted p instead,
\* the price would differ by at most v's share of the fresh venues' total weight
\* (and the rounding of two averages).
BoundedInfluence(samples, now, v, p) ==
  LET F == FreshVenues(samples, now)
      other == [samples EXCEPT ![v] = [price |-> p, ts |-> samples[v].ts]]
      distance(x, y) == IF x < y THEN y - x ELSE x - y
  IN v \in F =>
       Total(Weight, F)
         * (distance(Aggregated(samples, now).price, Aggregated(other, now).price) - 1)
       <= Weight[v] * distance(samples[v].price, p)

\* aggregate.mjs: "Reject gross outliers (manipulation, fat-finger prints) before
\* averaging".  When all fresh venues but one agree and the last is off by a
\* factor of ten, the price is the one they agree on.
GrossOutlierRejected(samples, now) ==
  LET F == FreshVenues(samples, now) IN
  \A v \in F, p \in {samples[u].price : u \in F} :
    /\ Cardinality(F) >= 3
    /\ \A u \in F \ {v} : samples[u].price = p
    /\ samples[v].price >= 10 * p
    => Aggregated(samples, now).price = p
=============================================================================
