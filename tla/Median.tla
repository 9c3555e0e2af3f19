------------------------------- MODULE Median -------------------------------
(***************************************************************************)
(* The median that oracle_v0/src/lib.rs stores on the quorum path, by what *)
(* it returns: order statistics of a tuple of prices.  MedianSort.tla      *)
(* models the insertion sort the contract computes it with and is checked  *)
(* against the definitions here.                                           *)
(***************************************************************************)
EXTENDS Integers, Sequences, FiniteSets, Functions

\* Positions of px whose price is below (at most) v.
Below(px, v)  == {i \in DOMAIN px : px[i] < v}
AtMost(px, v) == {i \in DOMAIN px : px[i] <= v}

\* v is the k-th smallest price of px, counted from 1, ties included.
IsKthSmallest(px, k, v) ==
  /\ v \in Range(px)
  /\ Cardinality(Below(px, v)) < k
  /\ k <= Cardinality(AtMost(px, v))

KthSmallest(px, k) == CHOOSE v \in Range(px) : IsKthSmallest(px, k, v)

\* Odd count: the middle price.  Even count: the mean of the two middles,
\* rounded down (i128 division truncates, and accepted prices are positive).
Median(px) ==
  LET m == Len(px) IN
  IF m % 2 = 1
  THEN KthSmallest(px, m \div 2 + 1)
  ELSE (KthSmallest(px, m \div 2) + KthSmallest(px, m \div 2 + 1)) \div 2
=============================================================================
