----------------------------- MODULE MedianSort -----------------------------
(***************************************************************************)
(* How median() in oracle_v0/src/lib.rs computes: an insertion sort into a *)
(* fresh vector, one price per step, and then the middle of it.  Checked   *)
(* to return the order statistic that Median.tla defines.                  *)
(***************************************************************************)
EXTENDS Median, SequencesExt

CONSTANTS
  Inputs,      \* the price vectors of the calls, each price already checked
  MAX_PRICE,
  I128Max,
  Trap         \* the transaction is aborted

ASSUME InputsAssumption == Inputs \subseteq Seq(1..MAX_PRICE) \ {<<>>}

\* The bound on a price is what keeps the sum of two of them an i128.
ASSUME WidthAssumption ==
  /\ MAX_PRICE \in Nat /\ I128Max \in Nat
  /\ 2 * MAX_PRICE <= I128Max
  /\ Trap \notin Nat

VARIABLES
  prices,  \* the argument
  sorted,  \* the vector being built
  taken    \* prices[1..taken] are in it

sortVars == <<prices, sorted, taken>>

\* Fault: a price goes to the end when it exceeds the first one.
SlotAtEnds(p) ==
  IF sorted # <<>> /\ p < sorted[1] THEN 1 ELSE Len(sorted) + 1

\* Before the first larger price, else at the end.
Slot(p) ==
  LET larger == {j \in DOMAIN sorted : p < sorted[j]} IN
  IF larger = {} THEN Len(sorted) + 1
  ELSE CHOOSE j \in larger : \A k \in larger : j <= k

\* Fault: the even case takes the upper middle.
UpperMiddle == sorted[Len(sorted) \div 2 + 1]

\* The code's indices count from 0, these from 1.  checked_add(..).unwrap() traps
\* on overflow.
Middle ==
  LET m == Len(sorted)
      sum == sorted[m \div 2] + sorted[m \div 2 + 1]
  IN IF m % 2 = 1 THEN sorted[m \div 2 + 1]
     ELSE IF sum > I128Max THEN Trap
     ELSE sum \div 2

SortInit ==
  /\ prices \in Inputs
  /\ sorted = <<>>
  /\ taken = 0

Insert ==
  /\ taken < Len(prices)
  /\ LET p == prices[taken + 1] IN sorted' = InsertAt(sorted, Slot(p), p)
  /\ taken' = taken + 1
  /\ UNCHANGED prices

SortSpec == SortInit /\ [][Insert]_sortVars

-----------------------------------------------------------------------------
\* After every round of the loop the vector is in ascending order and holds the
\* prices taken so far, each as often as it was submitted.
SortedPrefix ==
  /\ Len(sorted) = taken
  /\ \A i \in 1 .. taken - 1 : sorted[i] <= sorted[i + 1]
  /\ \A v \in Range(prices) :
       Cardinality({i \in 1 .. taken : sorted[i] = v})
         = Cardinality({i \in 1 .. taken : prices[i] = v})

\* The value returned is the median by rank, ties and even counts included, and no
\* vector of accepted prices traps.
ReturnsMedian ==
  taken = Len(prices) => Middle = Median(prices)
=============================================================================
