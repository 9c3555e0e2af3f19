---------------------------- MODULE OracleViews ----------------------------
(***************************************************************************)
(* The history views of oracle_v0/src/lib.rs: prices() and twap(), read    *)
(* from the ring that Oracle.tla's persistent writers feed.                *)
(***************************************************************************)
EXTENDS Oracle, Sums

CONSTANTS I128Max, Records, NoValue

ASSUME ViewsAssumption ==
  /\ Records \subseteq Nat
  /\ I128Max \in Nat
  /\ NoValue \notin Seq(PriceEntry) \cup Int
  \* "a RING_CAP-entry sum arithmetically unable to overflow i128"
  /\ RING_CAP * MAX_PRICE <= I128Max

\* min(records, stored)
Take(a, records) ==
  IF records < Len(priceRing[a]) THEN records ELSE Len(priceRing[a])

\* Fault: the page starts at the oldest round.
PricesFromOldest(a, records) ==
  IF priceRing[a] = <<>> THEN NoValue
  ELSE [i \in 1 .. Take(a, records) |-> priceRing[a][i]]

\* The last `records` rounds, latest first.
Prices(a, records) ==
  LET ring == priceRing[a] IN
  IF ring = <<>> THEN NoValue
  ELSE [i \in 1 .. Take(a, records) |-> ring[Len(ring) + 1 - i]]

\* checked_add: the sum of positive prices, absent if it leaves i128.
CheckedSum(prices) ==
  LET sum == Total([i \in DOMAIN prices |-> prices[i].price], DOMAIN prices) IN
  IF sum > I128Max THEN NoValue ELSE sum

\* Mean of the last `records` rounds.
Twap(a, records) ==
  IF records = 0 \/ priceRing[a] = <<>> THEN NoValue
  ELSE LET sum == CheckedSum(Prices(a, records)) IN
       IF sum = NoValue THEN NoValue ELSE sum \div Take(a, records)

-----------------------------------------------------------------------------
\* The two persistent reads agree: prices() has a page exactly when
\* get_price_pers has an entry, the page starts with that entry, goes back to
\* older rounds, and skips none of the rounds the ring still holds.
PagesAgreeWithLatest ==
  \A a \in Assets, n \in Records :
    LET page == Prices(a, n) IN
    /\ (page = NoValue) <=> (pricePers[a] = NoEntry)
    /\ page # NoValue =>
         /\ Len(page) <= n
         /\ n > 0 => page[1] = pricePers[a]
         /\ \A i \in 1 .. Len(page) - 1 : page[i + 1].round_id < page[i].round_id
         /\ \A e \in Range(priceRing[a]) \ Range(page) :
              Len(page) = n /\ \A i \in 1 .. n : e.round_id < page[i].round_id

\* An asset with history always has a mean over a positive number of rounds (the
\* bound on accepted prices keeps the checked sum inside i128, so twap() never
\* turns a stored history into "no value"), and it lies between the lowest and
\* the highest price of those rounds.
TwapDefinedAndBetween ==
  \A a \in Assets, n \in Records : n > 0 /\ pricePers[a] # NoEntry =>
    LET stored == {e.price : e \in Range(Prices(a, n))} IN
    /\ Twap(a, n) # NoValue
    /\ \E lo, hi \in stored : lo <= Twap(a, n) /\ Twap(a, n) <= hi
=============================================================================
