------------------------------- MODULE Board -------------------------------
(***************************************************************************)
(* One asset's row of the keeper's samples, from the venues' quotes to the *)
(* bytes that are signed: pollOnce() of scripts/keeper/keeper.mjs without  *)
(* its schedule.  The venues that list the asset quote in any order, or    *)
(* fall silent, and at any moment the row may be aggregated and signed.    *)
(*                                                                         *)
(* A moment is a second of the timestamp and two windows of round_id.      *)
(***************************************************************************)
EXTENDS Aggregate, Message

CONSTANTS
  Tag,      \* Tag[ticker]: the bytes of the asset's name
  Listing,  \* Listing[ticker]: the venues with a symbol for the asset
  Quoted,   \* what a venue may quote, in units of the signed precision
  Moments   \* when they may quote and the keeper may sign

ASSUME BoardAssumption ==
  /\ Tag \in [DOMAIN Tag -> Seq(Nat)]
  /\ Listing \in [DOMAIN Tag -> SUBSET Venues]
  /\ Quoted \subseteq Nat \ {0}
  /\ Moments \subseteq Nat

\* Prices and stamps fit their fields, 16 and 8 bytes in the code.
ASSUME FieldsAreWideEnough ==
  /\ \A p \in Quoted : p < Power(PriceWidth)
  /\ \A m \in Moments : 2 * m < Power(StampWidth)

\* The filter has nothing to drop: up to ten venues at config.mjs's threshold.
ASSUME FewVenues ==
  \A x \in DOMAIN Tag :
    Cardinality(Listing[x]) <= OUTLIER_STDDEV * OUTLIER_STDDEV + 1

VARIABLES
  ticker,   \* the asset
  board,    \* samples[asset][exchange]
  clock     \* Date.now()

boardVars == <<ticker, board, clock>>

BoardInit ==
  /\ ticker \in DOMAIN Tag
  /\ board = [v \in Venues |-> NoSample]
  /\ clock \in Moments

\* A venue answered with a price for its symbol of the asset.
Quote(v, p) ==
  /\ v \in Listing[ticker]
  /\ board' = [board EXCEPT ![v] = [price |-> p, ts |-> clock]]
  /\ UNCHANGED <<ticker, clock>>

Pass ==
  /\ \E m \in Moments : clock < m /\ clock' = m
  /\ UNCHANGED <<ticker, board>>

BoardNext == Pass \/ \E v \in Venues, p \in Quoted : Quote(v, p)

BoardSpec == BoardInit /\ [][BoardNext]_boardVars

-----------------------------------------------------------------------------
\* As long as one venue of the asset has quoted in time, aggregate() yields a
\* price between the lowest and the highest fresh quote.
AggregateWithinFresh == WithinFresh(board, clock)

\* THREAT_MODEL.md, principals: an exchange must not individually move the
\* aggregate beyond its weight.
NoVenueOutweighsItsShare ==
  \A v \in Venues, p \in Quoted : BoundedInfluence(board, clock, v, p)

\* The price that is signed means the same to message.mjs and to the contract's
\* build_msg, and the bytes mean nothing else.
SignedBytesMeanThePrice ==
  LET agg == Aggregated(board, clock) IN
  agg # NoPrice => MeansWhatIsSigned(Tag[ticker], agg.price, clock, 2 * clock)

\* aggregate.mjs: the outlier filter rejects gross outliers before averaging.
OutlierRejected == GrossOutlierRejected(board, clock)
=============================================================================
