------------------------------ MODULE Consumer ------------------------------
(***************************************************************************)
(* examples/consumer_v0/src/lib.rs composed with the oracle: a contract    *)
(* that submits a signed round to update_batch_ed25519_args inside its own *)
(* transaction and opens a position at the submitted price.  PullPath.tla  *)
(* composes it with its clients, the service and other users.              *)
(***************************************************************************)
EXTENDS Oracle

CONSTANTS
  Traders, Sizes, NoPosition,
  OracleAddress,   \* where the oracle of Oracle.tla is
  Addresses,       \* what init may be given
  Obliging,        \* contracts whose update_batch_ed25519_args returns whatever it gets
  NoAddress        \* DataKey::Oracle is absent

ASSUME ConsumerAssumption ==
  /\ OracleAddress \in Addresses \ Obliging
  /\ NoAddress \notin Addresses

VARIABLES
  oracle,      \* DataKey::Oracle
  positions    \* DataKey::Position of each trader

consumerVars == <<vars, oracle, positions>>

PositionRecord == [asset : Assets, size : Sizes, entry_price : Int,
              entry_round : Nat, entry_timestamp : Nat]

\* The contract at the stored address returns from the call.
OracleReturns(c) ==
  IF oracle = OracleAddress THEN ArgsResult(c) = "Ok" ELSE oracle \in Obliging

\* What open_position returns.  An error of the invoked contract aborts the
\* invocation and with it the whole transaction ("Trap").
OpenResult(c) ==
  IF c.assets = <<>>                    THEN "NoAssets"
  ELSE IF ~Aligned(c, c.prices, c.sigs) THEN "BatchLengthMismatch"
  ELSE IF oracle = NoAddress            THEN "NotInitialized"
  ELSE IF ~OracleReturns(c)             THEN "Trap"
  ELSE "Ok"

\* The first listed asset and price, whatever the oracle then stores for it.
Opened(c, size) ==
  [asset |-> c.assets[1], size |-> size, entry_price |-> c.prices[1],
   entry_round |-> c.round_id, entry_timestamp |-> c.timestamp]

\* One-time, by whoever comes first and with whatever address it passes.
InitConsumer(address) ==
  /\ oracle = NoAddress
  /\ oracle' = address
  /\ UNCHANGED <<vars, positions>>

\* The state the invoked contract leaves the oracle in.  Another contract than the
\* oracle may call the oracle in turn; that is an UpdateBatchArgs of its own.
Invoked(c) ==
  IF oracle = OracleAddress THEN UpdateBatchArgs(c) ELSE UNCHANGED vars

\* Fault: the oracle is called with try_invoke_contract and its refusal dropped.
RefusalDropped(trader, size, c) ==
  /\ OpenResult(c) \in {"Ok", "Trap"}
  /\ IF OpenResult(c) = "Ok" THEN Invoked(c) ELSE UNCHANGED vars
  /\ positions' = [positions EXCEPT ![trader] = Opened(c, size)]
  /\ UNCHANGED oracle

OpenPosition(trader, size, c) ==
  /\ OpenResult(c) = "Ok"
  /\ Invoked(c)
  /\ positions' = [positions EXCEPT ![trader] = Opened(c, size)]
  /\ UNCHANGED oracle

ConsumerInit ==
  /\ Init
  /\ oracle = NoAddress
  /\ positions = [t \in Traders |-> NoPosition]

-----------------------------------------------------------------------------
\* On a consumer initialised with the oracle, a position is opened only at a price
\* that a publisher registered at that very moment signed, for that asset, inside
\* the acceptance window, and the oracle then holds a round at least as new: nobody
\* trades on a round the oracle would have refused, whoever calls open_position with
\* whatever arguments and whatever the admin and other users did in between.  Which
\* address was stored is up to the first caller of init, so this is not claimed of
\* another one.
PositionPricedBySignedRound ==
  [][\A t \in Traders : oracle = OracleAddress /\ positions'[t] # positions[t] =>
       LET p == positions'[t]
           e == [price |-> p.entry_price, timestamp |-> p.entry_timestamp,
                 round_id |-> p.entry_round]
       IN /\ BackedBy(1, p.asset, e)
          /\ InWindow(e)
          /\ tempLive'[p.asset] # NoEntry
          /\ tempLive'[p.asset].round_id >= p.entry_round]_consumerVars

\* examples/consumer_v0/src/lib.rs: "Signature verification, staleness, and round
\* monotonicity are enforced by the oracle inside the same transaction -- if any of
\* those fail, the consumer's transaction reverts as a whole".  A round that is not
\* newer than the stored one opens the position at its own price.
LaggingRoundReverts ==
  [][\A t \in Traders : oracle = OracleAddress /\ positions'[t] # positions[t] =>
       LET p == positions'[t] IN
       IsNewer(tempLive[p.asset], p.entry_round)]_consumerVars
=============================================================================
