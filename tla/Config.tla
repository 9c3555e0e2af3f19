------------------------------- MODULE Config -------------------------------
(***************************************************************************)
(* The service's tables (scripts/keeper/config.mjs): which venue lists     *)
(* which asset, and the weight of each venue.  A venue's ticker symbol is  *)
(* the pair of the venue and the asset.                                    *)
(***************************************************************************)
EXTENDS Integers, FiniteSets

EXCHANGES == {"coinbase", "binance", "kraken", "okx", "bybit"}

ASSETS ==
  {"BTC/USD", "ETH/USD", "XLM/USD", "USDC/USD", "SOL/USD", "XRP/USD", "ADA/USD",
   "BNB/USD", "TRX/USD", "HYPE/USD", "DOGE/USD", "ZEC/USD", "LINK/USD",
   "BCH/USD", "LTC/USD"}

\* The pairs config.mjs omits: the venue does not list the asset.
Unlisted == {<<"coinbase", "TRX/USD">>, <<"binance", "HYPE/USD">>, <<"bybit", "ZEC/USD">>}

ListedOn(asset) == {v \in EXCHANGES : <<v, asset>> \notin Unlisted}

WEIGHTS ==
  [v \in EXCHANGES |-> CASE v = "binance" -> 3
                         [] v \in {"coinbase", "okx"} -> 2
                         [] v \in {"kraken", "bybit"} -> 1]

\* config.mjs: "Keep every asset on at least 3 venues".
ASSUME ThreeVenuesPerAsset ==
  \A asset \in ASSETS : Cardinality(ListedOn(asset)) >= 3
=============================================================================
