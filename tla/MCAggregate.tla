---------------------------- MODULE MCAggregate ----------------------------
(***************************************************************************)
(* The board of one asset for each set of venues that occurs in            *)
(* config.mjs, at the real weights: every row of absent, stale and fresh   *)
(* samples.  Quotes of the first moment are stale at the second.           *)
(***************************************************************************)
EXTENDS Board, Config

\* Tags of every length, one a prefix of another and two that differ in their
\* last byte.
MCTag == [x \in {"BTC/USD", "TRX/USD", "HYPE/USD", "ZEC/USD"} |->
            CASE x = "BTC/USD" -> <<1, 2, 3>> [] x = "TRX/USD" -> <<1, 2>>
              [] x = "HYPE/USD" -> <<1, 2, 1>> [] x = "ZEC/USD" -> <<3>>]

MCListing == [x \in DOMAIN MCTag |-> ListedOn(x)]
=============================================================================
