------------------------------ MODULE MCOracle ------------------------------
(***************************************************************************)
(* Small instances of Oracle.tla.  Prices, rounds and seconds are small    *)
(* numbers; the windows keep the order of the code's constants             *)
(* (staleness + skew <= temporary threshold < temporary extension).        *)
(***************************************************************************)
EXTENDS Oracle

CONSTANTS a, b, k1, k2, k3, kx

\* Timestamp the publishers put on each round.
Quote(k, asset, price, round, stamp) ==
  [key |-> k, msg |-> [asset |-> asset, price |-> price,
                       timestamp |-> stamp, round_id |-> round]]

\* A batch call whose signatures are those of `signer` over what it submits.
Batch(assets, prices, round, stamp, k, signer) ==
  [assets |-> assets, prices |-> prices, timestamp |-> stamp,
   round_id |-> round, pubkey |-> k,
   sigs |-> [i \in DOMAIN assets |->
               Quote(signer, assets[i], prices[i], round, stamp)]]

-----------------------------------------------------------------------------
\* MCOracleTime: one publisher, time, expiry of the temporary entries.

TimeStamps == <<1, 2, 8>>

TimeGood ==
  LET Of(assets, prices) ==
        {Batch(assets, prices, r, TimeStamps[r], k1, k1) : r \in 1..3}
  IN Of(<<a>>, <<3>>) \cup Of(<<a, b>>, <<3, 5>>) \cup Of(<<b, b>>, <<4, 5>>)

TimeBad ==
  {Batch(<<a>>, <<4>>, 2, 2, kx, kx),            \* a key nobody registered
   Batch(<<a>>, <<3>>, 2, 2, k1, kx),            \* signed by another key
   Batch(<<a>>, <<0>>, 2, 2, k1, k1),            \* price out of bounds
   Batch(<<a>>, <<9>>, 2, 2, k1, k1),
   [Batch(<<a, b>>, <<3, 5>>, 2, 2, k1, k1) EXCEPT !.prices = <<3>>],
   \* the second signature is over another price: the whole batch traps
   [Batch(<<b, a>>, <<5, 4>>, 2, 2, k1, k1) EXCEPT !.sigs[2] =
      Quote(k1, a, 3, 2, 2)]}

TimeCalls == TimeGood \cup TimeBad

TimeSignatures ==
  UNION {{c.sigs[i] : i \in DOMAIN c.sigs} : c \in TimeCalls}

\* The same rounds through the quorum entrypoint, at the default quorum of 1.
TimeQuorumCalls ==
  {[assets |-> c.assets, timestamp |-> c.timestamp, round_id |-> c.round_id,
    rounds |-> <<[pubkey |-> k1, prices |-> c.prices, sigs |-> c.sigs]>>] :
     c \in TimeGood}

NoCalls == {}
TimeLists == {<<k1>>}
NoQuorums == {}

-----------------------------------------------------------------------------
\* MCOracleQuorum: key rotation, a key registered twice, every quorum.  k1 and
\* k2 quote around 4, k3 quotes what it likes, even a price no bound allows, kx
\* is never registered; k1 signs round 2 twice, with two prices.

Quotes(k, round) ==
  CASE k = k1 -> IF round = 2 THEN {4, 6} ELSE {4}
    [] k = k2 -> {5}
    [] k = k3 -> {1, 8, 9}
    [] k = kx -> {4}

Rosters ==
  {<<>>, <<k1>>, <<k1, k1>>, <<k3, k1>>, <<k1, kx>>, <<k2, k1, k3>>, <<k1, k3, k1>>}

\* All rounds are signed for second 1.
QuorumCallsOf(roster, round) ==
  {[assets |-> <<a>>, timestamp |-> 1, round_id |-> round,
    rounds |-> [i \in DOMAIN roster |->
                  [pubkey |-> roster[i], prices |-> <<px[i]>>,
                   sigs |-> <<Quote(roster[i], a, px[i], round, 1)>>]]] :
     px \in {f \in [DOMAIN roster -> 1..9] :
             \A i \in DOMAIN roster : f[i] \in Quotes(roster[i], round)}}

QuorumGood == UNION {QuorumCallsOf(roster, r) : roster \in Rosters, r \in 1..3}

\* A round without prices, a price no bound allows, and a second publisher whose
\* signature is over another price.
QuorumBad ==
  LET base == CHOOSE c \in QuorumCallsOf(<<k3, k1>>, 3) :
                c.rounds[1].prices = <<8>> IN
  {[base EXCEPT !.rounds[2].prices = <<>>],
   [base EXCEPT !.rounds[2].prices = <<9>>],
   [base EXCEPT !.rounds[2].prices = <<3>>]}

MCQuorumCalls == QuorumGood \cup QuorumBad

QuorumBatches ==
  {Batch(<<a>>, <<4>>, r, 1, k1, k1) : r \in 2..3}
  \cup {Batch(<<a>>, <<8>>, 1, 1, k3, k3), Batch(<<a>>, <<9>>, 2, 1, k3, k3),
        Batch(<<a>>, <<4>>, 3, 1, kx, kx)}

QuorumSignatures ==
  UNION {{c.rounds[i].sigs[1] : i \in DOMAIN c.rounds} : c \in QuorumGood}

QuorumLists == {<<k1>>, <<k1, k2, k3>>, <<k1, k1>>}
MCQuorumArgs == 0..4
=============================================================================
