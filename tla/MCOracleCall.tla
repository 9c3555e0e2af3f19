---------------------------- MODULE MCOracleCall ----------------------------
(***************************************************************************)
(* Small instance of OracleCall.tla: batches of two assets (or one listed  *)
(* twice) in two rounds, and every way a call can fail, at its first asset *)
(* or publisher and after it.                                              *)
(***************************************************************************)
EXTENDS MCOracle, OracleCall

CallStamps == <<0, 1>>

CallGood ==
  {Batch(<<a, b>>, <<3, 5>>, r, CallStamps[r], k1, k1) : r \in 1..2}
  \cup {Batch(<<b, b>>, <<4, 5>>, 2, 1, k1, k1)}

CallBatches ==
  LET two == Batch(<<b, a>>, <<5, 3>>, 2, 1, k1, k1) IN
  CallGood \cup
  {Batch(<<>>, <<>>, 2, 1, k1, k1),
   [two EXCEPT !.prices = <<5>>],
   [two EXCEPT !.prices[2] = 9],               \* out of bounds
   [two EXCEPT !.prices[2] = 4],               \* not the signed price
   [two EXCEPT !.pubkey = kx]}

Submit(assets, round, roster, column) ==
  [assets |-> assets, timestamp |-> CallStamps[round], round_id |-> round,
   rounds |-> [i \in DOMAIN roster |->
     [pubkey |-> roster[i], prices |-> column[i],
      sigs |-> [j \in DOMAIN assets |->
         Quote(roster[i], assets[j], column[i][j], round, CallStamps[round])]]]]

CallQuorums ==
  LET pair == Submit(<<a, b>>, 2, <<k2, k1>>, <<<<1, 2>>, <<5, 6>>>>) IN
  {pair,
   Submit(<<b>>, 1, <<k1>>, <<<<4>>>>),
   Submit(<<>>, 1, <<k1>>, <<<<>>>>),
   Submit(<<b>>, 2, <<k1, kx, k1>>, <<<<4>>, <<4>>, <<4>>>>),
   Submit(<<b>>, 2, <<kx, k1, k1>>, <<<<4>>, <<4>>, <<4>>>>),
   Submit(<<b>>, 2, <<k1, k2, k1>>, <<<<4>>, <<4>>, <<4>>>>),
   Submit(<<b>>, 2, <<k2, k1, k1>>, <<<<4>>, <<4>>, <<4>>>>),
   [pair EXCEPT !.rounds[2].sigs = <<>>],
   [pair EXCEPT !.rounds[2].prices[2] = 9],
   [pair EXCEPT !.rounds[2].prices[2] = 7]}

CallSignatures ==
  UNION {{c.sigs[i] : i \in DOMAIN c.sigs} : c \in CallBatches}
  \cup UNION {UNION {{c.rounds[i].sigs[j] : j \in DOMAIN c.rounds[i].sigs} :
                       i \in DOMAIN c.rounds} : c \in CallQuorums}

CallLists == {<<k1, k2>>}
CallQuorumArgs == 1..2
=============================================================================
