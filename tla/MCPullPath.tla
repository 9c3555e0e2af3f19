----------------------------- MODULE MCPullPath -----------------------------
(***************************************************************************)
(* Small instances of PullPath.tla: two assets whose prices differ, a key  *)
(* that may be taken off the publishers and put back.                      *)
(***************************************************************************)
EXTENDS PullPath

CONSTANTS a, b, k1, k2, trader1, trader2, oracle1, other1

MCPriceAt == [x \in Assets |-> [t \in 0..MaxTime |-> IF x = a THEN 1 + (t % 3) ELSE 5]]

\* The client's calls are not in BatchCalls, its signatures are.
MCSignatures ==
  {[key |-> ServiceKey, msg |-> Attestation(x, t)] : x \in Assets, t \in 0..MaxTime}

ServiceCalls == {UpdateArgs(<<Attestation(a, t)>>) : t \in 0..MaxTime}

\* k2 signs as well, at prices of its own.
Quote(t) == [Attestation(a, t) EXCEPT !.price = 7]

TwoKeysSignatures ==
  MCSignatures \cup {[key |-> k2, msg |-> Quote(t)] : t \in 0..MaxTime}

\* A round of k2, which may not be registered any more or yet, and one with a price that
\* was not signed; either is too early or too late at some moment.
OwnCall(t) ==
  [UpdateArgs(<<Quote(t)>>) EXCEPT !.pubkey = k2, !.sigs = <<[key |-> k2, msg |-> Quote(t)]>>]

AnyCalls ==
  {OwnCall(1),
   [UpdateArgs(<<Attestation(a, 1)>>) EXCEPT !.prices = <<6>>]}

Both     == [s \in Scripts |-> IF s = "demo" THEN {<<a, b>>} ELSE {<<a>>}]
OnlyDemo == [s \in Scripts |-> IF s = "demo" THEN {<<a>>} ELSE {}]

MCLists == {<<k1>>, <<k2>>}
MCTimeouts == [s \in Scripts |-> IF s = "demo" THEN 1 ELSE 3]
MCPolls == [s \in Scripts |-> 2]
MCDelays == [s \in Scripts |-> IF s = "demo" THEN 3 ELSE 1]
MCSkews == {-1, 1}
None == {}
=============================================================================
