------------------------------ MODULE PullPath ------------------------------
(***************************************************************************)
(* One price on the pull path: the SDK's fetchLatest() and updateArgs()    *)
(* (sdk/src/client.ts) driven by the two scripts of the repository, over   *)
(* what the service serves, an RPC node, and the contracts with their      *)
(* other users.                                                            *)
(*                                                                         *)
(*   demo  examples/consumer_v0/demo.mjs: opens a position                 *)
(*   e2e   sdk/examples/e2e.mjs: updates the oracle and reads it back      *)
(*                                                                         *)
(* clock is the real time in seconds.  The client's clock is off by skew,  *)
(* and the ledger's time, now, trails by up to MaxLag where a transaction  *)
(* is applied.  Between two awaits of a script any other step may happen;  *)
(* no await has a time limit of its own.                                   *)
(***************************************************************************)
EXTENDS Consumer

CONSTANTS
  ServiceKey,             \* the publisher key of the service
  RoundsPerSecond,        \* 1000 / ROUND_WINDOW_MS
  PriceAt,                \* the price of an asset at a second
  Asks,                   \* arguments of fetchLatest in each script
  Account,                \* the account of the script, a trader
  Trading,                \* the scripts beside which others use the consumer
  FRESHNESS_LIMIT,        \* freshnessLimitSeconds
  TX_TIMEOUT,             \* setTimeout() of each script
  POLLS, POLL_DELAY,      \* getTransaction attempts and the wait before each
  Skews, MaxLag,
  MaxIngest,              \* seconds until the RPC node knows what a ledger decided
  NoReply

Scripts == {"demo", "e2e"}

ASSUME PullAssumption ==
  /\ Asks \in [Scripts -> SUBSET (Seq(Assets) \ {<<>>})]
  /\ Account \in Traders
  /\ TX_TIMEOUT \in [Scripts -> Nat]
  /\ {FRESHNESS_LIMIT, MaxLag, MaxIngest} \subseteq Nat
  /\ POLLS \in [Scripts -> Nat \ {0}]
  /\ POLL_DELAY \in [Scripts -> Nat]
  /\ Skews \subseteq Int
  /\ MaxLag <= FUTURE_SKEW_SECS
  \* 2 + 30 seconds against 60: the demo's transaction ages less than the contract allows.
  /\ FRESHNESS_LIMIT + TX_TIMEOUT["demo"] <= STALENESS_SECS
  \* 30 polls, two seconds apart, against 30 seconds.
  /\ \A s \in Skews :
       TX_TIMEOUT["demo"] + s + MaxLag + MaxIngest < POLLS["demo"] * POLL_DELAY["demo"]

VARIABLES
  clock,
  script, ask, skew,   \* fixed for the life of the client
  pc,         \* the await the script stands at
  reply,      \* the snapshot on its way to the client, or NoReply
  fresh,      \* the attestations of class Fresh, <<>> before
  deadline,   \* maxTime of the transaction
  polls, nextPoll,
  outcome,    \* what the script reports, "" while it runs
  tx,         \* the network's side of the transaction
  decidedAt   \* when it was applied, 0 before

ledger == <<vars, oracle, positions>>
given  == <<script, ask, skew>>
client == <<given, pc, reply, fresh, deadline, polls, nextPoll, outcome>>
network == <<tx, decidedAt>>
pullVars == <<ledger, clock, client, network>>

-----------------------------------------------------------------------------
\* Bound: the system is followed as long as the script or its transaction lives.
Active == pc # "ended" \/ tx = "pending"

\* The service (Keeper.tla), one poll a second.

Attestation(a, t) ==
  [asset |-> a, price |-> PriceAt[a][t], timestamp |-> t,
   round_id |-> RoundsPerSecond * t]

\* The service holds its key, and quotes what the contract's bound on prices admits.
ASSUME ServiceAssumption ==
  /\ ServiceKey \in Keys
  /\ RoundsPerSecond \in Nat \ {0}
  /\ MaxTime <= U64Max
  /\ \A a \in Assets, t \in 0..MaxTime :
       /\ PriceAt[a][t] \in 1..MAX_PRICE
       /\ [key |-> ServiceKey, msg |-> Attestation(a, t)] \in Signatures

\* What /v1/latest may serve: each asset as signed in some poll so far, and not
\* all in the same one, or not at all since the service was restarted.
Snapshots ==
  {served \in [Assets -> {Attestation(a, t) : a \in Assets, t \in 0..clock} \cup {NoEntry}] :
     \A a \in Assets : served[a] # NoEntry => served[a].asset = a}

-----------------------------------------------------------------------------
\* The SDK.

ClientClock == clock + skew

\* Fault: the age of an attestation is not looked at.
NeverStale(att) == FALSE

Stale(att) == ClientClock - att.timestamp > FRESHNESS_LIMIT

\* fetchLatest once the response is there, up to the error it throws.
FetchResult(served) ==
  IF \E i \in DOMAIN ask : served[ask[i]] = NoEntry   THEN "AssetUnavailableError"
  ELSE IF \E i \in DOMAIN ask : Stale(served[ask[i]]) THEN "StalePriceError"
  ELSE "Ok"

\* Fault: attestations of different rounds are put into one call.
AnyRound(atts) == TRUE

SameRound(atts) ==
  \A i \in DOMAIN atts : /\ atts[i].timestamp = atts[1].timestamp
                         /\ atts[i].round_id = atts[1].round_id

\* updateArgs: the asset is the one of the signed message, the stamps are those of
\* the first attestation.
UpdateArgs(atts) ==
  [assets |-> [i \in DOMAIN atts |-> atts[i].asset],
   prices |-> [i \in DOMAIN atts |-> atts[i].price],
   timestamp |-> atts[1].timestamp, round_id |-> atts[1].round_id,
   pubkey |-> ServiceKey,
   sigs |-> [i \in DOMAIN atts |-> [key |-> ServiceKey, msg |-> atts[i]]]]

\* price(): the first attestation fetched for the asset.
Fetched(asset) ==
  fresh[CHOOSE i \in DOMAIN fresh :
          /\ fresh[i].asset = asset
          /\ \A j \in DOMAIN fresh : fresh[j].asset = asset => i <= j]

-----------------------------------------------------------------------------
\* The scripts.

End(result) ==
  /\ pc' = "ended"
  /\ outcome' = result
  /\ reply' = NoReply
  /\ UNCHANGED <<given, fresh, deadline, polls, nextPoll>>

Serve ==
  /\ pc = "fetching"
  /\ reply = NoReply
  /\ reply' \in Snapshots
  /\ UNCHANGED <<ledger, clock, given, pc, fresh, deadline, polls,
                 nextPoll, outcome, network>>

\* The demo has its account before it fetches, so it builds the transaction in the
\* same step; e2e awaits getAccount() in between.
Receive ==
  LET atts == [i \in DOMAIN ask |-> reply[ask[i]]] IN
  /\ pc = "fetching"
  /\ reply # NoReply
  /\ IF FetchResult(reply) # "Ok" THEN End(FetchResult(reply))
     ELSE IF ~SameRound(atts) THEN End("InconsistentRoundError")
     ELSE /\ fresh' = atts
          /\ reply' = NoReply
          /\ IF script = "demo"
             THEN pc' = "built" /\ deadline' = ClientClock + TX_TIMEOUT[script]
             ELSE pc' = "fetched" /\ UNCHANGED deadline
          /\ UNCHANGED <<given, polls, nextPoll, outcome>>
  /\ UNCHANGED <<ledger, clock, network>>

Build ==
  /\ pc = "fetched"
  /\ pc' = "built"
  /\ deadline' = ClientClock + TX_TIMEOUT[script]
  /\ UNCHANGED <<ledger, clock, given, reply, fresh, polls, nextPoll,
                 outcome, network>>

\* What the contract the script calls answers at the ledger's state.
CallResult ==
  IF script = "demo" THEN OpenResult(UpdateArgs(fresh))
                     ELSE ArgsResult(UpdateArgs(fresh))

\* prepareTransaction simulates the call and throws what the contract refuses.
Prepare ==
  /\ pc = "built"
  /\ IF CallResult # "Ok" THEN End("SimulationError")
     ELSE /\ pc' = "prepared"
          /\ UNCHANGED <<given, reply, fresh, deadline, polls, nextPoll, outcome>>
  /\ UNCHANGED <<ledger, clock, network>>

StartPolling ==
  /\ pc' = "polling"
  /\ polls' = POLLS[script]
  /\ nextPoll' = clock + POLL_DELAY[script]
  /\ UNCHANGED <<given, reply, fresh, deadline, outcome>>

\* The demo polls whatever the status.
DemoSent == script = "demo" /\ StartPolling

\* e2e throws on ERROR, but not on TRY_AGAIN_LATER.
E2eSent ==
  /\ script = "e2e"
  /\ \/ StartPolling
     \/ tx' = "none" /\ End("SubmitError")

\* sendTransaction: the node takes the transaction or not.
Send ==
  /\ pc = "prepared"
  /\ tx' \in {"none", "pending"}
  /\ DemoSent \/ E2eSent
  /\ UNCHANGED <<ledger, clock, decidedAt>>

\* Any request may fail instead; the exception ends the script.  A transaction
\* whose submission failed may have reached the network.
RequestFails ==
  /\ pc \in {"fetching", "fetched", "built", "prepared", "polling", "landed"}
  /\ End(IF pc = "fetching" THEN "AttestationServiceError" ELSE "RpcError")
  /\ IF pc = "prepared" THEN tx' \in {"none", "pending"} ELSE UNCHANGED tx
  /\ UNCHANGED <<ledger, clock, decidedAt>>

\* What each script does with a transaction that is decided.
DemoDecided == script = "demo" /\ End(tx)

E2eDecided ==
  /\ script = "e2e"
  /\ IF tx = "FAILED" THEN End(tx)
     ELSE /\ pc' = "landed"
          /\ UNCHANGED <<given, reply, fresh, deadline, polls, nextPoll, outcome>>

Decided == tx \in {"SUCCESS", "FAILED"}

\* getTransaction, POLL_DELAY after the last answer, POLLS times at most.  The node
\* that answers may be behind the network.
Poll ==
  /\ pc = "polling"
  /\ clock >= nextPoll
  /\ \/ Decided /\ (DemoDecided \/ E2eDecided)
     \/ /\ Decided => clock <= decidedAt + MaxIngest
        /\ IF polls = 1 THEN End("NOT_FOUND")
           ELSE /\ polls' = polls - 1
                /\ nextPoll' = clock + POLL_DELAY[script]
                /\ UNCHANGED <<given, pc, reply, fresh, deadline, outcome>>
  /\ UNCHANGED <<ledger, clock, network>>

\* e2e reads get_price and compares it with what it fetched.
ReadBack ==
  LET entry == tempLive[ask[1]] IN
  /\ pc = "landed"
  /\ End(IF entry = NoEntry THEN "SimulationError"
         ELSE IF entry.price = Fetched(ask[1]).price THEN "verified" ELSE "mismatch")
  /\ UNCHANGED <<ledger, clock, network>>

-----------------------------------------------------------------------------
\* The network.

Tick ==
  /\ Active
  /\ clock < MaxTime
  /\ clock' = clock + 1
  /\ UNCHANGED <<ledger, client, network>>

\* A ledger is applied at most MaxLag seconds after its close time.
Recent(time) == time <= clock /\ clock - time <= MaxLag

Close ==
  /\ Active
  /\ CloseLedger
  /\ Recent(now')
  /\ UNCHANGED <<oracle, positions, clock, client, network>>

\* Fault: transactions are built without a time limit.
NoTimeLimit == TRUE

InTime == now <= deadline

\* The transaction is applied, and its outcome recorded.
Land ==
  LET c == UpdateArgs(fresh) IN
  /\ tx = "pending"
  /\ Recent(now)
  /\ InTime
  /\ decidedAt' = clock
  /\ IF CallResult # "Ok" THEN tx' = "FAILED" /\ UNCHANGED ledger
     ELSE /\ tx' = "SUCCESS"
          /\ IF script = "demo" THEN \E size \in Sizes : OpenPosition(Account, size, c)
             ELSE UpdateBatchArgs(c) /\ UNCHANGED <<oracle, positions>>
  /\ UNCHANGED <<clock, client>>

\* What anybody can submit: any arguments, right or wrong, with any signatures but
\* those the service has yet to make.
Submittable ==
  {c \in BatchCalls : \A i \in DOMAIN c.sigs :
     c.sigs[i].key = ServiceKey => c.sigs[i].msg.timestamp <= clock}

\* Other users update the oracle, open positions of their own (open_position wants
\* the trader's authorization) and initialise the consumer; the admin replaces
\* publishers.  To the oracle a position is an update, so Trading, a bound, may leave
\* the consumer out beside e2e, which does not use it.
Others ==
  /\ Active
  /\ \/ /\ Recent(now)
        /\ \E c \in Submittable : UpdateBatchArgs(c)
        /\ UNCHANGED <<oracle, positions>>
     \/ /\ script \in Trading
        /\ Recent(now)
        /\ \E trader \in Traders \ {Account}, size \in Sizes, c \in Submittable :
             OpenPosition(trader, size, c)
     \/ /\ script \in Trading
        /\ \E address \in Addresses : InitConsumer(address)
     \/ \E list \in PublisherLists : SetPublishers(list) /\ UNCHANGED <<oracle, positions>>
  /\ UNCHANGED <<clock, client, network>>

PullInit ==
  /\ ConsumerInit
  /\ clock = 0
  /\ script \in Scripts /\ ask \in Asks[script] /\ skew \in Skews
  /\ pc = "fetching" /\ reply = NoReply /\ fresh = <<>>
  /\ deadline = 0 /\ polls = 0 /\ nextPoll = 0
  /\ outcome = "" /\ tx = "none" /\ decidedAt = 0

PullNext ==
  \/ Serve \/ Receive \/ Build \/ Prepare \/ Send \/ RequestFails
  \/ Poll \/ ReadBack
  \/ Tick \/ Close \/ Land \/ Others

PullSpec == PullInit /\ [][PullNext]_pullVars

-----------------------------------------------------------------------------
\* What reaches the contract.

\* What the demo's client accepted, the contract accepts: from the moment the call
\* is built until its transaction expires, whatever was signed, restarted or stored
\* meanwhile, a ledger refuses it only if the publisher's key was taken away.  A
\* stale attestation, a mixed batch or a stamp ahead of the ledger never gets there.
ClientAcceptsWhatContractAccepts ==
  /\ script = "demo"
  /\ fresh # <<>> /\ Recent(now) /\ InTime
  => ArgsResult(UpdateArgs(fresh)) \in {"Ok", "UnknownPublisher"}

\* The script's position is priced at most FRESHNESS_LIMIT + TX_TIMEOUT seconds
\* after the price was signed, well inside the contract's own bound: freshness is
\* checked once, at fetch, but by the clock that also dates the transaction's limit,
\* so the client's clock may be wrong.
PositionAgeBounded ==
  [][positions'[Account] # positions[Account] =>
       now - positions'[Account].entry_timestamp
         <= FRESHNESS_LIMIT + TX_TIMEOUT["demo"]]_pullVars

\* When the demo has given up waiting and reports NOT_FOUND, its transaction has not
\* opened a position and never will, although the node it asked may have been behind:
\* running the script again cannot open a second one.
GiveUpIsFinal ==
  script = "demo" /\ outcome = "NOT_FOUND" => tx # "SUCCESS"

\* How long what an update wrote or met stays: extend_ttl left it more than
\* TEMP_THRESHOLD ledgers, but up to FUTURE_SKEW_SECS before its own timestamp, a no-op
\* may meet it when it is STALENESS_SECS old, and the ledger may be MaxLag behind.
ReadBackTime == TEMP_THRESHOLD + 1 - STALENESS_SECS - FUTURE_SKEW_SECS - MaxLag

\* When e2e learns that its update landed, and for ReadBackTime seconds from its
\* landing, the oracle holds its round or a newer one: its call may have been the
\* silent no-op on an entry about to expire.
ReadBackNotOlder ==
  CoherentSigning /\ pc = "landed" /\ clock <= decidedAt + ReadBackTime =>
    \A i \in DOMAIN fresh :
      /\ tempLive[fresh[i].asset] # NoEntry
      /\ tempLive[fresh[i].asset].round_id >= fresh[i].round_id
=============================================================================
