--------------------------- MODULE PullPathProofs ---------------------------
(***************************************************************************)
(* Theorems about the pull path, for every skew of the client's clock and  *)
(* every lag of the ledger that PullAssumption admits, every asset list    *)
(* and any number of other users.                                          *)
(***************************************************************************)
EXTENDS PullPath, OracleProofs

-----------------------------------------------------------------------------
\* What the service signs, and the calls made of it.

\* Every attestation the service can have signed.
Atts == {Attestation(a, t) : a \in Assets, t \in 0..MaxTime}

LEMMA AttestationIs ==
  ASSUME NEW x \in Atts
  PROVE  /\ x.asset \in Assets /\ x.price \in 1..MAX_PRICE
         /\ x.timestamp \in 0..MaxTime /\ x.round_id \in Nat
         /\ x = [asset |-> x.asset, price |-> x.price,
                 timestamp |-> x.timestamp, round_id |-> x.round_id]
         /\ [key |-> ServiceKey, msg |-> x] \in Signatures
<1>1. PICK a \in Assets, t \in 0..MaxTime : x = Attestation(a, t)
  BY DEF Atts
<1>2. RoundsPerSecond * t \in Nat
  BY ServiceAssumption
<1>3. PriceAt[a][t] \in 1..MAX_PRICE /\ [key |-> ServiceKey, msg |-> x] \in Signatures
  BY <1>1, ServiceAssumption
<1> QED BY <1>1, <1>2, <1>3 DEF Attestation

\* updateArgs makes a well-formed call of any attestations.
LEMMA UpdateArgsIsCall ==
  ASSUME NEW n \in Nat \ {0}, NEW atts \in [1..n -> Atts]
  PROVE  /\ UpdateArgs(atts) \in BatchCall
         /\ Aligned(UpdateArgs(atts), UpdateArgs(atts).prices, UpdateArgs(atts).sigs)
         /\ AllPricesOk(UpdateArgs(atts).prices)
<1> DEFINE assets == [i \in DOMAIN atts |-> atts[i].asset]
           prices == [i \in DOMAIN atts |-> atts[i].price]
           sigs == [i \in DOMAIN atts |-> [key |-> ServiceKey, msg |-> atts[i]]]
<1>1. \A i \in 1..n : /\ atts[i].asset \in Assets
                      /\ atts[i].price \in 1..MAX_PRICE
                      /\ atts[i].timestamp \in Nat /\ atts[i].round_id \in Nat
                      /\ [key |-> ServiceKey, msg |-> atts[i]] \in Signatures
  BY AttestationIs
<1>2. /\ assets \in [1..n -> Assets] /\ prices \in [1..n -> 1..MAX_PRICE]
      /\ sigs \in [1..n -> Signatures]
  BY <1>1
<1>3. 1 \in 1..n /\ MAX_PRICE \in Nat
  BY ParametersAssumption
<1> DEFINE c == UpdateArgs(atts)
<1>4. /\ c = [assets |-> assets, prices |-> prices, timestamp |-> atts[1].timestamp,
              round_id |-> atts[1].round_id, pubkey |-> ServiceKey, sigs |-> sigs]
      /\ c.assets = assets /\ c.prices = prices /\ c.sigs = sigs
  BY DEF UpdateArgs
<1> HIDE DEF assets, prices, sigs, c
<1>5. assets \in Seq(Assets) /\ Len(assets) = n
  BY <1>2
<1>6. prices \in Seq(Int) /\ Len(prices) = n
  <2>1. prices \in [1..n -> Int]
    BY <1>2, <1>3
  <2> QED BY <2>1
<1>7. sigs \in Seq(Signatures) /\ Len(sigs) = n
  BY <1>2
<1>8. \A i \in DOMAIN prices : PriceOk(prices[i])
  BY <1>2, <1>3 DEF PriceOk
<1>9. c \in BatchCall
  BY <1>1, <1>3, <1>4, <1>5, <1>6, <1>7, ServiceAssumption DEF BatchCall
<1>10. Aligned(c, c.prices, c.sigs) /\ AllPricesOk(c.prices)
  BY <1>4, <1>5, <1>6, <1>7, <1>8 DEF Aligned, AllPricesOk
<1> QED BY <1>9, <1>10 DEF c

\* When they are of one round, every signature verifies.
LEMMA UpdateArgsVerify ==
  ASSUME NEW n \in Nat \ {0}, NEW atts \in [1..n -> Atts], SameRound(atts)
  PROVE  LET c == UpdateArgs(atts) IN AllVerify(c, c.pubkey, c.prices, c.sigs)
<1> SUFFICES ASSUME NEW i \in 1..n
             PROVE  Verifies(ServiceKey, atts[i].asset, atts[i].price,
                             atts[1].timestamp, atts[1].round_id,
                             [key |-> ServiceKey, msg |-> atts[i]])
  BY DEF AllVerify, UpdateArgs
<1>1. atts[i] \in Atts
  OBVIOUS
<1>2. atts[i] = [asset |-> atts[i].asset, price |-> atts[i].price,
                 timestamp |-> atts[i].timestamp, round_id |-> atts[i].round_id]
  BY <1>1, AttestationIs
<1>3. atts[i].timestamp = atts[1].timestamp /\ atts[i].round_id = atts[1].round_id
  BY DEF SameRound
<1> QED BY <1>2, <1>3 DEF Verifies

-----------------------------------------------------------------------------
\* The invariant.

Times ==
  /\ now <= clock /\ clock \in 0..MaxTime
  /\ script \in Scripts /\ ask \in Asks[script] /\ skew \in Skews

\* Which stages the script and its transaction are in together.
Stages ==
  /\ pc \in {"fetching", "fetched", "built", "prepared", "polling", "landed", "ended"}
  /\ tx \in {"none", "pending", "SUCCESS", "FAILED"}
  /\ pc \in {"fetching", "fetched", "built", "prepared"} => tx = "none"
  /\ pc = "fetching" => fresh = <<>>
  /\ pc \in {"fetched", "built", "prepared"} \/ tx # "none" => fresh # <<>>
  /\ pc = "fetched" => script = "e2e"
  /\ pc = "landed" => script = "e2e" /\ tx = "SUCCESS"
  /\ outcome = "NOT_FOUND" => pc = "ended"
  /\ decidedAt \in Nat

\* What was fetched was signed by now, in one round.
Fetches ==
  /\ reply # NoReply => reply \in Snapshots
  /\ fresh # <<>> => /\ fresh \in [DOMAIN ask -> {x \in Atts : x.timestamp <= clock}]
                     /\ SameRound(fresh)

\* No ledger applies the transaction any more.
Expired == deadline + MaxLag < clock

\* What the demo still waits for, in seconds from deadline.
LastPoll == nextPoll + (polls - 1) * POLL_DELAY["demo"]

\* A transaction is decided by its deadline.  The demo's expires before its price is
\* too old, and its node knows what was decided before the demo stops polling for it.
Deadlines ==
  /\ deadline \in Int
  /\ Decided => decidedAt <= deadline + MaxLag
  /\ script = "demo" =>
       /\ fresh # <<>> =>
            deadline <= fresh[1].timestamp + FRESHNESS_LIMIT + TX_TIMEOUT["demo"]
       /\ pc \in {"built", "prepared"} => deadline <= clock + skew + TX_TIMEOUT["demo"]
       /\ pc = "polling" =>
            /\ polls \in Nat \ {0} /\ nextPoll \in Nat
            /\ deadline + MaxLag + MaxIngest < LastPoll
       /\ outcome = "NOT_FOUND" => Expired /\ tx # "SUCCESS"

ClientInv == Times /\ Stages /\ Fetches /\ Deadlines
PullInv == Inv /\ ClientInv

LEMMA GivenTypes ==
  ASSUME Times
  PROVE  /\ now <= clock /\ clock \in Nat /\ clock <= MaxTime
         /\ skew \in Int
         /\ ask \in Seq(Assets) /\ Len(ask) \in Nat \ {0} /\ DOMAIN ask = 1..Len(ask)
         /\ TX_TIMEOUT["demo"] \in Nat /\ FRESHNESS_LIMIT \in Nat
         /\ MaxLag \in Nat /\ MaxIngest \in Nat
         /\ POLL_DELAY["demo"] \in Nat /\ POLLS["demo"] \in Nat \ {0}
<1>1. /\ skew \in Int
      /\ TX_TIMEOUT["demo"] \in Nat /\ FRESHNESS_LIMIT \in Nat
      /\ MaxLag \in Nat /\ MaxIngest \in Nat
      /\ POLL_DELAY["demo"] \in Nat /\ POLLS["demo"] \in Nat \ {0}
  BY PullAssumption DEF Times, Scripts
<1>2. ask \in Seq(Assets) \ {<<>>}
  BY PullAssumption DEF Times
<1> QED BY <1>1, <1>2, EmptySeq, ParametersAssumption DEF Times

LEMMA FreshCall ==
  ASSUME ClientInv, fresh # <<>>
  PROVE  /\ Len(ask) \in Nat \ {0}
         /\ fresh \in [1..Len(ask) -> Atts]
         /\ SameRound(fresh)
         /\ fresh[1] \in Atts /\ fresh[1].timestamp \in Nat
         /\ fresh[1].timestamp <= clock
         /\ UpdateArgs(fresh) \in BatchCall
         /\ DOMAIN UpdateArgs(fresh).assets = 1..Len(ask)
         /\ UpdateArgs(fresh).timestamp = fresh[1].timestamp
<1>1. Len(ask) \in Nat \ {0} /\ DOMAIN ask = 1..Len(ask)
  BY GivenTypes DEF ClientInv
<1>2. fresh \in [1..Len(ask) -> Atts] /\ SameRound(fresh)
  BY <1>1 DEF ClientInv, Fetches
<1>3. fresh[1] \in Atts /\ fresh[1].timestamp <= clock
  BY <1>1 DEF ClientInv, Fetches
<1>4. fresh[1].timestamp \in Nat
  <2>1. fresh[1].timestamp \in 0..MaxTime
    BY <1>3, AttestationIs
  <2> QED BY <2>1
<1>5. UpdateArgs(fresh) \in BatchCall
  BY <1>1, <1>2, UpdateArgsIsCall
<1>6. /\ UpdateArgs(fresh).timestamp = fresh[1].timestamp
      /\ DOMAIN UpdateArgs(fresh).assets = 1..Len(ask)
  BY <1>2 DEF UpdateArgs
<1> QED BY <1>1, <1>2, <1>3, <1>4, <1>5, <1>6

-----------------------------------------------------------------------------
\* The ledger's side.

\* A step of the pull path takes one of three steps of the oracle, or none.
LEMMA LedgerSteps ==
  ASSUME PullInv, [PullNext]_pullVars
  PROVE  \/ UNCHANGED vars
         \/ CloseLedger
         \/ \E list \in PublisherLists : SetPublishers(list)
         \/ \E c \in BatchCall : UpdateBatchArgs(c)
<1>1. ASSUME UNCHANGED ledger
      PROVE  UNCHANGED vars
  BY <1>1 DEF ledger
<1>2. CASE Serve
  BY <1>1, <1>2 DEF Serve
<1>3. CASE Receive
  BY <1>1, <1>3 DEF Receive
<1>4. CASE Build
  BY <1>1, <1>4 DEF Build
<1>5. CASE Prepare
  BY <1>1, <1>5 DEF Prepare
<1>6. CASE Send
  BY <1>1, <1>6 DEF Send
<1>7. CASE RequestFails
  BY <1>1, <1>7 DEF RequestFails
<1>8. CASE Poll
  BY <1>1, <1>8 DEF Poll
<1>9. CASE ReadBack
  BY <1>1, <1>9 DEF ReadBack
<1>10. CASE Tick
  BY <1>1, <1>10 DEF Tick
<1>11. CASE Close
  BY <1>11 DEF Close
<1>12. CASE Land
  <2>1. UpdateArgs(fresh) \in BatchCall
    BY <1>12, FreshCall DEF Land, PullInv, ClientInv, Stages
  <2> QED BY <1>1, <1>12, <2>1 DEF Land, OpenPosition, Invoked
<1>13. CASE Others
  <2>1. Submittable \subseteq BatchCall
    BY CallsAssumption DEF Submittable
  <2>2. CASE \E c \in Submittable : UpdateBatchArgs(c)
    BY <2>1, <2>2
  <2>3. CASE \E trader \in Traders \ {Account}, size \in Sizes, c \in Submittable :
               OpenPosition(trader, size, c)
    BY <2>1, <2>3 DEF OpenPosition, Invoked
  <2>4. CASE \E address \in Addresses : InitConsumer(address)
    BY <2>4 DEF InitConsumer
  <2> QED BY <1>13, <2>2, <2>3, <2>4 DEF Others
<1>14. CASE UNCHANGED pullVars
  BY <1>1, <1>14 DEF pullVars
<1> QED BY <1>2, <1>3, <1>4, <1>5, <1>6, <1>7, <1>8, <1>9, <1>10, <1>11, <1>12,
           <1>13, <1>14 DEF PullNext

LEMMA LedgerInv ==
  ASSUME PullInv, [PullNext]_pullVars
  PROVE  Inv'
<1>1. Inv
  BY DEF PullInv
<1>2. CASE UNCHANGED vars
  BY <1>1, <1>2 DEF vars, Inv, TypeOK, RingMatchesLatest
<1> QED BY <1>1, <1>2, LedgerSteps, CloseLedgerInv, SetPublishersInv, UpdateBatchArgsInv

-----------------------------------------------------------------------------
\* The client's side, action by action.

LEMMA InitPullInv == PullInit => PullInv
<1> SUFFICES ASSUME PullInit PROVE Inv /\ ClientInv
  BY DEF PullInv
<1>1. Inv
  BY InitInv DEF PullInit, ConsumerInit
<1>2. now = 0 /\ clock = 0
  BY DEF PullInit, ConsumerInit, Init
<1>3. Times
  <2>1. 0 \in 0..MaxTime /\ 0 <= 0
    BY ParametersAssumption
  <2>2. script \in Scripts /\ ask \in Asks[script] /\ skew \in Skews
    BY DEF PullInit
  <2> QED BY <1>2, <2>1, <2>2 DEF Times
<1>4. /\ pc = "fetching" /\ reply = NoReply /\ fresh = <<>>
      /\ deadline = 0 /\ outcome # "NOT_FOUND" /\ tx = "none" /\ decidedAt = 0
  BY DEF PullInit
<1>5. Stages /\ Fetches
  BY <1>4 DEF Stages, Fetches
<1>6. Deadlines
  BY <1>4 DEF Deadlines, Decided
<1> QED BY <1>1, <1>3, <1>5, <1>6 DEF ClientInv

\* What was served and fetched by now was served and fetched by then.
LEMMA FetchesKept ==
  ASSUME Fetches, clock \in Nat, clock' \in Nat, clock <= clock',
         UNCHANGED <<ask, fresh>>, reply' \in {reply, NoReply}
  PROVE  Fetches'
<1>1. 0..clock \subseteq 0..clock'
  OBVIOUS
<1>2. Snapshots \subseteq Snapshots'
  <2> SUFFICES ASSUME NEW served \in Snapshots PROVE served \in Snapshots'
    OBVIOUS
  <2>1. {Attestation(a, t) : a \in Assets, t \in 0..clock}
          \subseteq {Attestation(a, t) : a \in Assets, t \in 0..clock'}
    BY <1>1
  <2> QED BY <2>1 DEF Snapshots, Attestation
<1>3. reply' # NoReply => reply' \in Snapshots'
  BY <1>2 DEF Fetches
<1>4. {x \in Atts : x.timestamp <= clock} \subseteq {x \in Atts : x.timestamp <= clock'}
  <2> SUFFICES ASSUME NEW x \in Atts, x.timestamp <= clock PROVE x.timestamp <= clock'
    OBVIOUS
  <2>1. x.timestamp \in 0..MaxTime
    BY AttestationIs
  <2> QED BY <2>1, ParametersAssumption
<1>5. fresh' # <<>> => /\ fresh' \in [DOMAIN ask' -> {x \in Atts : x.timestamp <= clock'}]
                       /\ SameRound(fresh')
  BY <1>4 DEF Fetches
<1> QED BY <1>3, <1>5 DEF Fetches, Atts, Attestation, SameRound

\* A script that ends.
LEMMA EndInv ==
  ASSUME ClientInv, NEW result, End(result),
         result = "NOT_FOUND" /\ script = "demo" => Expired /\ tx' # "SUCCESS",
         tx' = tx \/ (pc = "prepared" /\ tx' \in {"none", "pending"}),
         UNCHANGED <<now, clock, decidedAt>>
  PROVE  ClientInv'
<1>1. clock \in Nat
  BY GivenTypes DEF ClientInv
<1>2. /\ UNCHANGED <<script, ask, skew, fresh, deadline, polls, nextPoll>>
      /\ pc' = "ended" /\ outcome' = result /\ reply' = NoReply
  BY DEF End, given
<1>3. Times'
  BY <1>2 DEF ClientInv, Times
<1>4. Stages'
  BY <1>2 DEF ClientInv, Stages
<1>5. Fetches'
  BY <1>1, <1>2, FetchesKept DEF ClientInv
<1>6. Deadlines'
  BY <1>2 DEF ClientInv, Stages, Deadlines, Expired, Decided
<1> QED BY <1>3, <1>4, <1>5, <1>6 DEF ClientInv

\* The network's steps leave the client alone, and time does not run backwards.
LEMMA NetworkInv ==
  ASSUME ClientInv, UNCHANGED client, clock \in Nat, clock' \in 0..MaxTime,
         clock <= clock', now' <= clock',
         \/ UNCHANGED network
         \/ /\ tx = "pending" /\ tx' \in {"SUCCESS", "FAILED"}
            /\ decidedAt' = clock /\ clock <= deadline + MaxLag
  PROVE  ClientInv'
<1>1. UNCHANGED <<script, ask, skew, pc, reply, fresh, deadline, polls, nextPoll, outcome>>
  BY DEF client, given
<1>2. Times'
  BY <1>1 DEF ClientInv, Times
<1>3. Stages'
  BY <1>1 DEF ClientInv, Stages, network
<1>4. Fetches'
  BY <1>1, FetchesKept, ParametersAssumption DEF ClientInv
<1>5. Deadlines'
  <2>1. /\ deadline \in Int /\ MaxLag \in Nat /\ clock' \in Nat
        /\ Expired => Expired' /\ ~ (clock <= deadline + MaxLag)
    BY <1>1, GivenTypes, ParametersAssumption DEF ClientInv, Deadlines, Expired
  <2>2. /\ LastPoll' = LastPoll
        /\ pc' \in {"built", "prepared"} /\ script' = "demo" =>
             deadline' <= clock' + skew' + TX_TIMEOUT["demo"]
    BY <1>1, <2>1, GivenTypes DEF ClientInv, Deadlines, LastPoll
  <2>3. Decided' => decidedAt' <= deadline' + MaxLag
    BY <1>1 DEF ClientInv, Deadlines, Decided, network
  <2>4. script' = "demo" /\ outcome' = "NOT_FOUND" => Expired' /\ tx' # "SUCCESS"
    BY <1>1, <2>1 DEF ClientInv, Deadlines, network
  <2> QED BY <1>1, <2>1, <2>2, <2>3, <2>4 DEF ClientInv, Deadlines
<1> QED BY <1>2, <1>3, <1>4, <1>5 DEF ClientInv

LEMMA ServeInv ==
  ASSUME ClientInv, Serve
  PROVE  ClientInv'
<1>1. /\ UNCHANGED <<now, clock, script, ask, skew, pc, fresh, deadline, polls,
                     nextPoll, outcome, tx, decidedAt>>
      /\ reply' \in Snapshots
  BY DEF Serve, ledger, vars, given, network
<1>2. Times' /\ Stages'
  BY <1>1 DEF ClientInv, Times, Stages
<1>3. Fetches'
  <2>1. Snapshots' = Snapshots /\ SameRound(fresh') = SameRound(fresh)
    BY <1>1 DEF Snapshots, SameRound
  <2> QED BY <1>1, <2>1 DEF ClientInv, Fetches
<1>4. Deadlines'
  BY <1>1 DEF ClientInv, Deadlines, Expired, Decided, LastPoll
<1> QED BY <1>2, <1>3, <1>4 DEF ClientInv

\* What fetchLatest returns was signed by now, and is fresh by the client's clock.
LEMMA FetchedIsFresh ==
  ASSUME ClientInv, reply # NoReply, FetchResult(reply) = "Ok"
  PROVE  LET atts == [i \in DOMAIN ask |-> reply[ask[i]]] IN
         /\ atts \in [DOMAIN ask -> {x \in Atts : x.timestamp <= clock}]
         /\ atts # <<>>
         /\ clock + skew - atts[1].timestamp <= FRESHNESS_LIMIT
<1> DEFINE atts == [i \in DOMAIN ask |-> reply[ask[i]]]
<1>1. /\ clock \in Nat /\ clock <= MaxTime
      /\ ask \in Seq(Assets) /\ Len(ask) \in Nat \ {0} /\ DOMAIN ask = 1..Len(ask)
  BY GivenTypes DEF ClientInv
<1>2. reply \in Snapshots
  BY DEF ClientInv, Fetches
<1>3. \A i \in DOMAIN ask : reply[ask[i]] # NoEntry /\ ~Stale(reply[ask[i]])
  BY DEF FetchResult
<1>4. ASSUME NEW i \in DOMAIN ask
      PROVE  reply[ask[i]] \in Atts /\ reply[ask[i]].timestamp <= clock
  <2>1. ask[i] \in Assets
    BY <1>1
  <2>2. reply[ask[i]] \in {Attestation(a, t) : a \in Assets, t \in 0..clock}
    BY <1>2, <1>3, <2>1 DEF Snapshots
  <2>3. PICK a \in Assets, t \in 0..clock : reply[ask[i]] = Attestation(a, t)
    BY <2>2
  <2>4. t \in 0..MaxTime
    BY <1>1, ParametersAssumption
  <2> QED BY <2>3, <2>4 DEF Atts, Attestation
<1>5. 1 \in DOMAIN ask
  BY <1>1
<1>6. atts # <<>>
  <2>1. DOMAIN atts # {}
    BY <1>5
  <2> QED BY <2>1
<1>7. clock + skew - atts[1].timestamp <= FRESHNESS_LIMIT
  <2>1. atts[1] \in Atts
    BY <1>4, <1>5
  <2>2. atts[1].timestamp \in 0..MaxTime
    BY <2>1, AttestationIs
  <2>3. skew \in Int /\ FRESHNESS_LIMIT \in Nat
    BY GivenTypes DEF ClientInv
  <2>4. ~Stale(atts[1])
    BY <1>3, <1>5
  <2> HIDE DEF atts
  <2> QED BY <1>1, <2>2, <2>3, <2>4 DEF Stale, ClientClock
<1>8. atts \in [DOMAIN ask -> {x \in Atts : x.timestamp <= clock}]
  BY <1>4
<1> QED BY <1>6, <1>7, <1>8

LEMMA ReceiveInv ==
  ASSUME ClientInv, Receive
  PROVE  ClientInv'
<1> DEFINE atts == [i \in DOMAIN ask |-> reply[ask[i]]]
<1>1. /\ UNCHANGED <<now, clock, tx, decidedAt>>
      /\ pc = "fetching" /\ reply # NoReply
  BY DEF Receive, ledger, vars, network
<1>2. CASE End(FetchResult(reply)) \/ End("InconsistentRoundError")
  <2>1. FetchResult(reply) # "NOT_FOUND"
    BY DEF FetchResult
  <2> QED BY <1>1, <1>2, <2>1, EndInv
<1>3. CASE /\ FetchResult(reply) = "Ok" /\ SameRound(atts)
           /\ fresh' = atts
           /\ reply' = NoReply
           /\ IF script = "demo"
              THEN pc' = "built" /\ deadline' = ClientClock + TX_TIMEOUT[script]
              ELSE pc' = "fetched" /\ UNCHANGED deadline
           /\ UNCHANGED <<given, polls, nextPoll, outcome>>
  <2>1. /\ atts \in [DOMAIN ask -> {x \in Atts : x.timestamp <= clock}]
        /\ atts # <<>>
        /\ clock + skew - atts[1].timestamp <= FRESHNESS_LIMIT
    BY <1>1, <1>3, FetchedIsFresh
  <2>2. /\ clock \in Nat /\ skew \in Int
        /\ TX_TIMEOUT["demo"] \in Nat /\ FRESHNESS_LIMIT \in Nat
        /\ Len(ask) \in Nat \ {0} /\ DOMAIN ask = 1..Len(ask)
    BY GivenTypes DEF ClientInv
  <2>3. atts[1] \in Atts
    BY <2>1, <2>2
  <2>4. atts[1].timestamp \in 0..MaxTime
    BY <2>3, AttestationIs
  <2> HIDE DEF atts
  <2>5. /\ UNCHANGED <<script, ask, skew, polls, nextPoll, outcome>>
        /\ tx = "none"
        /\ script \in Scripts
    BY <1>1, <1>3 DEF given, ClientInv, Stages, Times
  <2>6. Times' /\ Stages'
    BY <1>1, <1>3, <2>1, <2>5 DEF ClientInv, Times, Stages, Scripts
  <2>7. Fetches'
    <3>1. SameRound(fresh') /\ Atts' = Atts
      BY <1>3 DEF SameRound, Atts, Attestation
    <3> QED BY <1>1, <1>3, <2>1, <2>5, <3>1 DEF Fetches
  <2>8. Deadlines'
    <3>0. ~Decided'
      BY <1>1, <2>5 DEF Decided
    <3>1. CASE script = "demo"
      <4>1. /\ pc' = "built" /\ fresh' = atts
            /\ deadline' = clock + skew + TX_TIMEOUT["demo"]
        BY <1>3, <3>1 DEF ClientClock
      <4>2. deadline' \in Int
        BY <2>2, <4>1
      <4>3. deadline' <= fresh'[1].timestamp + FRESHNESS_LIMIT + TX_TIMEOUT["demo"]
        BY <2>1, <2>2, <2>4, <4>1, SMTT(30)
      <4>4. deadline' <= clock' + skew' + TX_TIMEOUT["demo"]
        BY <1>1, <2>2, <2>5, <4>1
      <4>5. outcome' # "NOT_FOUND"
        BY <1>1, <2>5 DEF ClientInv, Stages
      <4> QED BY <3>0, <4>1, <4>2, <4>3, <4>4, <4>5 DEF Deadlines
    <3>2. CASE script # "demo"
      BY <1>3, <2>5, <3>0, <3>2 DEF ClientInv, Deadlines
    <3> QED BY <3>1, <3>2
  <2> QED BY <2>6, <2>7, <2>8 DEF ClientInv
<1> QED BY <1>2, <1>3 DEF Receive

\* A script that goes on with what it fetched.
LEMMA SameFetchInv ==
  ASSUME ClientInv, Stages', Deadlines',
         UNCHANGED <<now, clock, script, ask, skew, reply, fresh>>
  PROVE  ClientInv'
<1>1. Times'
  BY DEF ClientInv, Times
<1>2. Fetches'
  BY FetchesKept, GivenTypes DEF ClientInv
<1> QED BY <1>1, <1>2 DEF ClientInv

LEMMA BuildInv ==
  ASSUME ClientInv, Build
  PROVE  ClientInv'
<1>1. /\ UNCHANGED <<now, clock, script, ask, skew, reply, fresh, polls, nextPoll,
                     outcome, tx, decidedAt>>
      /\ pc = "fetched" /\ pc' = "built"
      /\ deadline' = clock + skew + TX_TIMEOUT[script]
  BY DEF Build, ledger, vars, given, ClientClock, network
<1>2. script = "e2e" /\ tx = "none"
  BY <1>1 DEF ClientInv, Stages
<1>3. Stages'
  BY <1>1 DEF ClientInv, Stages
<1>4. deadline' \in Int
  <2>1. /\ TX_TIMEOUT["e2e"] \in Nat
    BY PullAssumption DEF Scripts
  <2> QED BY <1>1, <1>2, <2>1, GivenTypes DEF ClientInv
<1>5. Deadlines'
  BY <1>1, <1>2, <1>4 DEF Deadlines, Decided
<1> QED BY <1>1, <1>3, <1>5, SameFetchInv

LEMMA PrepareInv ==
  ASSUME ClientInv, Prepare
  PROVE  ClientInv'
<1>1. UNCHANGED <<now, clock, tx, decidedAt>> /\ pc = "built"
  BY DEF Prepare, ledger, vars, network
<1>2. CASE End("SimulationError")
  BY <1>1, <1>2, EndInv
<1>3. CASE /\ pc' = "prepared"
           /\ UNCHANGED <<given, reply, fresh, deadline, polls, nextPoll, outcome>>
  <2>1. UNCHANGED <<script, ask, skew>>
    BY <1>3 DEF given
  <2>2. Stages'
    BY <1>1, <1>3, <2>1 DEF ClientInv, Stages
  <2>3. Deadlines'
    BY <1>1, <1>3, <2>1 DEF ClientInv, Deadlines, Expired, Decided
  <2> QED BY <1>1, <1>3, <2>1, <2>2, <2>3, SameFetchInv
<1> QED BY <1>2, <1>3 DEF Prepare

\* The polls left take longer than the transaction's limit, by any admitted clock.
LEMMA StartPollingInv ==
  ASSUME ClientInv, pc = "prepared", StartPolling, tx' \in {"none", "pending"},
         UNCHANGED <<now, clock, decidedAt>>
  PROVE  ClientInv'
<1> DEFINE n == POLLS["demo"]
           d == POLL_DELAY["demo"]
<1>1. /\ UNCHANGED <<script, ask, skew, reply, fresh, deadline, outcome>>
      /\ pc' = "polling"
      /\ script = "demo" => polls' = n /\ nextPoll' = clock + d
  BY DEF StartPolling, given
<1>2. /\ clock \in Nat /\ skew \in Skews /\ skew \in Int /\ deadline \in Int
      /\ TX_TIMEOUT["demo"] \in Nat /\ MaxLag \in Nat /\ MaxIngest \in Nat
      /\ d \in Nat /\ n \in Nat \ {0}
  BY GivenTypes DEF ClientInv, Times, Deadlines
<1>3. Stages'
  BY <1>1 DEF ClientInv, Stages
<1>4. script = "demo" => deadline + MaxLag + MaxIngest < LastPoll'
  <2> SUFFICES ASSUME script = "demo"
               PROVE  deadline + MaxLag + MaxIngest < (clock + d) + (n - 1) * d
    BY <1>1 DEF LastPoll
  <2>1. deadline <= clock + skew + TX_TIMEOUT["demo"]
    BY DEF ClientInv, Deadlines
  <2>2. TX_TIMEOUT["demo"] + skew + MaxLag + MaxIngest < n * d
    BY <1>2, PullAssumption
  <2> HIDE DEF n, d
  <2>3. d + (n - 1) * d = n * d /\ n * d \in Nat /\ (n - 1) * d \in Nat
    BY <1>2
  <2> QED BY <1>2, <2>1, <2>2, <2>3
<1>5. script = "demo" => polls' \in Nat \ {0} /\ nextPoll' \in Nat
  BY <1>1, <1>2
<1>6. outcome' # "NOT_FOUND" /\ ~Decided'
  BY <1>1 DEF ClientInv, Stages, Decided
<1>7. Deadlines'
  BY <1>1, <1>4, <1>5, <1>6 DEF ClientInv, Deadlines
<1> QED BY <1>1, <1>3, <1>7, SameFetchInv

LEMMA SendInv ==
  ASSUME ClientInv, Send
  PROVE  ClientInv'
<1>1. /\ UNCHANGED <<now, clock, decidedAt>>
      /\ pc = "prepared" /\ tx' \in {"none", "pending"}
      /\ StartPolling \/ End("SubmitError")
  BY DEF Send, DemoSent, E2eSent, ledger, vars
<1>2. CASE End("SubmitError")
  BY <1>1, <1>2, EndInv
<1> QED BY <1>1, <1>2, StartPollingInv

LEMMA RequestFailsInv ==
  ASSUME ClientInv, RequestFails
  PROVE  ClientInv'
<1>1. /\ UNCHANGED <<now, clock, decidedAt>>
      /\ tx' = tx \/ (pc = "prepared" /\ tx' \in {"none", "pending"})
      /\ End("AttestationServiceError") \/ End("RpcError")
  BY DEF RequestFails, ledger, vars
<1> QED BY <1>1, EndInv

LEMMA PollInv ==
  ASSUME ClientInv, Poll
  PROVE  ClientInv'
<1> DEFINE d == POLL_DELAY["demo"]
<1>1. /\ UNCHANGED <<now, clock, tx, decidedAt>> /\ pc = "polling" /\ clock >= nextPoll
  BY DEF Poll, ledger, vars, network
<1>2. /\ clock \in Nat /\ deadline \in Int /\ MaxLag \in Nat /\ MaxIngest \in Nat
      /\ d \in Nat /\ decidedAt \in Nat
  BY GivenTypes DEF ClientInv, Stages, Deadlines
<1>3. script = "demo" =>
        /\ polls \in Nat \ {0} /\ nextPoll \in Nat
        /\ deadline + MaxLag + MaxIngest < nextPoll + (polls - 1) * d
  BY <1>1 DEF ClientInv, Deadlines, LastPoll
<1>4. CASE Decided /\ End(tx)
  BY <1>1, <1>4, EndInv DEF Decided
<1>5. CASE /\ Decided /\ tx # "FAILED" /\ script = "e2e" /\ pc' = "landed"
           /\ UNCHANGED <<given, reply, fresh, deadline, polls, nextPoll, outcome>>
  <2>1. UNCHANGED <<script, ask, skew>>
    BY <1>5 DEF given
  <2>2. Stages'
    BY <1>1, <1>5, <2>1 DEF ClientInv, Stages, Decided
  <2>3. Deadlines'
    BY <1>1, <1>5, <2>1 DEF ClientInv, Deadlines, Decided
  <2> QED BY <1>1, <1>5, <2>1, <2>2, <2>3, SameFetchInv
<1>6. CASE (Decided => clock <= decidedAt + MaxIngest) /\ polls = 1 /\ End("NOT_FOUND")
  <2>1. script = "demo" => Expired /\ tx' # "SUCCESS"
    <3> SUFFICES ASSUME script = "demo"
                 PROVE  deadline + MaxLag < clock /\ tx # "SUCCESS"
      BY <1>1 DEF Expired
    <3>1. (polls - 1) * d = 0
      <4> HIDE DEF d
      <4> QED BY <1>2, <1>6
    <3>2. nextPoll \in Nat /\ deadline + MaxLag + MaxIngest < nextPoll + 0
      BY <1>3, <3>1
    <3>3. deadline + MaxLag + MaxIngest < clock
      BY <1>1, <1>2, <3>2
    <3>4. ~Decided
      <4> SUFFICES ASSUME Decided PROVE FALSE
        OBVIOUS
      <4>1. decidedAt <= deadline + MaxLag /\ clock <= decidedAt + MaxIngest
        BY <1>6 DEF ClientInv, Deadlines
      <4> QED BY <1>2, <3>3, <4>1
    <3> QED BY <1>2, <3>3, <3>4 DEF Decided
  <2> QED BY <1>1, <1>6, <2>1, EndInv
<1>7. CASE /\ polls # 1 /\ polls' = polls - 1
           /\ nextPoll' = clock + POLL_DELAY[script]
           /\ UNCHANGED <<given, pc, reply, fresh, deadline, outcome>>
  <2>1. UNCHANGED <<script, ask, skew>>
    BY <1>7 DEF given
  <2>2. Stages'
    BY <1>1, <1>7, <2>1 DEF ClientInv, Stages
  <2>3. script = "demo" =>
          /\ polls' \in Nat \ {0} /\ nextPoll' \in Nat
          /\ deadline + MaxLag + MaxIngest < LastPoll'
    <3> SUFFICES ASSUME script = "demo"
                 PROVE  /\ polls - 1 \in Nat \ {0} /\ clock + d \in Nat
                        /\ deadline + MaxLag + MaxIngest
                             < (clock + d) + ((polls - 1) - 1) * d
      BY <1>7 DEF LastPoll
    <3>0. polls \in Nat \ {0} /\ polls # 1 /\ nextPoll \in Nat
      BY <1>3, <1>7
    <3>1. polls - 1 \in Nat \ {0} /\ clock + d \in Nat
      <4> HIDE DEF d
      <4> QED BY <1>2, <3>0
    <3> DEFINE m == polls - 1
    <3>2. deadline + MaxLag + MaxIngest < nextPoll + m * d
      BY <1>3
    <3>3. m \in Nat \ {0}
      BY <3>1
    <3> HIDE DEF m, d
    <3>4. d + (m - 1) * d = m * d /\ m * d \in Nat /\ (m - 1) * d \in Int
      <4>1. d \in Nat
        BY <1>2
      <4> QED BY <3>3, <4>1
    <3>5. deadline + MaxLag + MaxIngest < (clock + d) + (m - 1) * d
      BY <1>1, <1>2, <3>0, <3>2, <3>4
    <3> QED BY <3>1, <3>5 DEF m
  <2>4. outcome' # "NOT_FOUND" /\ pc' = "polling"
    BY <1>1, <1>7 DEF ClientInv, Stages
  <2>5. Deadlines'
    BY <1>1, <1>7, <2>1, <2>3, <2>4 DEF ClientInv, Deadlines, Decided
  <2> QED BY <1>1, <1>7, <2>1, <2>2, <2>5, SameFetchInv
<1> QED BY <1>4, <1>5, <1>6, <1>7 DEF Poll, DemoDecided, E2eDecided

LEMMA ReadBackInv ==
  ASSUME ClientInv, ReadBack
  PROVE  ClientInv'
<1>1. /\ UNCHANGED <<now, clock, tx, decidedAt>>
      /\ End("SimulationError") \/ End("verified") \/ End("mismatch")
  BY DEF ReadBack, ledger, vars, network
<1> QED BY <1>1, EndInv

LEMMA LedgersClientInv ==
  ASSUME PullInv, Tick \/ Close \/ Land \/ Others
  PROVE  ClientInv'
<1>1. /\ ClientInv
      /\ now \in Nat /\ now <= clock
      /\ clock \in Nat /\ clock \in 0..MaxTime /\ clock <= clock
  BY GivenTypes DEF PullInv, Inv, TypeOK, ClientInv, Times
<1>2. CASE Tick
  <2>1. UNCHANGED <<now, client, network>> /\ clock' = clock + 1 /\ clock < MaxTime
    BY <1>2 DEF Tick, ledger, vars
  <2>2. now <= clock + 1 /\ clock + 1 \in 0..MaxTime /\ clock <= clock + 1
    BY <1>1, <2>1, ParametersAssumption
  <2> QED BY <1>1, <2>1, <2>2, NetworkInv
<1>3. CASE Close
  <2>1. now' <= clock' /\ UNCHANGED <<clock, client, network>>
    BY <1>3 DEF Close, Recent
  <2> QED BY <1>1, <2>1, NetworkInv
<1>4. CASE Land
  <2>1. UNCHANGED now
    BY <1>4 DEF Land, OpenPosition, Invoked, UpdateBatchArgs, ledger, vars
  <2>2. /\ tx = "pending" /\ tx' \in {"SUCCESS", "FAILED"} /\ decidedAt' = clock
        /\ UNCHANGED <<clock, client>>
        /\ now <= deadline /\ clock - now <= MaxLag
    BY <1>4 DEF Land, Recent, InTime
  <2>3. deadline \in Int /\ MaxLag \in Nat
    BY <1>1, GivenTypes DEF ClientInv, Deadlines
  <2>4. clock <= deadline + MaxLag
    BY <1>1, <2>2, <2>3
  <2> QED BY <1>1, <2>1, <2>2, <2>4, NetworkInv
<1>5. CASE Others
  <2>1. UNCHANGED <<now, clock, client, network>>
    BY <1>5 DEF Others, OpenPosition, Invoked, UpdateBatchArgs, SetPublishers,
                InitConsumer, vars
  <2> QED BY <1>1, <2>1, NetworkInv
<1> QED BY <1>2, <1>3, <1>4, <1>5

LEMMA NextPullInv == PullInv /\ [PullNext]_pullVars => PullInv'
<1> SUFFICES ASSUME PullInv, [PullNext]_pullVars PROVE ClientInv'
  BY LedgerInv DEF PullInv
<1>1. ClientInv
  BY DEF PullInv
<1>2. CASE UNCHANGED pullVars
  <2>1. UNCHANGED <<now, clock, script, ask, skew, pc, reply, fresh, deadline, polls,
                    nextPoll, outcome, tx, decidedAt>>
    BY <1>2 DEF pullVars, ledger, vars, client, given, network
  <2>2. Stages' /\ Deadlines'
    BY <1>1, <2>1 DEF ClientInv, Stages, Deadlines, Expired, Decided, LastPoll
  <2> QED BY <1>1, <2>1, <2>2, SameFetchInv
<1> QED BY <1>1, <1>2, ServeInv, ReceiveInv, BuildInv, PrepareInv, SendInv,
           RequestFailsInv, PollInv, ReadBackInv, LedgersClientInv DEF PullNext

\* A trader's position changes only by opening one, the script's own only by landing.
Openings(trader) ==
  \E size \in Sizes, c \in BatchCall :
    /\ OpenPosition(trader, size, c)
    /\ trader = Account => Land /\ script = "demo" /\ c = UpdateArgs(fresh)

LEMMA PositionSteps ==
  ASSUME PullInv, [PullNext]_pullVars
  PROVE  UNCHANGED positions \/ \E trader \in Traders : Openings(trader)
<1>1. ASSUME UNCHANGED ledger
      PROVE  UNCHANGED positions
  BY <1>1 DEF ledger
<1>2. CASE Land
  <2>1. CASE /\ script = "demo"
             /\ \E size \in Sizes : OpenPosition(Account, size, UpdateArgs(fresh))
    <3>1. UpdateArgs(fresh) \in BatchCall
      BY <1>2, FreshCall DEF Land, PullInv, ClientInv, Stages
    <3> QED BY <1>2, <2>1, <3>1, PullAssumption DEF Openings
  <2> QED BY <1>1, <1>2, <2>1 DEF Land
<1>3. CASE Others
  <2>1. Submittable \subseteq BatchCall
    BY CallsAssumption DEF Submittable
  <2>2. CASE \E trader \in Traders \ {Account}, size \in Sizes, c \in Submittable :
               OpenPosition(trader, size, c)
    BY <2>1, <2>2 DEF Openings
  <2> QED BY <1>3, <2>2 DEF Others, InitConsumer
<1>4. CASE Close
  BY <1>4 DEF Close
<1>5. CASE UNCHANGED pullVars
  BY <1>1, <1>5 DEF pullVars
<1> QED BY <1>1, <1>2, <1>3, <1>4, <1>5
        DEF PullNext, Serve, Receive, Build, Prepare, Send, RequestFails, Poll, ReadBack, Tick

\* Every trader has a slot.
Slots == DOMAIN positions = Traders

LEMMA SlotsAreKept == PullSpec => []Slots
<1>1. PullInit => Slots
  BY DEF PullInit, ConsumerInit, Slots
<1>2. PullInv /\ Slots /\ [PullNext]_pullVars => Slots'
  BY PositionSteps DEF Slots, Openings, OpenPosition
<1> QED BY <1>1, <1>2, InitPullInv, NextPullInv, PTL DEF PullSpec

\* A position that a step changes is opened by it, with the stamps and the price of
\* its call.
LEMMA PositionIsOpened ==
  ASSUME PullInv, Slots, [PullNext]_pullVars,
         NEW t \in Traders, positions'[t] # positions[t]
  PROVE  \E size \in Sizes, c \in BatchCall :
           /\ OpenPosition(t, size, c) /\ positions'[t] = Opened(c, size)
           /\ t = Account => Land /\ script = "demo" /\ c = UpdateArgs(fresh)
<1>1. PICK trader \in Traders, size \in Sizes, c \in BatchCall :
        /\ OpenPosition(trader, size, c)
        /\ trader = Account => Land /\ script = "demo" /\ c = UpdateArgs(fresh)
  BY PositionSteps DEF Openings
<1>2. positions' = [positions EXCEPT ![trader] = Opened(c, size)]
  BY <1>1 DEF OpenPosition
<1>3. t = trader /\ positions'[t] = Opened(c, size)
  BY <1>2 DEF Slots
<1> QED BY <1>1, <1>3

-----------------------------------------------------------------------------
\* What follows.

\* A call that the ledger gets in time is within the acceptance window, by whatever
\* clock the client dated it.
LEMMA InTimeIsFresh ==
  ASSUME PullInv, script = "demo", fresh # <<>>, Recent(now), InTime
  PROVE  /\ now - fresh[1].timestamp <= FRESHNESS_LIMIT + TX_TIMEOUT["demo"]
         /\ Fresh(fresh[1].timestamp)
<1> DEFINE ts == fresh[1].timestamp
<1>1. /\ now \in Nat /\ clock \in Nat /\ deadline \in Int
      /\ FRESHNESS_LIMIT \in Nat /\ TX_TIMEOUT["demo"] \in Nat /\ MaxLag \in Nat
  BY GivenTypes DEF PullInv, Inv, TypeOK, ClientInv, Deadlines
<1>2. ts \in Nat /\ ts <= clock /\ ts <= U64Max
  <2>1. fresh[1] \in Atts /\ ts \in Nat /\ ts <= clock
    BY FreshCall DEF PullInv
  <2>2. ts \in 0..MaxTime
    BY <2>1, AttestationIs
  <2> QED BY <2>1, <2>2, ServiceAssumption, ParametersAssumption
<1>3. deadline <= ts + FRESHNESS_LIMIT + TX_TIMEOUT["demo"]
  BY DEF PullInv, ClientInv, Deadlines
<1>4. now <= deadline /\ clock - now <= MaxLag
  BY DEF InTime, Recent
<1>5. MaxLag <= FUTURE_SKEW_SECS /\ FRESHNESS_LIMIT + TX_TIMEOUT["demo"] <= STALENESS_SECS
  BY PullAssumption
<1> HIDE DEF ts
<1>6. now - ts <= FRESHNESS_LIMIT + TX_TIMEOUT["demo"]
  BY <1>1, <1>2, <1>3, <1>4
<1>7. SatSub(now, ts) <= STALENESS_SECS
  BY <1>1, <1>2, <1>5, <1>6, ParametersAssumption DEF SatSub
<1>8. ts <= SatAdd(now, FUTURE_SKEW_SECS)
  BY <1>1, <1>2, <1>4, <1>5, ParametersAssumption DEF SatAdd
<1> QED BY <1>6, <1>7, <1>8 DEF Fresh, ts

\* Whatever the client's clock shows, whatever was signed, restarted or stored since,
\* what the demo's client accepted the contract refuses only if the publisher's key
\* was taken away.
THEOREM ClientIsNoLaxer == PullSpec => []ClientAcceptsWhatContractAccepts
<1>1. PullInv => ClientAcceptsWhatContractAccepts
  <2> SUFFICES ASSUME PullInv, script = "demo", fresh # <<>>, Recent(now), InTime
               PROVE  ArgsResult(UpdateArgs(fresh)) \in {"Ok", "UnknownPublisher"}
    BY DEF ClientAcceptsWhatContractAccepts
  <2> DEFINE c == UpdateArgs(fresh)
  <2>1. /\ Len(ask) \in Nat \ {0} /\ fresh \in [1..Len(ask) -> Atts] /\ SameRound(fresh)
        /\ c.timestamp = fresh[1].timestamp
    BY FreshCall DEF PullInv
  <2>2. Aligned(c, c.prices, c.sigs) /\ AllPricesOk(c.prices)
    BY <2>1, UpdateArgsIsCall
  <2>3. AllVerify(c, c.pubkey, c.prices, c.sigs)
    BY <2>1, UpdateArgsVerify
  <2>4. Fresh(c.timestamp)
    BY <2>1, InTimeIsFresh
  <2> HIDE DEF c
  <2>5. ArgsResult(c) \in {"Ok", "UnknownPublisher"}
    BY <2>2, <2>3, <2>4 DEF ArgsResult
  <2> QED BY <2>5 DEF c
<1> QED BY <1>1, InitPullInv, NextPullInv, PTL DEF PullSpec

\* The script's position is priced at most FRESHNESS_LIMIT + TX_TIMEOUT seconds after
\* the price was signed, by a clock the client may have wrong.
THEOREM PositionsAreYoung == PullSpec => PositionAgeBounded
<1> DEFINE Step == positions'[Account] # positions[Account] =>
                     now - positions'[Account].entry_timestamp
                       <= FRESHNESS_LIMIT + TX_TIMEOUT["demo"]
<1>1. PullInv /\ Slots /\ [PullNext]_pullVars => Step
  <2> SUFFICES ASSUME PullInv, Slots, [PullNext]_pullVars,
                      positions'[Account] # positions[Account]
               PROVE  now - positions'[Account].entry_timestamp
                        <= FRESHNESS_LIMIT + TX_TIMEOUT["demo"]
    OBVIOUS
  <2>1. /\ Land /\ script = "demo"
        /\ \E size \in Sizes : positions'[Account] = Opened(UpdateArgs(fresh), size)
    BY PositionIsOpened, PullAssumption
  <2>2. fresh # <<>> /\ Recent(now) /\ InTime
    BY <2>1 DEF Land, PullInv, ClientInv, Stages
  <2>3. positions'[Account].entry_timestamp = fresh[1].timestamp
    BY <2>1 DEF Opened, UpdateArgs
  <2> QED BY <2>1, <2>2, <2>3, InTimeIsFresh
<1>2. PullSpec => [][Step]_pullVars
  BY <1>1, SlotsAreKept, InitPullInv, NextPullInv, PTL DEF PullSpec
<1> QED BY <1>2, PTL DEF PositionAgeBounded

\* When the demo reports NOT_FOUND, its transaction has expired for every ledger that
\* could still come, and none of those that were hidden by the node's delay applied it:
\* running the script again cannot open a second position.
THEOREM GivingUpIsFinal == PullSpec => []GiveUpIsFinal
<1>1. PullInv => GiveUpIsFinal
  BY DEF PullInv, ClientInv, Deadlines, GiveUpIsFinal
<1> QED BY <1>1, InitPullInv, NextPullInv, PTL DEF PullSpec

-----------------------------------------------------------------------------
\* What the oracle holds after an update.

\* Every asset of an accepted call then has a live entry of its round or a newer one.
LEMMA HeldAfterUpdate ==
  ASSUME Inv, NEW c \in BatchCall, UpdateBatchArgs(c), NEW a \in Range(c.assets)
  PROVE  /\ tempLive'[a] # NoEntry
         /\ tempLive'[a].round_id >= c.round_id
<1> DEFINE S == Replaced(c, tempLive)
           new == NewEntries(c, tempLive, LAMBDA i : c.prices[i])
<1>1. WriteTemp(new) /\ ArgsResult(c) = "Ok"
  BY DEF UpdateBatchArgs
<1>2. DOMAIN new = S /\ \A x \in S : new[x].round_id = c.round_id
  BY DEF NewEntries, Entry
<1>3. /\ c.round_id \in Nat /\ a \in Assets
      /\ priceTemp[a] \in PriceEntry \cup {NoEntry} /\ tempTtl[a] \in Nat \cup {-1}
      /\ \A e \in PriceEntry : e.round_id \in Nat
  BY DEF BatchCall, Range, Inv, TypeOK, PriceEntry
<1>4. tempLive[a] = IF tempTtl[a] < 0 THEN NoEntry ELSE priceTemp[a]
  BY <1>3 DEF tempLive
<1>5. tempLive'[a] = IF tempTtl'[a] < 0 THEN NoEntry ELSE priceTemp'[a]
  BY <1>3 DEF tempLive
<1>6. CASE a \in S
  <2>1. priceTemp'[a] = new[a] /\ tempTtl'[a] = TtlAfterWrite(tempTtl[a])
    BY <1>1, <1>2, <1>3, <1>6 DEF WriteTemp
  <2>2. new[a] \in PriceEntry
    <3>1. new \in [S -> PriceEntry]
      BY <1>1, BatchEntries
    <3> QED BY <1>6, <3>1
  <2>3. tempTtl'[a] \in Nat
    BY <1>3, <2>1, TtlCoversTheWindow
  <2> HIDE DEF new, S
  <2>4. tempLive'[a] = new[a] /\ new[a].round_id = c.round_id /\ new[a] # NoEntry
    BY <1>2, <1>5, <1>6, <2>1, <2>2, <2>3, CallsAssumption
  <2> QED BY <1>3, <2>4
<1>7. CASE a \notin S
  <2>1. priceTemp'[a] = priceTemp[a] /\ tempTtl'[a] = tempTtl[a]
    BY <1>1, <1>2, <1>3, <1>7 DEF WriteTemp
  <2>2. tempLive'[a] = tempLive[a]
    BY <1>4, <1>5, <2>1
  <2>3. ~IsNewer(tempLive[a], c.round_id)
    BY <1>7 DEF Replaced
  <2>4. tempLive[a] # NoEntry /\ ~(c.round_id > tempLive[a].round_id)
    BY <2>3 DEF IsNewer
  <2>5. tempLive[a] \in PriceEntry
    BY <1>3, <1>4, <2>4
  <2> QED BY <1>3, <2>2, <2>4, <2>5
<1> QED BY <1>6, <1>7

\* On a consumer initialised with the oracle, a position is opened only at a price that
\* a publisher registered at that moment signed for its asset, inside the acceptance
\* window, and the oracle then holds a round at least as new: whoever opens it, with
\* whatever arguments.
THEOREM PositionsAreBacked == PullSpec => PositionPricedBySignedRound
<1> DEFINE Backed(t) ==
             LET p == positions'[t]
                 e == [price |-> p.entry_price, timestamp |-> p.entry_timestamp,
                       round_id |-> p.entry_round]
             IN /\ BackedBy(1, p.asset, e)
                /\ InWindow(e)
                /\ tempLive'[p.asset] # NoEntry
                /\ tempLive'[p.asset].round_id >= p.entry_round
           Step == \A t \in Traders :
                     oracle = OracleAddress /\ positions'[t] # positions[t] => Backed(t)
<1>1. PullInv /\ Slots /\ [PullNext]_pullVars => Step
  <2> SUFFICES ASSUME PullInv, Slots, [PullNext]_pullVars, oracle = OracleAddress,
                      NEW t \in Traders, positions'[t] # positions[t]
               PROVE  Backed(t)
    OBVIOUS
  <2>1. PICK size \in Sizes, c \in BatchCall :
          OpenPosition(t, size, c) /\ positions'[t] = Opened(c, size)
    BY PositionIsOpened
  <2> DEFINE p == positions'[t]
             e == [price |-> p.entry_price, timestamp |-> p.entry_timestamp,
                   round_id |-> p.entry_round]
  <2>2. UpdateBatchArgs(c) /\ ArgsResult(c) = "Ok"
    BY <2>1 DEF OpenPosition, Invoked, UpdateBatchArgs
  <2>3. c.assets \in Seq(Assets) /\ c.assets # <<>>
    BY <2>1 DEF OpenPosition, OpenResult, BatchCall
  <2>4. /\ p.asset = c.assets[1] /\ p.entry_price = c.prices[1]
        /\ p.entry_round = c.round_id /\ p.entry_timestamp = c.timestamp
    BY <2>1 DEF Opened
  <2>5. e = Entry(c, c.prices[1])
    BY <2>4 DEF Entry
  <2> HIDE DEF p
  <2>6. 1 \in DOMAIN c.assets
    BY <2>3
  <2>7. c.assets[1] \in Range(c.assets)
    BY <2>6 DEF Range
  <2>8. Panel(1, c.assets[1], Entry(c, c.prices[1]))
    BY <2>2, <2>6, BatchPanel
  <2>9. BackedBy(1, c.assets[1], Entry(c, c.prices[1]))
    BY <2>8, PanelBacks
  <2>10. now \in Nat /\ c.timestamp \in Nat /\ Fresh(c.timestamp)
    BY <2>2 DEF PullInv, Inv, TypeOK, BatchCall, ArgsResult
  <2>11. InWindow(Entry(c, c.prices[1]))
    BY <2>10, EntryInWindow
  <2>12. /\ tempLive'[c.assets[1]] # NoEntry
         /\ tempLive'[c.assets[1]].round_id >= c.round_id
    BY <2>2, <2>7, HeldAfterUpdate DEF PullInv
  <2>13. BackedBy(1, p.asset, e) /\ InWindow(e)
    BY <2>4, <2>5, <2>9, <2>11
  <2> QED BY <2>4, <2>12, <2>13 DEF p
<1> HIDE DEF Backed
<1>2. PullInv /\ Slots /\ [PullNext]_pullVars => [Step]_consumerVars
  BY <1>1
<1> HIDE DEF Step
<1>3. PullSpec => [][Step]_consumerVars
  <2>1. UNCHANGED pullVars => UNCHANGED consumerVars
    BY DEF pullVars, ledger, consumerVars
  <2> QED BY <1>2, <2>1, SlotsAreKept, InitPullInv, NextPullInv, PTL DEF PullSpec
<1> USE DEF Step, Backed
<1> QED BY <1>3, PTL DEF PositionPricedBySignedRound

\* A write leaves its entry more than TEMP_THRESHOLD ledgers to live, and the stamp
\* it writes is at most FUTURE_SKEW_SECS ahead.
Lives ==
  \A a \in Assets : priceTemp[a] # NoEntry =>
    priceTemp[a].timestamp + TEMP_THRESHOLD < now + tempTtl[a] + FUTURE_SKEW_SECS

\* The update that e2e saw land, or a newer round, is the last one written, and its
\* price was acceptable then.
Held ==
  script = "e2e" /\ tx = "SUCCESS" =>
    /\ decidedAt <= fresh[1].timestamp + STALENESS_SECS + MaxLag
    /\ \A i \in DOMAIN fresh :
         /\ priceTemp[fresh[i].asset] # NoEntry
         /\ priceTemp[fresh[i].asset].round_id >= fresh[i].round_id

HeldInv == PullInv /\ TimeInv /\ Lives /\ Held

LEMMA NextTimesInv ==
  ASSUME PullInv, TimeInv, [PullNext]_pullVars
  PROVE  TimeInv'
<1>1. Inv'
  BY LedgerInv
<1>2. CASE UNCHANGED vars
  BY <1>1, <1>2, SameEntriesTimeInv DEF vars, priceVars
<1>3. CASE \E list \in PublisherLists : SetPublishers(list)
  BY <1>1, <1>3, SameEntriesTimeInv DEF SetPublishers
<1> QED BY <1>2, <1>3, LedgerSteps, CloseLedgerTimeInv, UpdateBatchArgsTimeInv

\* Whatever the oracle does, expired entries included, a round once written is only
\* replaced by a newer one.
LEMMA EntriesAreKept ==
  ASSUME PullInv, TimeInv, Lives, [PullNext]_pullVars
  PROVE  /\ Lives'
         /\ CoherentSigning => \A a \in Assets : priceTemp[a] # NoEntry =>
              /\ priceTemp'[a] # NoEntry
              /\ priceTemp'[a].round_id >= priceTemp[a].round_id
<1> SUFFICES ASSUME NEW a \in Assets
             PROVE  /\ priceTemp'[a] # NoEntry =>
                         priceTemp'[a].timestamp + TEMP_THRESHOLD
                           < now' + tempTtl'[a] + FUTURE_SKEW_SECS
                    /\ CoherentSigning /\ priceTemp[a] # NoEntry =>
                         /\ priceTemp'[a] # NoEntry
                         /\ priceTemp'[a].round_id >= priceTemp[a].round_id
  BY DEF Lives
<1>1. /\ now \in Nat /\ TEMP_THRESHOLD \in Nat /\ FUTURE_SKEW_SECS \in Nat
      /\ priceTemp[a] \in PriceEntry \cup {NoEntry} /\ tempTtl[a] \in Nat \cup {-1}
      /\ \A e \in PriceEntry : e.round_id \in Nat /\ e.timestamp \in Nat /\ e # NoEntry
      /\ priceTemp[a] # NoEntry => priceTemp[a].timestamp + TEMP_THRESHOLD
                                     < now + tempTtl[a] + FUTURE_SKEW_SECS
  BY ParametersAssumption, CallsAssumption DEF PullInv, Inv, TypeOK, PriceEntry, Lives
<1>2. CASE UNCHANGED vars \/ \E list \in PublisherLists : SetPublishers(list)
  <2>1. UNCHANGED <<priceTemp, tempTtl, now>>
    BY <1>2 DEF vars, SetPublishers, priceVars
  <2> QED BY <1>1, <2>1
<1>3. CASE CloseLedger
  <2>1. /\ priceTemp' = priceTemp
        /\ tempTtl'[a] = IF tempTtl[a] < 0 THEN -1 ELSE tempTtl[a] - 1
        /\ now' \in Nat /\ now' >= now + 1
    BY <1>1, <1>3, ParametersAssumption DEF CloseLedger
  <2>2. now + tempTtl[a] <= now' + tempTtl'[a] /\ tempTtl'[a] \in Int
    BY <1>1, <2>1
  <2> QED BY <1>1, <2>1, <2>2
<1>4. ASSUME NEW c \in BatchCall, UpdateBatchArgs(c)
      PROVE  /\ priceTemp'[a] # NoEntry =>
                  priceTemp'[a].timestamp + TEMP_THRESHOLD
                    < now' + tempTtl'[a] + FUTURE_SKEW_SECS
             /\ CoherentSigning /\ priceTemp[a] # NoEntry =>
                  /\ priceTemp'[a] # NoEntry
                  /\ priceTemp'[a].round_id >= priceTemp[a].round_id
  <2> DEFINE S == Replaced(c, tempLive)
             new == NewEntries(c, tempLive, LAMBDA i : c.prices[i])
  <2>1. /\ WriteTemp(new) /\ ArgsResult(c) = "Ok" /\ now' = now
        /\ c.timestamp \in Nat
    BY <1>4 DEF UpdateBatchArgs, BatchCall
  <2>2. DOMAIN new = S /\ new \in [S -> PriceEntry] /\ \A x \in S : new[x].timestamp = c.timestamp
    <3>1. new \in [S -> PriceEntry]
      BY <2>1, BatchEntries
    <3> QED BY <3>1 DEF NewEntries, Entry
  <2>3. CoherentSigning /\ priceTemp[a] # NoEntry =>
          priceTemp'[a].round_id >= priceTemp[a].round_id
    BY <1>4, BatchNeverRegresses
  <2>4. CASE a \in S
    <3>1. priceTemp'[a] = new[a] /\ tempTtl'[a] = TtlAfterWrite(tempTtl[a])
      BY <2>1, <2>2, <2>4 DEF WriteTemp
    <3>2. new[a] \in PriceEntry /\ new[a].timestamp = c.timestamp
      BY <2>2, <2>4
    <3>3. a \in Range(c.assets)
      BY <2>4 DEF Replaced
    <3> HIDE DEF new, S
    <3>4. TtlAfterWrite(tempTtl[a]) \in Nat /\ TEMP_THRESHOLD < TtlAfterWrite(tempTtl[a])
      BY <1>1, ParametersAssumption DEF TtlAfterWrite
    <3>5. c.timestamp <= now + FUTURE_SKEW_SECS
      BY <1>1, <2>1, <3>3, BatchIsSigned, FreshMeans
    <3> QED BY <1>1, <2>1, <2>3, <3>1, <3>2, <3>4, <3>5
  <2>5. CASE a \notin S
    <3>1. priceTemp'[a] = priceTemp[a] /\ tempTtl'[a] = tempTtl[a]
      BY <2>1, <2>2, <2>5 DEF WriteTemp
    <3> QED BY <1>1, <2>1, <2>3, <3>1
  <2> QED BY <2>4, <2>5
<1> QED BY <1>2, <1>3, <1>4, LedgerSteps

\* A transaction succeeds by landing, and what it carries is settled before.
LEMMA SuccessIsLanding ==
  ASSUME PullInv, [PullNext]_pullVars, tx' = "SUCCESS"
  PROVE  /\ UNCHANGED <<script, fresh>>
         /\ tx = "SUCCESS" \/ (Land /\ (script = "e2e" => UpdateBatchArgs(UpdateArgs(fresh))))
<1>1. ASSUME UNCHANGED client
      PROVE  UNCHANGED <<script, fresh>>
  BY <1>1 DEF client, given
<1>2. CASE Land
  BY <1>1, <1>2 DEF Land
<1>3. CASE Receive
  BY <1>3 DEF Receive, PullInv, ClientInv, Stages, network
<1>4. CASE Serve \/ Build
  BY <1>4 DEF Serve, Build, given, network
<1>5. CASE Prepare \/ ReadBack \/ Poll \/ RequestFails
  BY <1>5 DEF Prepare, ReadBack, Poll, DemoDecided, E2eDecided, RequestFails, End,
                given, network
<1>6. CASE Send
  BY <1>6 DEF Send, DemoSent, E2eSent
<1>7. CASE Tick \/ Close \/ Others
  BY <1>1, <1>7 DEF Tick, Close, Others, network
<1>8. CASE UNCHANGED pullVars
  BY <1>1, <1>8 DEF pullVars, network
<1> QED BY <1>2, <1>3, <1>4, <1>5, <1>6, <1>7, <1>8 DEF PullNext

\* Landing, e2e's update is acceptable, and written or met by a newer round.
LEMMA LandingHolds ==
  ASSUME PullInv, Land, UpdateBatchArgs(UpdateArgs(fresh))
  PROVE  /\ decidedAt' <= fresh[1].timestamp + STALENESS_SECS + MaxLag
         /\ \A i \in DOMAIN fresh :
              /\ priceTemp'[fresh[i].asset] # NoEntry
              /\ priceTemp'[fresh[i].asset].round_id >= fresh[i].round_id
<1> DEFINE c == UpdateArgs(fresh)
<1>1. fresh # <<>> /\ Inv /\ ClientInv
  BY DEF PullInv, ClientInv, Stages, Land
<1>2. /\ fresh \in [1..Len(ask) -> Atts] /\ SameRound(fresh)
      /\ fresh[1].timestamp \in Nat /\ c.timestamp = fresh[1].timestamp
      /\ c \in BatchCall
  BY <1>1, FreshCall
<1>3. Fresh(c.timestamp)
  BY DEF UpdateBatchArgs, ArgsResult
<1>4. /\ decidedAt' = clock /\ clock - now <= MaxLag
      /\ now \in Nat /\ clock \in Nat /\ MaxLag \in Nat /\ STALENESS_SECS \in Nat
  BY <1>1, GivenTypes, ParametersAssumption DEF Land, Recent, Inv, TypeOK, ClientInv
<1>5. now <= fresh[1].timestamp + STALENESS_SECS
  BY <1>2, <1>3, <1>4, FreshMeans
<1>6. decidedAt' <= fresh[1].timestamp + STALENESS_SECS + MaxLag
  BY <1>2, <1>4, <1>5
<1>7. ASSUME NEW i \in DOMAIN fresh
      PROVE  /\ priceTemp'[fresh[i].asset] # NoEntry
             /\ priceTemp'[fresh[i].asset].round_id >= fresh[i].round_id
  <2> DEFINE a == fresh[i].asset
  <2>1. a \in Range(c.assets) /\ c.round_id = fresh[i].round_id
    BY <1>2 DEF UpdateArgs, Range, SameRound
  <2>2. a \in Assets
    BY <1>2, AttestationIs
  <2> HIDE DEF a, c
  <2>3. tempLive'[a] # NoEntry /\ tempLive'[a].round_id >= c.round_id
    BY <1>1, <1>2, <2>1, HeldAfterUpdate DEF c
  <2>4. tempLive'[a] = priceTemp'[a]
    BY <2>2, <2>3 DEF tempLive
  <2> QED BY <2>1, <2>3, <2>4 DEF a
<1> QED BY <1>6, <1>7

\* Once decided, a transaction stays decided when it was.
LEMMA DecidedOnce ==
  ASSUME PullInv, [PullNext]_pullVars, tx = "SUCCESS"
  PROVE  decidedAt' = decidedAt
<1> QED
  BY DEF PullInv, ClientInv, Stages, PullNext, pullVars, network, Serve, Receive, Build,
         Prepare, Send, RequestFails, Poll, ReadBack, Tick, Close, Land, Others

LEMMA NextHeldInv ==
  ASSUME CoherentSigning, HeldInv, [PullNext]_pullVars
  PROVE  HeldInv'
<1>1. PullInv' /\ TimeInv' /\ Lives'
  BY NextPullInv, NextTimesInv, EntriesAreKept DEF HeldInv
<1>2. Held'
  <2> SUFFICES ASSUME script' = "e2e", tx' = "SUCCESS"
               PROVE  /\ decidedAt' <= fresh'[1].timestamp + STALENESS_SECS + MaxLag
                      /\ \A i \in DOMAIN fresh' :
                           /\ priceTemp'[fresh'[i].asset] # NoEntry
                           /\ priceTemp'[fresh'[i].asset].round_id >= fresh'[i].round_id
    BY DEF Held
  <2>1. /\ script = "e2e" /\ fresh' = fresh
        /\ tx = "SUCCESS" \/ (Land /\ UpdateBatchArgs(UpdateArgs(fresh)))
    BY SuccessIsLanding DEF HeldInv
  <2>2. CASE Land /\ UpdateBatchArgs(UpdateArgs(fresh))
    BY <2>1, <2>2, LandingHolds DEF HeldInv
  <2>3. CASE tx = "SUCCESS"
    <3>1. decidedAt' = decidedAt
      BY <2>3, DecidedOnce DEF HeldInv
    <3>2. fresh # <<>> /\ Inv /\ ClientInv /\ Inv'
      BY <1>1, <2>3 DEF HeldInv, PullInv, ClientInv, Stages
    <3>3. fresh \in [1..Len(ask) -> Atts]
      BY <3>2, FreshCall
    <3>4. ASSUME NEW i \in DOMAIN fresh
          PROVE  /\ priceTemp'[fresh[i].asset] # NoEntry
                 /\ priceTemp'[fresh[i].asset].round_id >= fresh[i].round_id
      <4> DEFINE a == fresh[i].asset
                 r == fresh[i].round_id
      <4>1. a \in Assets /\ r \in Nat
        BY <3>3, AttestationIs
      <4>2. priceTemp[a] # NoEntry /\ priceTemp[a].round_id >= r
        BY <2>1, <2>3 DEF HeldInv, Held
      <4>3. priceTemp'[a] # NoEntry /\ priceTemp'[a].round_id >= priceTemp[a].round_id
        BY <4>1, <4>2, EntriesAreKept DEF HeldInv
      <4>4. priceTemp[a].round_id \in Nat /\ priceTemp'[a].round_id \in Nat
        BY <3>2, <4>1, <4>2, <4>3 DEF Inv, TypeOK, PriceEntry
      <4> QED BY <4>1, <4>2, <4>3, <4>4
    <3> QED BY <2>1, <2>3, <3>1, <3>4 DEF HeldInv, Held
  <2> QED BY <2>1, <2>2, <2>3
<1> QED BY <1>1, <1>2 DEF HeldInv

\* A round written last and not older than the one fetched lives ReadBackTime seconds
\* from the landing at least: its stamp is no earlier, and the landing was in time.
LEMMA HeldIsLive ==
  ASSUME CoherentSigning, HeldInv, pc = "landed", clock <= decidedAt + ReadBackTime,
         NEW i \in DOMAIN fresh
  PROVE  /\ tempLive[fresh[i].asset] # NoEntry
         /\ tempLive[fresh[i].asset].round_id >= fresh[i].round_id
<1>1. script = "e2e" /\ tx = "SUCCESS" /\ fresh # <<>> /\ ClientInv
  BY DEF HeldInv, PullInv, ClientInv, Stages
<1>2. fresh \in [1..Len(ask) -> Atts] /\ SameRound(fresh) /\ fresh[i] \in Atts
  BY <1>1, FreshCall
<1> DEFINE x == fresh[i]
           a == x.asset
           e == priceTemp[a]
<1>3. /\ a \in Assets /\ x.timestamp \in Nat /\ x.round_id \in Nat
      /\ [key |-> ServiceKey, msg |-> x] \in Signatures
  <2>1. x.timestamp \in 0..MaxTime
    BY <1>2, AttestationIs
  <2> QED BY <1>2, <2>1, AttestationIs
<1>4. x.timestamp = fresh[1].timestamp
  BY <1>2 DEF SameRound
<1>5. e # NoEntry /\ e.round_id >= x.round_id
  BY <1>1 DEF HeldInv, Held
<1>6. /\ e \in PriceEntry /\ e.timestamp \in Nat /\ e.round_id \in Nat
      /\ tempTtl[a] \in Nat \cup {-1} /\ now \in Nat
  BY <1>3, <1>5 DEF HeldInv, PullInv, Inv, TypeOK, PriceEntry
<1>7. x.timestamp <= e.timestamp
  <2>1. SignedStamps(x.timestamp, x.round_id)
    BY <1>3 DEF SignedStamps
  <2>2. SignedStamps(e.timestamp, e.round_id)
    BY <1>3, <1>5 DEF HeldInv, TimeInv, EntriesStamped, Stamped
  <2> HIDE DEF x, e
  <2>3. x.round_id <= e.round_id
    BY <1>3, <1>5, <1>6
  <2> QED BY <2>1, <2>2, <2>3, LaterRoundLaterStamp
<1>8. tempTtl[a] >= 0
  <2>1. decidedAt <= x.timestamp + STALENESS_SECS + MaxLag
    BY <1>1, <1>4 DEF HeldInv, Held
  <2>2. e.timestamp + TEMP_THRESHOLD < now + tempTtl[a] + FUTURE_SKEW_SECS
    BY <1>3, <1>5 DEF HeldInv, Lives
  <2>3. /\ now <= clock /\ clock \in Nat /\ MaxLag \in Nat /\ decidedAt \in Nat
        /\ STALENESS_SECS \in Nat /\ FUTURE_SKEW_SECS \in Nat /\ TEMP_THRESHOLD \in Nat
    BY <1>1, GivenTypes, ParametersAssumption DEF ClientInv, Stages
  <2> HIDE DEF x, a, e
  <2> QED BY <1>3, <1>6, <1>7, <2>1, <2>2, <2>3 DEF ReadBackTime
<1>9. tempLive[a] = e
  BY <1>3, <1>6, <1>8 DEF tempLive
<1> QED BY <1>5, <1>9

\* When e2e learns that its update landed, and for ReadBackTime seconds from its landing,
\* the oracle holds its round or a newer one: at any age of the contract, whoever else
\* writes, whatever the admin does and whatever expires, and even if its call was a no-op.
THEOREM ReadBackIsNotOlder == PullSpec => []ReadBackNotOlder
<1> DEFINE Known == CoherentSigning => HeldInv
<1>1. PullInit => Known
  <2> SUFFICES ASSUME PullInit PROVE TimeInv /\ Lives /\ Held
    BY InitPullInv DEF HeldInv
  <2>1. TimeInv
    BY InitTimeInv DEF PullInit, ConsumerInit
  <2>2. tx = "none" /\ \A a \in Assets : priceTemp[a] = NoEntry
    BY DEF PullInit, ConsumerInit, Init
  <2> QED BY <2>1, <2>2 DEF Lives, Held
<1>2. Known /\ [PullNext]_pullVars => Known'
  <2>1. CoherentSigning' = CoherentSigning
    BY DEF CoherentSigning
  <2> QED BY <2>1, NextHeldInv
<1>3. Known => ReadBackNotOlder
  BY HeldIsLive DEF ReadBackNotOlder
<1> HIDE DEF Known
<1> QED BY <1>1, <1>2, <1>3, PTL DEF PullSpec
=============================================================================
