---------------------------- MODULE OracleProofs ----------------------------
(***************************************************************************)
(* Theorems about Oracle.tla, for every set of assets, keys, signatures    *)
(* and calls, every ring capacity and every window: the storage is typed   *)
(* and its parts agree; the temporary price never goes back; every price   *)
(* written is the median of prices that registered publishers signed, and  *)
(* a minority of them cannot move it; both storages are feeds in the sense *)
(* of PriceFeed.tla.                                                       *)
(***************************************************************************)
EXTENDS OracleViews, StatisticsProofs, SequenceTheorems

-----------------------------------------------------------------------------
\* What a call writes.

\* A listed asset has a first position in the call.
LEMMA PositionOfListed ==
  ASSUME NEW c, c.assets \in Seq(Assets), NEW asset \in Range(c.assets)
  PROVE  /\ Position(c, asset) \in DOMAIN c.assets
         /\ c.assets[Position(c, asset)] = asset
<1> DEFINE T == {i \in DOMAIN c.assets : c.assets[i] = asset}
<1>1. T \in SUBSET Nat /\ T # {}
  BY DEF Range
<1>2. \E i \in T : \A j \in T : i <= j
  BY <1>1, LeastNatural
<1>3. \E i \in DOMAIN c.assets :
        /\ c.assets[i] = asset
        /\ \A j \in DOMAIN c.assets : c.assets[j] = asset => i <= j
  BY <1>2
<1> QED BY <1>3 DEF Position

\* Only listed assets are replaced.
LEMMA ReplacedAreAssets ==
  ASSUME NEW c, c.assets \in Seq(Assets), NEW stored
  PROVE  Replaced(c, stored) \subseteq Assets
BY DEF Replaced, Range

\* A single-publisher call that passes the checks writes entries inside the price
\* bounds, each under a listed asset whose stored round is older.
LEMMA BatchEntries ==
  ASSUME NEW c \in BatchCall, ArgsResult(c) = "Ok", NEW stored
  PROVE  LET new == NewEntries(c, stored, LAMBDA i : c.prices[i]) IN
         /\ new \in [Replaced(c, stored) -> PriceEntry]
         /\ \A asset \in Replaced(c, stored) :
              IsNewer(stored[asset], new[asset].round_id)
<1>2. /\ c.assets \in Seq(Assets)
      /\ c.prices \in Seq(Int)
      /\ c.timestamp \in Nat
      /\ c.round_id \in Nat
  BY DEF BatchCall
<1>3. Len(c.prices) = Len(c.assets) /\ AllPricesOk(c.prices)
  BY DEF ArgsResult, Aligned
<1>4. ASSUME NEW asset \in Replaced(c, stored)
      PROVE  Entry(c, c.prices[Position(c, asset)]) \in PriceEntry
  <2>1. Position(c, asset) \in DOMAIN c.prices
    BY <1>2, <1>3, PositionOfListed DEF Replaced
  <2>2. c.prices[Position(c, asset)] \in 1..MAX_PRICE
    BY <1>2, <1>3, <2>1, ParametersAssumption DEF AllPricesOk, PriceOk
  <2> QED BY <1>2, <2>2 DEF Entry, PriceEntry
<1>5. \A asset \in Replaced(c, stored) : IsNewer(stored[asset], c.round_id)
  BY DEF Replaced
<1> QED BY <1>4, <1>5 DEF NewEntries, Entry

\* So does a quorum call: the median of in-bounds prices is in bounds.
LEMMA QuorumEntries ==
  ASSUME NEW c \in QuorumCall, QuorumResult(c) = "Ok", NEW stored,
         storedQuorum \in Nat
  PROVE  LET new == NewEntries(c, stored,
                               LAMBDA i : Median(PriceColumn(c.rounds, i))) IN
         /\ new \in [Replaced(c, stored) -> PriceEntry]
         /\ \A asset \in Replaced(c, stored) :
              IsNewer(stored[asset], new[asset].round_id)
<1> DEFINE m == Len(c.rounds)
<1>2. /\ c.assets \in Seq(Assets)
      /\ c.timestamp \in Nat
      /\ c.round_id \in Nat
      /\ c.rounds \in Seq(PublisherRound)
      /\ m \in Nat
      /\ DOMAIN c.rounds = 1..m
  BY DEF QuorumCall
<1>3. \A j \in 1..m : /\ c.rounds[j].prices \in Seq(Int)
                      /\ Len(c.rounds[j].prices) = Len(c.assets)
                      /\ AllPricesOk(c.rounds[j].prices)
  <2> SUFFICES ASSUME NEW j \in 1..m
               PROVE  /\ c.rounds[j].prices \in Seq(Int)
                      /\ Len(c.rounds[j].prices) = Len(c.assets)
                      /\ AllPricesOk(c.rounds[j].prices)
    OBVIOUS
  <2>1. c.rounds[j] \in PublisherRound
    BY <1>2
  <2>2. c.rounds[j] \in {c.rounds[i] : i \in DOMAIN c.rounds}
    BY <1>2
  <2> QED BY <2>1, <2>2 DEF QuorumResult, Aligned, PublisherRound
<1>4. m \in Nat \ {0}
  BY <1>2 DEF QuorumResult, EnoughRounds, Quorum
<1>5. ASSUME NEW asset \in Replaced(c, stored)
      PROVE  Entry(c, Median(PriceColumn(c.rounds, Position(c, asset))))
               \in PriceEntry
  <2> DEFINE i == Position(c, asset)
             px == PriceColumn(c.rounds, i)
  <2>1. i \in DOMAIN c.assets
    BY <1>2, PositionOfListed DEF Replaced
  <2>2. \A j \in 1..m : c.rounds[j].prices[i] \in 1..MAX_PRICE
    <3> TAKE j \in 1..m
    <3>1. i \in DOMAIN c.rounds[j].prices
      BY <1>2, <1>3, <2>1
    <3>2. c.rounds[j].prices[i] \in Int
      BY <1>3, <3>1
    <3> QED BY <1>3, <3>1, <3>2, ParametersAssumption DEF AllPricesOk, PriceOk
  <2>3. px \in [1..m -> Nat] /\ \A j \in 1..m : px[j] \in 1..MAX_PRICE
    BY <1>2, <2>2, ParametersAssumption DEF PriceColumn
  <2>4. Median(px) \in 1..MAX_PRICE
    <3> HIDE DEF px, m
    <3> QED BY <1>4, <2>3, MedianInBounds, ParametersAssumption
  <2> QED BY <1>2, <2>4 DEF Entry, PriceEntry
<1>6. \A asset \in Replaced(c, stored) : IsNewer(stored[asset], c.round_id)
  BY DEF Replaced
<1> QED BY <1>5, <1>6 DEF NewEntries, Entry

-----------------------------------------------------------------------------
\* The history ring.

RingOrdered(ring) ==
  \A i, j \in DOMAIN ring : i < j => ring[i].round_id < ring[j].round_id

\* Pushing a newer entry keeps the ring bounded and in order, with the entry at
\* its end.
LEMMA PushRingKeepsOrder ==
  ASSUME NEW ring \in Seq(PriceEntry), NEW e \in PriceEntry,
         Len(ring) <= RING_CAP, RingOrdered(ring),
         ring # <<>> => ring[Len(ring)].round_id < e.round_id
  PROVE  LET new == PushRing(ring, e) IN
         /\ new \in Seq(PriceEntry)
         /\ Len(new) <= RING_CAP
         /\ RingOrdered(new)
         /\ new # <<>>
         /\ new[Len(new)] = e
<1>1. \A i \in 1..Len(ring) : ring[i] \in PriceEntry /\ ring[i].round_id \in Nat
  <2>1. \A i \in 1..Len(ring) : ring[i] \in PriceEntry
    OBVIOUS
  <2> QED BY <2>1 DEF PriceEntry
<1>2. e.round_id \in Nat
  BY DEF PriceEntry
<1>3. \A i \in 1..Len(ring) : ring[i].round_id < e.round_id
  BY <1>1, <1>2 DEF RingOrdered
<1>4. CASE Len(ring) + 1 > RING_CAP
  <2> DEFINE t == Tail(ring)
  <2>1. Len(ring) \in Nat /\ Len(ring) # 0 /\ ring # <<>>
    BY <1>4, ParametersAssumption
  <2>2. /\ t \in Seq(PriceEntry)
        /\ Len(t) = Len(ring) - 1
        /\ \A i \in 1..Len(t) : t[i] = ring[i + 1]
    BY <2>1, HeadTailProperties
  <2>3. \A i, j \in 1..Len(t) : i < j => t[i].round_id < t[j].round_id
    BY <2>1, <2>2 DEF RingOrdered
  <2>4. \A i \in 1..Len(t) : t[i].round_id < e.round_id
    BY <1>3, <2>1, <2>2
  <2>5. PushRing(ring, e) = Append(t, e)
    BY <1>4 DEF PushRing
  <2> HIDE DEF t
  <2>6. /\ Append(t, e) \in Seq(PriceEntry)
        /\ Len(Append(t, e)) = Len(t) + 1
        /\ \A i \in 1..Len(t) : Append(t, e)[i] = t[i]
        /\ Append(t, e)[Len(t) + 1] = e
    BY <2>2, AppendProperties
  <2> DEFINE new == Append(t, e)
  <2>7. Len(t) \in Nat /\ DOMAIN new = 1 .. Len(t) + 1
    BY <2>2, <2>6
  <2> HIDE DEF new
  <2>8. RingOrdered(new)
    <3> SUFFICES ASSUME NEW i \in 1 .. Len(t) + 1, NEW j \in 1 .. Len(t) + 1, i < j
                 PROVE  new[i].round_id < new[j].round_id
      BY <2>7 DEF RingOrdered
    <3>1. i \in 1..Len(t) /\ new[i] = t[i]
      BY <2>6, <2>7 DEF new
    <3>2. CASE j \in 1..Len(t)
      BY <2>3, <2>6, <3>1, <3>2 DEF new
    <3>3. CASE j = Len(t) + 1
      BY <2>4, <2>6, <3>1, <3>3 DEF new
    <3> QED BY <2>7, <3>2, <3>3
  <2>9. /\ new \in Seq(PriceEntry) /\ Len(new) = Len(ring)
        /\ new # <<>> /\ new[Len(new)] = e
    BY <2>1, <2>2, <2>6 DEF new
  <2> QED BY <2>5, <2>8, <2>9 DEF new
<1>5. CASE ~ (Len(ring) + 1 > RING_CAP)
  <2>1. PushRing(ring, e) = Append(ring, e)
    BY <1>5 DEF PushRing
  <2>2. /\ Append(ring, e) \in Seq(PriceEntry)
        /\ Len(Append(ring, e)) = Len(ring) + 1
        /\ \A i \in 1..Len(ring) : Append(ring, e)[i] = ring[i]
        /\ Append(ring, e)[Len(ring) + 1] = e
    BY AppendProperties
  <2> QED BY <1>3, <1>5, <2>1, <2>2, ParametersAssumption DEF RingOrdered
<1> QED BY <1>4, <1>5

-----------------------------------------------------------------------------
\* The invariant.  RingMatchesLatest is inductive together with TypeOK.

Inv == TypeOK /\ RingMatchesLatest

\* The ring of one asset, as RingMatchesLatest says.
RingOf(ring, latest) ==
  /\ Len(ring) <= RING_CAP
  /\ RingOrdered(ring)
  /\ (latest = NoEntry) <=> (ring = <<>>)
  /\ ring # <<>> => ring[Len(ring)] = latest

LEMMA RingMatchesLatestByAsset ==
  RingMatchesLatest <=> \A a \in Assets : RingOf(priceRing[a], pricePers[a])
BY DEF RingMatchesLatest, RingOf, RingOrdered

\* The persistent writers keep the latest entries and the rings in step.
LEMMA WritePersKeepsInv ==
  ASSUME Inv, NEW S \in SUBSET Assets, NEW new \in [S -> PriceEntry],
         \A a \in S : IsNewer(pricePers[a], new[a].round_id),
         WritePers(new)
  PROVE  /\ pricePers' \in [Assets -> PriceEntry \cup {NoEntry}]
         /\ priceRing' \in [Assets -> Seq(PriceEntry)]
         /\ RingMatchesLatest'
<1>1. ASSUME NEW a \in Assets
      PROVE  /\ pricePers'[a] \in PriceEntry \cup {NoEntry}
             /\ priceRing'[a] \in Seq(PriceEntry)
             /\ RingOf(priceRing'[a], pricePers'[a])
  <2>1. /\ pricePers[a] \in PriceEntry \cup {NoEntry}
        /\ priceRing[a] \in Seq(PriceEntry)
        /\ RingOf(priceRing[a], pricePers[a])
    BY RingMatchesLatestByAsset DEF Inv, TypeOK
  <2>2. CASE a \notin S
    <3>1. pricePers'[a] = pricePers[a] /\ priceRing'[a] = priceRing[a]
      BY <2>2 DEF WritePers
    <3> QED BY <2>1, <3>1
  <2>3. CASE a \in S
    <3>1. pricePers'[a] = new[a] /\ priceRing'[a] = PushRing(priceRing[a], new[a])
      BY <2>3 DEF WritePers
    <3>2. new[a] \in PriceEntry /\ new[a] # NoEntry
      BY <2>3, CallsAssumption
    <3>3. priceRing[a] # <<>> =>
            priceRing[a][Len(priceRing[a])].round_id < new[a].round_id
      <4> SUFFICES ASSUME priceRing[a] # <<>>
                   PROVE  pricePers[a].round_id < new[a].round_id
        BY <2>1 DEF RingOf
      <4>1. pricePers[a] \in PriceEntry
        BY <2>1 DEF RingOf
      <4>2. new[a].round_id > pricePers[a].round_id
        BY <2>3, <4>1, CallsAssumption DEF IsNewer
      <4> QED BY <3>2, <4>1, <4>2 DEF PriceEntry
    <3>4. LET r == PushRing(priceRing[a], new[a]) IN
          /\ r \in Seq(PriceEntry)
          /\ Len(r) <= RING_CAP
          /\ RingOrdered(r)
          /\ r # <<>>
          /\ r[Len(r)] = new[a]
      BY <2>1, <3>2, <3>3, PushRingKeepsOrder DEF RingOf
    <3> QED BY <3>1, <3>2, <3>4 DEF RingOf
  <2> QED BY <2>2, <2>3
<1>2. DOMAIN pricePers' = Assets /\ DOMAIN priceRing' = Assets
  BY DEF WritePers
<1>3. /\ pricePers' = [a \in Assets |-> pricePers'[a]]
      /\ priceRing' = [a \in Assets |-> priceRing'[a]]
  BY DEF WritePers
<1>4. RingMatchesLatest'
  BY <1>1 DEF RingMatchesLatest, RingOf, RingOrdered
<1> QED BY <1>1, <1>3, <1>4

\* The temporary writer touches neither.
LEMMA WriteTempKeepsInv ==
  ASSUME Inv, NEW S \in SUBSET Assets, NEW new \in [S -> PriceEntry], WriteTemp(new)
  PROVE  /\ priceTemp' \in [Assets -> PriceEntry \cup {NoEntry}]
         /\ tempTtl' \in [Assets -> Nat \cup {-1}]
         /\ pricePers' = pricePers
         /\ priceRing' = priceRing
<1>1. \A ttl \in Nat \cup {-1} : TtlAfterWrite(ttl) \in Nat
  BY ParametersAssumption DEF TtlAfterWrite
<1>2. priceTemp' \in [Assets -> PriceEntry \cup {NoEntry}]
  BY DEF WriteTemp, Inv, TypeOK
<1>3. tempTtl' \in [Assets -> Nat \cup {-1}]
  BY <1>1 DEF WriteTemp, Inv, TypeOK
<1> QED BY <1>2, <1>3 DEF WriteTemp

LEMMA InitInv == Init => Inv
<1> SUFFICES ASSUME Init PROVE Inv
  OBVIOUS
<1>1. TypeOK
  BY DEF Init, TypeOK
<1>2. \A a \in Assets : pricePers[a] = NoEntry /\ priceRing[a] = <<>>
  BY DEF Init
<1>3. Len(<<>>) = 0 /\ DOMAIN <<>> = {}
  OBVIOUS
<1>4. RingMatchesLatest
  BY <1>2, <1>3, ParametersAssumption DEF RingMatchesLatest
<1> QED BY <1>1, <1>4 DEF Inv

-----------------------------------------------------------------------------
\* One lemma per entrypoint, for every call of its type.

LEMMA SetPublishersInv ==
  ASSUME Inv, NEW list \in PublisherLists, SetPublishers(list)
  PROVE  Inv'
BY DEF Inv, TypeOK, RingMatchesLatest, SetPublishers, priceVars

LEMMA SetQuorumInv ==
  ASSUME Inv, NEW quorum \in QuorumArgs, SetQuorum(quorum)
  PROVE  Inv'
BY CallsAssumption DEF Inv, TypeOK, RingMatchesLatest, SetQuorum, priceVars

LEMMA UpdateBatchArgsInv ==
  ASSUME Inv, NEW c \in BatchCall, UpdateBatchArgs(c)
  PROVE  Inv'
<1> DEFINE new == NewEntries(c, tempLive, LAMBDA i : c.prices[i])
<1>1. new \in [Replaced(c, tempLive) -> PriceEntry]
  BY BatchEntries DEF UpdateBatchArgs
<1>2. Replaced(c, tempLive) \subseteq Assets
  BY ReplacedAreAssets DEF BatchCall
<1>3. WriteTemp(new) /\ UNCHANGED <<publishers, storedQuorum, now>>
  BY DEF UpdateBatchArgs
<1> HIDE DEF new
<1>4. /\ priceTemp' \in [Assets -> PriceEntry \cup {NoEntry}]
      /\ tempTtl' \in [Assets -> Nat \cup {-1}]
      /\ pricePers' = pricePers
      /\ priceRing' = priceRing
  BY <1>1, <1>2, <1>3, WriteTempKeepsInv
<1> QED BY <1>3, <1>4 DEF Inv, TypeOK, RingMatchesLatest

\* The writes of both persistent entrypoints.
LEMMA PersistentWriteInv ==
  ASSUME Inv, NEW S \in SUBSET Assets, NEW new \in [S -> PriceEntry],
         \A a \in S : IsNewer(pricePers[a], new[a].round_id),
         WritePers(new), UNCHANGED <<publishers, storedQuorum, now>>
  PROVE  Inv'
<1>1. /\ pricePers' \in [Assets -> PriceEntry \cup {NoEntry}]
      /\ priceRing' \in [Assets -> Seq(PriceEntry)]
      /\ RingMatchesLatest'
  BY WritePersKeepsInv
<1>2. UNCHANGED <<priceTemp, tempTtl>>
  BY DEF WritePers
<1> QED BY <1>1, <1>2 DEF Inv, TypeOK

LEMMA UpdateBatchPersistentInv ==
  ASSUME Inv, NEW c \in BatchCall, UpdateBatchPersistent(c)
  PROVE  Inv'
<1> DEFINE new == NewEntries(c, pricePers, LAMBDA i : c.prices[i])
<1>1. ArgsResult(c) = "Ok"
  BY DEF UpdateBatchPersistent, PersistentResult
<1>2. /\ new \in [Replaced(c, pricePers) -> PriceEntry]
      /\ \A a \in Replaced(c, pricePers) : IsNewer(pricePers[a], new[a].round_id)
  BY <1>1, BatchEntries
<1>3. Replaced(c, pricePers) \subseteq Assets
  BY ReplacedAreAssets DEF BatchCall
<1>4. WritePers(new) /\ UNCHANGED <<publishers, storedQuorum, now>>
  BY DEF UpdateBatchPersistent
<1> HIDE DEF new
<1> QED BY <1>2, <1>3, <1>4, PersistentWriteInv

LEMMA UpdateQuorumPersistentInv ==
  ASSUME Inv, NEW c \in QuorumCall, UpdateQuorumPersistent(c)
  PROVE  Inv'
<1> DEFINE new == NewEntries(c, pricePers,
                             LAMBDA i : Median(PriceColumn(c.rounds, i)))
<1>1. QuorumResult(c) = "Ok" /\ storedQuorum \in Nat
  BY DEF UpdateQuorumPersistent, Inv, TypeOK
<1>2. /\ new \in [Replaced(c, pricePers) -> PriceEntry]
      /\ \A a \in Replaced(c, pricePers) : IsNewer(pricePers[a], new[a].round_id)
  BY <1>1, QuorumEntries
<1>3. Replaced(c, pricePers) \subseteq Assets
  BY ReplacedAreAssets DEF QuorumCall
<1>4. WritePers(new) /\ UNCHANGED <<publishers, storedQuorum, now>>
  BY DEF UpdateQuorumPersistent
<1> HIDE DEF new
<1> QED BY <1>2, <1>3, <1>4, PersistentWriteInv

LEMMA CloseLedgerInv ==
  ASSUME Inv, CloseLedger
  PROVE  Inv'
<1>1. now' \in Nat
  BY ParametersAssumption DEF CloseLedger, Inv, TypeOK
<1>2. tempTtl' \in [Assets -> Nat \cup {-1}]
  BY DEF CloseLedger, Inv, TypeOK
<1> QED BY <1>1, <1>2 DEF CloseLedger, Inv, TypeOK, RingMatchesLatest

LEMMA NextInv == Inv /\ [Next]_vars => Inv'
<1> SUFFICES ASSUME Inv, [Next]_vars PROVE Inv'
  OBVIOUS
<1>1. BatchCalls \subseteq BatchCall /\ QuorumCalls \subseteq QuorumCall
  BY CallsAssumption
<1>2. CASE \E list \in PublisherLists : SetPublishers(list)
  BY <1>2, SetPublishersInv
<1>3. CASE \E quorum \in QuorumArgs : SetQuorum(quorum)
  BY <1>3, SetQuorumInv
<1>4. CASE \E c \in BatchCalls : UpdateBatchArgs(c)
  BY <1>1, <1>4, UpdateBatchArgsInv
<1>5. CASE \E c \in BatchCalls : UpdateBatchPersistent(c)
  BY <1>1, <1>5, UpdateBatchPersistentInv
<1>6. CASE \E c \in QuorumCalls : UpdateQuorumPersistent(c)
  BY <1>1, <1>6, UpdateQuorumPersistentInv
<1>7. CASE CloseLedger
  BY <1>7, CloseLedgerInv
<1>8. CASE UNCHANGED vars
  BY <1>8 DEF vars, Inv, TypeOK, RingMatchesLatest
<1> QED BY <1>2, <1>3, <1>4, <1>5, <1>6, <1>7, <1>8 DEF Next

\* The storage is well typed: in particular every stored price is positive and at
\* most MAX_PRICE, whichever entrypoint wrote it (the bound twap() relies on).
THEOREM TypeCorrect == Spec => []TypeOK
<1>1. Spec => []Inv
  BY InitInv, NextInv, PTL DEF Spec
<1>2. Inv => TypeOK
  BY DEF Inv
<1> QED BY <1>1, <1>2, PTL

\* The history ring and the latest persistent price never disagree: the ring is
\* bounded by RING_CAP, strictly ordered by round and ends in the latest price.
THEOREM HistoryMatchesLatest == Spec => []RingMatchesLatest
<1>1. Spec => []Inv
  BY InitInv, NextInv, PTL DEF Spec
<1>2. Inv => RingMatchesLatest
  BY DEF Inv
<1> QED BY <1>1, <1>2, PTL

-----------------------------------------------------------------------------
\* What the stored stamps are worth: every entry carries the stamps of something
\* signed, not too far ahead, and a temporary entry lives until no earlier round
\* could be accepted any more.  Both rest on the clock, the acceptance window and the
\* time to live, so they hold of any system that takes the contract's steps
\* (PullPath.tla does).

\* Saturation does not widen the window.
LEMMA FreshMeans ==
  ASSUME now \in Nat, NEW timestamp \in Nat, Fresh(timestamp)
  PROVE  /\ now <= timestamp + STALENESS_SECS
         /\ timestamp <= now + FUTURE_SKEW_SECS
BY ParametersAssumption DEF Fresh, SatSub, SatAdd

\* Some signature carries this timestamp and this round.
SignedStamps(timestamp, round_id) ==
  \E s \in Signatures : s.msg.timestamp = timestamp /\ s.msg.round_id = round_id

LEMMA LaterRoundLaterStamp ==
  ASSUME CoherentSigning,
         NEW t, NEW r, SignedStamps(t, r), NEW u, NEW q, SignedStamps(u, q), r <= q
  PROVE  t <= u
BY DEF CoherentSigning, SignedStamps

\* An accepted single-publisher call is fresh, and its stamps are signed if it
\* lists an asset at all.
LEMMA BatchIsSigned ==
  ASSUME NEW c \in BatchCall, ArgsResult(c) = "Ok", NEW a \in Range(c.assets)
  PROVE  Fresh(c.timestamp) /\ SignedStamps(c.timestamp, c.round_id)
<1>1. /\ Fresh(c.timestamp) /\ Aligned(c, c.prices, c.sigs)
      /\ AllVerify(c, c.pubkey, c.prices, c.sigs)
  BY DEF ArgsResult
<1>2. PICK i \in DOMAIN c.assets : c.assets[i] = a
  BY DEF Range
<1>3. c.sigs[i] \in Signatures
  BY <1>1, <1>2 DEF Aligned, BatchCall
<1>4. Verifies(c.pubkey, c.assets[i], c.prices[i], c.timestamp, c.round_id, c.sigs[i])
  BY <1>1, <1>2 DEF AllVerify
<1> QED BY <1>1, <1>3, <1>4 DEF Verifies, SignedStamps

\* So are those of an accepted quorum call: it has at least one round.
LEMMA QuorumIsSigned ==
  ASSUME NEW c \in QuorumCall, QuorumResult(c) = "Ok", NEW a \in Range(c.assets),
         storedQuorum \in Nat
  PROVE  Fresh(c.timestamp) /\ SignedStamps(c.timestamp, c.round_id)
<1> DEFINE R == {c.rounds[i] : i \in DOMAIN c.rounds}
           r == c.rounds[1]
<1>1. /\ Fresh(c.timestamp) /\ EnoughRounds(c.rounds)
      /\ \A x \in R : Aligned(c, x.prices, x.sigs) /\ AllVerify(c, x.pubkey, x.prices, x.sigs)
  BY DEF QuorumResult
<1>2. r \in R /\ r \in PublisherRound
  BY <1>1 DEF EnoughRounds, Quorum, QuorumCall
<1>3. PICK i \in DOMAIN c.assets : c.assets[i] = a
  BY DEF Range
<1> HIDE DEF R, r
<1>4. r.sigs[i] \in Signatures
  BY <1>1, <1>2, <1>3 DEF Aligned, PublisherRound, QuorumCall
<1>5. Verifies(r.pubkey, c.assets[i], r.prices[i], c.timestamp, c.round_id, r.sigs[i])
  BY <1>1, <1>2, <1>3 DEF AllVerify
<1> QED BY <1>1, <1>4, <1>5 DEF Verifies, SignedStamps

-----------------------------------------------------------------------------
\* The invariant.

Stamped(e) ==
  e # NoEntry => /\ e.timestamp <= now + FUTURE_SKEW_SECS
                 /\ SignedStamps(e.timestamp, e.round_id)

\* A stored entry is signed, and not further ahead than was allowed when written.
EntriesStamped ==
  \A a \in Assets : Stamped(priceTemp[a]) /\ Stamped(pricePers[a])

\* When a temporary entry expires, its own round has left the window, and with it
\* every round signed before.
OutlivesWindow ==
  \A a \in Assets : priceTemp[a] # NoEntry =>
    priceTemp[a].timestamp + STALENESS_SECS < now + tempTtl[a]

TimeInv == Inv /\ EntriesStamped /\ OutlivesWindow

LEMMA InitTimeInv == Init => TimeInv
<1> SUFFICES ASSUME Init PROVE EntriesStamped /\ OutlivesWindow
  BY InitInv DEF TimeInv
<1> QED BY DEF Init, EntriesStamped, OutlivesWindow, Stamped

\* A write leaves the entry a time to live beyond the whole window.
LEMMA TtlCoversTheWindow ==
  ASSUME NEW ttl \in Nat \cup {-1}
  PROVE  /\ TtlAfterWrite(ttl) \in Nat
         /\ STALENESS_SECS + FUTURE_SKEW_SECS < TtlAfterWrite(ttl)
BY ParametersAssumption, TtlCoversWindow DEF TtlAfterWrite

LEMMA UpdateBatchArgsTimeInv ==
  ASSUME TimeInv, NEW c \in BatchCall, UpdateBatchArgs(c)
  PROVE  TimeInv'
<1> DEFINE S == Replaced(c, tempLive)
           new == NewEntries(c, tempLive, LAMBDA i : c.prices[i])
<1>1. Inv'
  BY UpdateBatchArgsInv DEF TimeInv
<1>2. /\ ArgsResult(c) = "Ok" /\ now' = now /\ pricePers' = pricePers
      /\ WriteTemp(new)
  BY DEF UpdateBatchArgs, WriteTemp
<1>3. DOMAIN new = S /\ \A a \in S : /\ new[a].timestamp = c.timestamp
                                     /\ new[a].round_id = c.round_id
  BY DEF NewEntries, Entry
<1>4. c.timestamp \in Nat /\ now \in Nat
  BY DEF BatchCall, TimeInv, Inv, TypeOK
<1> HIDE DEF new
<1>5. ASSUME NEW a \in Assets
      PROVE  /\ Stamped(priceTemp[a])' /\ Stamped(pricePers[a])'
             /\ priceTemp'[a] # NoEntry =>
                  priceTemp'[a].timestamp + STALENESS_SECS < now' + tempTtl'[a]
  <2>1. Stamped(pricePers[a])'
    BY <1>2 DEF TimeInv, EntriesStamped, Stamped, SignedStamps
  <2>2. CASE a \notin S
    <3>1. priceTemp'[a] = priceTemp[a] /\ tempTtl'[a] = tempTtl[a]
      BY <1>2, <1>3, <2>2 DEF WriteTemp
    <3>2. Stamped(priceTemp[a])'
      BY <1>2, <3>1 DEF TimeInv, EntriesStamped, Stamped, SignedStamps
    <3> QED BY <1>2, <2>1, <3>1, <3>2 DEF TimeInv, OutlivesWindow
  <2>3. CASE a \in S
    <3>1. a \in Range(c.assets)
      BY <2>3 DEF Replaced
    <3>2. Fresh(c.timestamp) /\ SignedStamps(c.timestamp, c.round_id)
      BY <1>2, <3>1, BatchIsSigned
    <3>3. c.timestamp <= now + FUTURE_SKEW_SECS
      BY <1>4, <3>2, FreshMeans
    <3>4. priceTemp'[a] = new[a] /\ tempTtl'[a] = TtlAfterWrite(tempTtl[a])
      BY <1>2, <1>3, <2>3 DEF WriteTemp
    <3>5. Stamped(priceTemp[a])'
      BY <1>2, <1>3, <2>3, <3>2, <3>3, <3>4 DEF Stamped, SignedStamps
    <3>6. tempTtl[a] \in Nat \cup {-1}
      BY DEF TimeInv, Inv, TypeOK
    <3>7. /\ tempTtl'[a] \in Nat
          /\ STALENESS_SECS + FUTURE_SKEW_SECS < tempTtl'[a]
      BY <3>4, <3>6, TtlCoversTheWindow
    <3>8. c.timestamp + STALENESS_SECS < now' + tempTtl'[a]
      BY <1>2, <1>4, <3>3, <3>7, ParametersAssumption
    <3> QED BY <1>3, <2>1, <2>3, <3>4, <3>5, <3>8
  <2> QED BY <2>2, <2>3
<1> QED BY <1>1, <1>5 DEF TimeInv, EntriesStamped, OutlivesWindow

\* The persistent entrypoints, which leave the temporary entries alone.
LEMMA PersistentWriteTimeInv ==
  ASSUME TimeInv, Inv', NEW S, NEW new, DOMAIN new = S,
         NEW timestamp \in Nat, NEW round_id,
         \A a \in S : new[a].timestamp = timestamp /\ new[a].round_id = round_id,
         S # {} => Fresh(timestamp) /\ SignedStamps(timestamp, round_id),
         WritePers(new), now' = now
  PROVE  TimeInv'
<1>1. now \in Nat
  BY DEF TimeInv, Inv, TypeOK
<1>2. ASSUME NEW a \in Assets
      PROVE  Stamped(priceTemp[a])' /\ Stamped(pricePers[a])'
  <2>1. Stamped(priceTemp[a])'
    BY DEF WritePers, TimeInv, EntriesStamped, Stamped, SignedStamps
  <2>2. CASE a \notin S
    <3>1. pricePers'[a] = pricePers[a]
      BY <2>2 DEF WritePers
    <3> QED BY <2>1, <3>1 DEF TimeInv, EntriesStamped, Stamped, SignedStamps
  <2>3. CASE a \in S
    <3>1. pricePers'[a] = new[a]
      BY <2>3 DEF WritePers
    <3>2. timestamp <= now + FUTURE_SKEW_SECS
      BY <1>1, <2>3, FreshMeans
    <3> QED BY <2>1, <2>3, <3>1, <3>2 DEF Stamped, SignedStamps
  <2> QED BY <2>2, <2>3
<1>3. OutlivesWindow'
  BY DEF WritePers, TimeInv, OutlivesWindow
<1> QED BY <1>2, <1>3 DEF TimeInv, EntriesStamped

LEMMA UpdateBatchPersistentTimeInv ==
  ASSUME TimeInv, NEW c \in BatchCall, UpdateBatchPersistent(c)
  PROVE  TimeInv'
<1> DEFINE S == Replaced(c, pricePers)
           new == NewEntries(c, pricePers, LAMBDA i : c.prices[i])
<1>1. Inv'
  BY UpdateBatchPersistentInv DEF TimeInv
<1>2. ArgsResult(c) = "Ok" /\ now' = now /\ WritePers(new)
  BY DEF UpdateBatchPersistent, PersistentResult
<1>3. DOMAIN new = S /\ \A a \in S : /\ new[a].timestamp = c.timestamp
                                     /\ new[a].round_id = c.round_id
  BY DEF NewEntries, Entry
<1>4. S # {} => Fresh(c.timestamp) /\ SignedStamps(c.timestamp, c.round_id)
  BY <1>2, BatchIsSigned DEF Replaced
<1>5. c.timestamp \in Nat
  BY DEF BatchCall
<1> HIDE DEF new, S
<1> QED BY <1>1, <1>2, <1>3, <1>4, <1>5, PersistentWriteTimeInv

LEMMA UpdateQuorumPersistentTimeInv ==
  ASSUME TimeInv, NEW c \in QuorumCall, UpdateQuorumPersistent(c)
  PROVE  TimeInv'
<1> DEFINE S == Replaced(c, pricePers)
           new == NewEntries(c, pricePers, LAMBDA i : Median(PriceColumn(c.rounds, i)))
<1>1. Inv'
  BY UpdateQuorumPersistentInv DEF TimeInv
<1>2. /\ QuorumResult(c) = "Ok" /\ now' = now /\ WritePers(new)
      /\ storedQuorum \in Nat
  BY DEF UpdateQuorumPersistent, TimeInv, Inv, TypeOK
<1>3. DOMAIN new = S /\ \A a \in S : /\ new[a].timestamp = c.timestamp
                                     /\ new[a].round_id = c.round_id
  BY DEF NewEntries, Entry
<1>4. S # {} => Fresh(c.timestamp) /\ SignedStamps(c.timestamp, c.round_id)
  BY <1>2, QuorumIsSigned DEF Replaced
<1>5. c.timestamp \in Nat
  BY DEF QuorumCall
<1> HIDE DEF new, S
<1> QED BY <1>1, <1>2, <1>3, <1>4, <1>5, PersistentWriteTimeInv

\* Every ledger takes at least as many seconds from the window as ledgers from the
\* time to live.
LEMMA CloseLedgerTimeInv ==
  ASSUME TimeInv, CloseLedger
  PROVE  TimeInv'
<1>1. Inv'
  BY CloseLedgerInv DEF TimeInv
<1>2. now \in Nat /\ now' \in Nat /\ now < now'
  BY ParametersAssumption DEF CloseLedger, TimeInv, Inv, TypeOK
<1>3. priceTemp' = priceTemp /\ pricePers' = pricePers
  BY DEF CloseLedger
<1>4. ASSUME NEW a \in Assets
      PROVE  /\ Stamped(priceTemp[a])' /\ Stamped(pricePers[a])'
             /\ priceTemp'[a] # NoEntry =>
                  priceTemp'[a].timestamp + STALENESS_SECS < now' + tempTtl'[a]
  <2>1. /\ priceTemp[a] \in PriceEntry \cup {NoEntry}
        /\ pricePers[a] \in PriceEntry \cup {NoEntry}
        /\ tempTtl[a] \in Nat \cup {-1}
    BY DEF TimeInv, Inv, TypeOK
  <2>2. \A e \in PriceEntry : e.timestamp \in Nat
    BY DEF PriceEntry
  <2>3. ASSUME NEW e \in PriceEntry \cup {NoEntry}, Stamped(e)
        PROVE  e # NoEntry => /\ e.timestamp <= now' + FUTURE_SKEW_SECS
                              /\ SignedStamps(e.timestamp, e.round_id)
    BY <1>2, <2>2, <2>3, ParametersAssumption DEF Stamped
  <2>4. Stamped(priceTemp[a])' /\ Stamped(pricePers[a])'
    BY <1>3, <2>1, <2>3 DEF TimeInv, EntriesStamped, Stamped, SignedStamps
  <2>5. tempTtl'[a] = IF tempTtl[a] < 0 THEN -1 ELSE tempTtl[a] - 1
    BY DEF CloseLedger
  <2>6. tempTtl'[a] \in Int /\ now + tempTtl[a] <= now' + tempTtl'[a]
    BY <1>2, <2>1, <2>5
  <2>7. priceTemp[a] # NoEntry =>
          priceTemp[a].timestamp + STALENESS_SECS < now' + tempTtl'[a]
    <3> SUFFICES ASSUME priceTemp[a] # NoEntry
                 PROVE  priceTemp[a].timestamp + STALENESS_SECS < now' + tempTtl'[a]
      OBVIOUS
    <3>1. priceTemp[a].timestamp \in Nat
      BY <2>1, <2>2
    <3>2. priceTemp[a].timestamp + STALENESS_SECS < now + tempTtl[a]
      BY DEF TimeInv, OutlivesWindow
    <3> QED BY <1>2, <2>1, <2>6, <3>1, <3>2, ParametersAssumption
  <2> QED BY <1>3, <2>4, <2>7
<1> QED BY <1>1, <1>4 DEF TimeInv, EntriesStamped, OutlivesWindow

\* The admin's steps, and a step that is none.
LEMMA SameEntriesTimeInv ==
  ASSUME TimeInv, Inv', UNCHANGED <<now, priceVars>>
  PROVE  TimeInv'
BY DEF TimeInv, EntriesStamped, OutlivesWindow, Stamped, SignedStamps, priceVars

LEMMA NextTimeInv == TimeInv /\ [Next]_vars => TimeInv'
<1> SUFFICES ASSUME TimeInv, [Next]_vars PROVE TimeInv'
  OBVIOUS
<1>1. BatchCalls \subseteq BatchCall /\ QuorumCalls \subseteq QuorumCall
  BY CallsAssumption
<1>2. Inv'
  BY NextInv DEF TimeInv
<1>3. CASE \E list \in PublisherLists : SetPublishers(list)
  BY <1>2, <1>3, SameEntriesTimeInv DEF SetPublishers
<1>4. CASE \E quorum \in QuorumArgs : SetQuorum(quorum)
  BY <1>2, <1>4, SameEntriesTimeInv DEF SetQuorum
<1>5. CASE \E c \in BatchCalls : UpdateBatchArgs(c)
  BY <1>1, <1>5, UpdateBatchArgsTimeInv
<1>6. CASE \E c \in BatchCalls : UpdateBatchPersistent(c)
  BY <1>1, <1>6, UpdateBatchPersistentTimeInv
<1>7. CASE \E c \in QuorumCalls : UpdateQuorumPersistent(c)
  BY <1>1, <1>7, UpdateQuorumPersistentTimeInv
<1>8. CASE CloseLedger
  BY <1>8, CloseLedgerTimeInv
<1>9. CASE UNCHANGED vars
  BY <1>2, <1>9, SameEntriesTimeInv DEF vars, priceVars
<1> QED BY <1>3, <1>4, <1>5, <1>6, <1>7, <1>8, <1>9 DEF Next

-----------------------------------------------------------------------------
\* What follows.

\* When publishers sign coherently, an accepted round replaces a temporary entry only
\* when it is newer, also when the entry has expired: its own round and every one
\* before it are too old to be accepted by then.
LEMMA BatchAdvances ==
  ASSUME TimeInv, CoherentSigning, NEW c \in BatchCall, ArgsResult(c) = "Ok",
         NEW a \in Assets, a \in Replaced(c, tempLive)
  PROVE  IsNewer(priceTemp[a], c.round_id)
<1> DEFINE e == priceTemp[a]
<1> SUFFICES ASSUME e # NoEntry PROVE c.round_id > e.round_id
  BY DEF IsNewer
<1>1. /\ now \in Nat /\ c.timestamp \in Nat /\ c.round_id \in Nat
      /\ e \in PriceEntry /\ e.timestamp \in Nat /\ e.round_id \in Nat
      /\ tempTtl[a] \in Nat \cup {-1}
  BY DEF TimeInv, Inv, TypeOK, BatchCall, PriceEntry
<1>2. CASE tempTtl[a] >= 0
  BY <1>1, <1>2 DEF Replaced, IsNewer, tempLive
<1>3. CASE tempTtl[a] = -1
  <2> SUFFICES ASSUME c.round_id <= e.round_id PROVE FALSE
    BY <1>1
  <2>1. Fresh(c.timestamp) /\ SignedStamps(c.timestamp, c.round_id)
    BY BatchIsSigned DEF Replaced
  <2>2. SignedStamps(e.timestamp, e.round_id)
    BY DEF TimeInv, EntriesStamped, Stamped
  <2>3. c.timestamp <= e.timestamp
    BY <2>1, <2>2, LaterRoundLaterStamp
  <2>4. now <= c.timestamp + STALENESS_SECS
    BY <1>1, <2>1, FreshMeans
  <2>5. e.timestamp + STALENESS_SECS < now + tempTtl[a]
    BY DEF TimeInv, OutlivesWindow
  <2> HIDE DEF e
  <2> QED BY <1>1, <1>3, <2>3, <2>4, <2>5, ParametersAssumption
<1> QED BY <1>1, <1>2, <1>3

LEMMA BatchNeverRegresses ==
  ASSUME TimeInv, CoherentSigning, NEW c \in BatchCall, UpdateBatchArgs(c),
         NEW a \in Assets, priceTemp[a] # NoEntry
  PROVE  priceTemp'[a].round_id >= priceTemp[a].round_id
<1> DEFINE S == Replaced(c, tempLive)
           new == NewEntries(c, tempLive, LAMBDA i : c.prices[i])
<1>1. ArgsResult(c) = "Ok" /\ WriteTemp(new)
  BY DEF UpdateBatchArgs
<1>2. DOMAIN new = S /\ \A x \in S : new[x].round_id = c.round_id
  BY DEF NewEntries, Entry
<1>3. c.round_id \in Nat /\ priceTemp[a] \in PriceEntry /\ priceTemp[a].round_id \in Nat
  BY DEF TimeInv, Inv, TypeOK, BatchCall, PriceEntry
<1> HIDE DEF new
<1>4. CASE a \notin S
  BY <1>1, <1>2, <1>3, <1>4 DEF WriteTemp
<1>5. CASE a \in S
  <2>1. priceTemp'[a].round_id = c.round_id
    BY <1>1, <1>2, <1>5 DEF WriteTemp
  <2>2. IsNewer(priceTemp[a], c.round_id)
    BY <1>1, <1>5, BatchAdvances
  <2> QED BY <1>3, <2>1, <2>2 DEF IsNewer
<1> QED BY <1>4, <1>5

\* The temporary price of no asset ever goes back to an earlier round.
THEOREM TemporaryRoundsAdvance == Spec => TemporaryPriceNeverRegresses
<1> DEFINE Step == CoherentSigning =>
                     \A a \in Assets : priceTemp[a] # NoEntry =>
                       priceTemp'[a].round_id >= priceTemp[a].round_id
<1>1. TimeInv /\ [Next]_vars => Step
  <2> SUFFICES ASSUME TimeInv, [Next]_vars, CoherentSigning,
                      NEW a \in Assets, priceTemp[a] # NoEntry
               PROVE  priceTemp'[a].round_id >= priceTemp[a].round_id
    OBVIOUS
  <2>1. CASE \E c \in BatchCalls : UpdateBatchArgs(c)
    BY <2>1, BatchNeverRegresses, CallsAssumption
  <2>2. ASSUME priceTemp' = priceTemp
        PROVE  priceTemp'[a].round_id >= priceTemp[a].round_id
    BY <2>2 DEF TimeInv, Inv, TypeOK, PriceEntry
  <2>3. CASE \E list \in PublisherLists : SetPublishers(list)
    BY <2>2, <2>3 DEF SetPublishers, priceVars
  <2>4. CASE \E quorum \in QuorumArgs : SetQuorum(quorum)
    BY <2>2, <2>4 DEF SetQuorum, priceVars
  <2>5. CASE \E c \in BatchCalls : UpdateBatchPersistent(c)
    BY <2>2, <2>5 DEF UpdateBatchPersistent, WritePers
  <2>6. CASE \E c \in QuorumCalls : UpdateQuorumPersistent(c)
    BY <2>2, <2>6 DEF UpdateQuorumPersistent, WritePers
  <2>7. CASE CloseLedger
    BY <2>2, <2>7 DEF CloseLedger
  <2>8. CASE UNCHANGED vars
    BY <2>2, <2>8 DEF vars
  <2> QED BY <2>1, <2>3, <2>4, <2>5, <2>6, <2>7, <2>8 DEF Next
<1>2. Spec => [][Step]_vars
  BY <1>1, InitTimeInv, NextTimeInv, PTL DEF Spec
<1> QED BY <1>2, PTL DEF TemporaryPriceNeverRegresses

\* A stored entry that a fresh signed round does not replace is itself fresh: it was
\* signed with a later or the same round, so not before.
LEMMA NotReplacedIsFresh ==
  ASSUME now \in Nat, CoherentSigning,
         NEW timestamp \in Nat, NEW round_id \in Nat,
         Fresh(timestamp), SignedStamps(timestamp, round_id),
         NEW e \in PriceEntry \cup {NoEntry}, Stamped(e), ~IsNewer(e, round_id)
  PROVE  InWindow(e)
<1>1. e # NoEntry /\ e \in PriceEntry /\ e.timestamp \in Nat /\ e.round_id \in Nat
  BY DEF IsNewer, PriceEntry
<1>2. round_id <= e.round_id
  BY <1>1 DEF IsNewer
<1>3. e.timestamp <= now + FUTURE_SKEW_SECS /\ SignedStamps(e.timestamp, e.round_id)
  BY <1>1 DEF Stamped
<1>4. timestamp <= e.timestamp
  BY <1>2, <1>3, LaterRoundLaterStamp
<1>5. now <= timestamp + STALENESS_SECS
  BY FreshMeans
<1> QED BY <1>1, <1>3, <1>4, <1>5, ParametersAssumption DEF InWindow

LEMMA TimeInvReadsFresh ==
  ASSUME TimeInv
  PROVE  SilentNoOpReadsFresh
<1> SUFFICES ASSUME CoherentSigning PROVE SilentNoOpReadsFresh
  BY DEF SilentNoOpReadsFresh
<1>1. now \in Nat /\ storedQuorum \in Nat
  BY DEF TimeInv, Inv, TypeOK
<1>2. \A a \in Assets : /\ tempLive[a] \in PriceEntry \cup {NoEntry}
                        /\ pricePers[a] \in PriceEntry \cup {NoEntry}
                        /\ Stamped(tempLive[a]) /\ Stamped(pricePers[a])
  BY DEF TimeInv, Inv, TypeOK, EntriesStamped, Stamped, tempLive
<1>3. ASSUME NEW c \in BatchCalls, ArgsResult(c) = "Ok", NEW a \in Range(c.assets)
      PROVE  /\ c.timestamp \in Nat /\ c.round_id \in Nat /\ a \in Assets
             /\ Fresh(c.timestamp) /\ SignedStamps(c.timestamp, c.round_id)
  <2>1. c \in BatchCall
    BY CallsAssumption
  <2>2. c.timestamp \in Nat /\ c.round_id \in Nat /\ a \in Assets
    BY <2>1 DEF BatchCall, Range
  <2> QED BY <1>3, <2>1, <2>2, BatchIsSigned
<1>4. ASSUME NEW c \in QuorumCalls, QuorumResult(c) = "Ok", NEW a \in Range(c.assets)
      PROVE  /\ c.timestamp \in Nat /\ c.round_id \in Nat /\ a \in Assets
             /\ Fresh(c.timestamp) /\ SignedStamps(c.timestamp, c.round_id)
  <2>1. c \in QuorumCall
    BY CallsAssumption
  <2>2. c.timestamp \in Nat /\ c.round_id \in Nat /\ a \in Assets
    BY <2>1 DEF QuorumCall, Range
  <2> QED BY <1>1, <1>4, <2>1, <2>2, QuorumIsSigned
<1>5. ASSUME NEW c \in BatchCalls, ArgsResult(c) = "Ok",
             NEW a \in Range(c.assets) \ Replaced(c, tempLive)
      PROVE  InWindow(tempLive[a])
  BY <1>1, <1>2, <1>3, <1>5, NotReplacedIsFresh DEF Replaced
<1>6. ASSUME NEW c \in BatchCalls, PersistentResult(c) = "Ok",
             NEW a \in Range(c.assets) \ Replaced(c, pricePers)
      PROVE  InWindow(pricePers[a])
  <2>1. ArgsResult(c) = "Ok"
    BY <1>6 DEF PersistentResult
  <2> QED BY <1>1, <1>2, <1>3, <1>6, <2>1, NotReplacedIsFresh DEF Replaced
<1>7. ASSUME NEW c \in QuorumCalls, QuorumResult(c) = "Ok",
             NEW a \in Range(c.assets) \ Replaced(c, pricePers)
      PROVE  InWindow(pricePers[a])
  BY <1>1, <1>2, <1>4, <1>7, NotReplacedIsFresh DEF Replaced
<1> QED BY <1>5, <1>6, <1>7 DEF SilentNoOpReadsFresh

\* A round that is accepted without being written leaves the reader a price that is
\* at least as new and inside the acceptance window, through every entrypoint.
THEOREM NoOpsAreHarmless == Spec => []SilentNoOpReadsFresh
<1>1. Spec => []TimeInv
  BY InitTimeInv, NextTimeInv, PTL DEF Spec
<1>2. TimeInv => SilentNoOpReadsFresh
  BY TimeInvReadsFresh
<1> QED BY <1>1, <1>2, PTL

-----------------------------------------------------------------------------
\* A panel: n signed quotes for one entry, of distinct registered keys, whose
\* median is the price.

Panel(n, a, e) ==
  \E q \in [1..n -> {s \in QuotesFor(a, e) : PriceOk(s.msg.price)}] :
    /\ \A i, j \in 1..n : q[i].key = q[j].key => i = j
    /\ e.price = Median([i \in 1..n |-> q[i].msg.price])

LEMMA PositionsAreFinite ==
  ASSUME NEW n \in Nat, NEW I \in SUBSET (1..n)
  PROVE  IsFiniteSet(I) /\ IsFiniteSet(1..n) /\ Cardinality(1..n) = n
<1>1. IsFiniteSet(1..n) /\ Cardinality(1..n) = n
  BY FS_Interval
<1> QED BY <1>1, FS_Subset

QuotesAt(q, I) == {q[i] : i \in I}

\* Quotes of distinct keys are as many as their positions, in any part of the panel.
LEMMA DistinctQuotesCount ==
  ASSUME NEW n \in Nat, NEW q, DOMAIN q = 1..n,
         \A i, j \in 1..n : q[i].key = q[j].key => i = j,
         NEW I \in SUBSET (1..n)
  PROVE  Cardinality(QuotesAt(q, I)) = Cardinality(I)
<1> DEFINE T == QuotesAt(q, I)
           f == [i \in I |-> q[i]]
<1>1. IsFiniteSet(I)
  BY PositionsAreFinite
<1>2. f \in Bijection(I, T)
  <2>1. f \in [I -> T] /\ \A i, j \in I : f[i] = f[j] => i = j
    BY DEF QuotesAt
  <2>2. \A t \in T : \E i \in I : f[i] = t
    BY DEF QuotesAt
  <2> QED BY <2>1, <2>2 DEF Bijection, Injection, IsInjective, Surjection
<1>3. ExistsBijection(I, T)
  BY <1>2 DEF ExistsBijection
<1> HIDE DEF T
<1>4. Cardinality(T) = Cardinality(I)
  BY <1>1, <1>3, FS_Bijection
<1> QED BY <1>4 DEF T

LEMMA PanelBacks ==
  ASSUME NEW n \in Nat \ {0}, NEW k \in Nat, k <= n, NEW a, NEW e, Panel(n, a, e)
  PROVE  BackedBy(k, a, e)
<1>1. PICK q \in [1..n -> {s \in QuotesFor(a, e) : PriceOk(s.msg.price)}] :
        /\ \A i, j \in 1..n : q[i].key = q[j].key => i = j
        /\ e.price = Median([i \in 1..n |-> q[i].msg.price])
  BY DEF Panel
<1> DEFINE Q == QuotesAt(q, 1..n)
           px == [i \in 1..n |-> q[i].msg.price]
<1>2. DOMAIN q = 1..n
  OBVIOUS
<1>3. Q \in SUBSET QuotesFor(a, e)
  BY <1>1 DEF QuotesAt
<1>4. Cardinality(Q) = n
  <2>1. Cardinality(QuotesAt(q, 1..n)) = Cardinality(1..n)
    BY <1>1, <1>2, DistinctQuotesCount
  <2>2. Cardinality(1..n) = n
    BY PositionsAreFinite
  <2> QED BY <2>1, <2>2
<1>5. \A s, t \in Q : s.key = t.key => s = t
  BY <1>1 DEF QuotesAt
<1>6. px \in [1 .. Cardinality(Q) -> {s.msg.price : s \in Q}]
  <2>1. \A i \in 1..n : px[i] \in {s.msg.price : s \in Q}
    BY DEF QuotesAt
  <2> QED BY <1>4, <2>1
<1>7. \A p \in Range(px) : Cardinality({i \in DOMAIN px : px[i] = p})
                         = Cardinality({s \in Q : s.msg.price = p})
  <2> TAKE p \in Range(px)
  <2> DEFINE I == {i \in 1..n : q[i].msg.price = p}
  <2>1. {i \in DOMAIN px : px[i] = p} = I /\ I \in SUBSET (1..n)
    OBVIOUS
  <2>2. {s \in Q : s.msg.price = p} = QuotesAt(q, I)
    BY DEF QuotesAt
  <2> HIDE DEF I, Q, px
  <2>3. Cardinality(QuotesAt(q, I)) = Cardinality(I)
    BY <1>1, <1>2, <2>1, DistinctQuotesCount
  <2> QED BY <2>1, <2>2, <2>3
<1>8. e.price = Median(px)
  BY <1>1
<1> HIDE DEF Q, px
<1> QED BY <1>3, <1>4, <1>5, <1>6, <1>7, <1>8 DEF BackedBy

\* Distinct keys at enough positions of a panel are not all faulty.
LEMMA SomeKeyIsCorrect ==
  ASSUME NEW n \in Nat, NEW q, DOMAIN q = 1..n,
         \A i, j \in 1..n : q[i].key = q[j].key => i = j,
         NEW I \in SUBSET (1..n), NEW faulty, IsFiniteSet(faulty),
         n <= 2 * Cardinality(I), 2 * Cardinality(faulty) < n
  PROVE  \E i \in I : q[i].key \notin faulty
<1> SUFFICES ASSUME \A i \in I : q[i].key \in faulty PROVE FALSE
  OBVIOUS
<1> DEFINE f == [i \in I |-> q[i].key]
<1>1. IsFiniteSet(I)
  BY PositionsAreFinite
<1>2. f \in Injection(I, faulty)
  <2>1. f \in [I -> faulty] /\ \A i, j \in I : f[i] = f[j] => i = j
    OBVIOUS
  <2> QED BY <2>1 DEF Injection, IsInjective
<1> HIDE DEF f
<1>3. Cardinality(I) <= Cardinality(faulty)
  BY <1>2, FS_Injection
<1>4. Cardinality(I) \in Nat /\ Cardinality(faulty) \in Nat
  BY <1>1, FS_CardinalityType
<1> QED BY <1>3, <1>4

LEMMA PanelResistsMinority ==
  ASSUME NEW n \in Nat \ {0}, NEW a, NEW e, Panel(n, a, e),
         NEW faulty, IsFiniteSet(faulty), 2 * Cardinality(faulty) < n
  PROVE  \E s, t \in QuotesFor(a, e) :
           /\ {s.key, t.key} \cap faulty = {}
           /\ s.msg.price <= e.price
           /\ e.price <= t.msg.price
<1>1. PICK q \in [1..n -> {s \in QuotesFor(a, e) : PriceOk(s.msg.price)}] :
        /\ \A i, j \in 1..n : q[i].key = q[j].key => i = j
        /\ e.price = Median([i \in 1..n |-> q[i].msg.price])
  BY DEF Panel
<1> DEFINE px == [i \in 1..n |-> q[i].msg.price]
<1>2. px \in [1..n -> Nat]
  <2>1. \A i \in 1..n : q[i] \in QuotesFor(a, e) /\ PriceOk(q[i].msg.price)
    BY <1>1
  <2>2. \A s \in QuotesFor(a, e) : s.msg.price \in Int
    BY CallsAssumption DEF QuotesFor, Signature, Message
  <2> QED BY <2>1, <2>2 DEF PriceOk
<1>3. /\ DOMAIN px = 1..n
      /\ \A i \in 1..n : q[i] \in QuotesFor(a, e) /\ px[i] = q[i].msg.price
      /\ e.price = Median(px)
  BY <1>1
<1> HIDE DEF px
<1>4. /\ n <= 2 * Cardinality(AtMost(px, e.price))
      /\ n <= 2 * Cardinality(AtLeast(px, e.price))
  BY <1>2, <1>3, MedianSplits
<1>5. AtMost(px, e.price) \in SUBSET (1..n) /\ AtLeast(px, e.price) \in SUBSET (1..n)
  BY <1>3 DEF AtMost, AtLeast
<1> DEFINE low == AtMost(px, e.price)
           high == AtLeast(px, e.price)
<1>5a. /\ n \in Nat /\ DOMAIN q = 1..n
       /\ \A i, j \in 1..n : q[i].key = q[j].key => i = j
       /\ low \in SUBSET (1..n) /\ high \in SUBSET (1..n)
       /\ n <= 2 * Cardinality(low) /\ n <= 2 * Cardinality(high)
  BY <1>1, <1>4, <1>5
<1> HIDE DEF low, high
<1>6. PICK i \in low : q[i].key \notin faulty
  BY <1>5a, SomeKeyIsCorrect
<1>7. PICK j \in high : q[j].key \notin faulty
  BY <1>5a, SomeKeyIsCorrect
<1> USE DEF low, high
<1>8. q[i].msg.price <= e.price /\ e.price <= q[j].msg.price
  <2>1. e.price \in Nat
    BY <1>2, <1>3, MedianSplits
  <2> QED BY <1>2, <1>3, <1>5, <1>6, <1>7, <2>1 DEF AtMost, AtLeast
<1> QED BY <1>3, <1>5, <1>6, <1>7, <1>8

-----------------------------------------------------------------------------
\* The entries that accepted calls write.

\* The signature at position i of a single-publisher call is a panel of one.
LEMMA BatchPanel ==
  ASSUME NEW c \in BatchCall, ArgsResult(c) = "Ok", NEW i \in DOMAIN c.assets
  PROVE  Panel(1, c.assets[i], Entry(c, c.prices[i]))
<1> DEFINE a == c.assets[i]
           e == Entry(c, c.prices[i])
           s == c.sigs[i]
           q == [j \in 1..1 |-> s]
<1>1. /\ Aligned(c, c.prices, c.sigs) /\ IsPublisher(c.pubkey)
      /\ AllPricesOk(c.prices) /\ AllVerify(c, c.pubkey, c.prices, c.sigs)
  BY DEF ArgsResult
<1>2. s \in Signatures /\ c.prices[i] \in Int /\ i \in DOMAIN c.prices
  BY <1>1 DEF Aligned, BatchCall
<1>3. s = [key |-> c.pubkey,
           msg |-> [asset |-> a, price |-> c.prices[i],
                    timestamp |-> c.timestamp, round_id |-> c.round_id]]
  BY <1>1 DEF AllVerify, Verifies
<1>4. s \in QuotesFor(a, e) /\ PriceOk(s.msg.price) /\ s.msg.price = c.prices[i]
  BY <1>1, <1>2, <1>3 DEF QuotesFor, Entry, IsPublisher, AllPricesOk
<1>5. c.prices[i] \in Nat
  BY <1>2, <1>4 DEF PriceOk
<1> HIDE DEF s
<1>6. q \in [1..1 -> {x \in QuotesFor(a, e) : PriceOk(x.msg.price)}]
  BY <1>4
<1>7. e.price = Median([j \in 1..1 |-> q[j].msg.price])
  <2> DEFINE px == [j \in 1..1 |-> q[j].msg.price]
  <2>1. px \in [1..1 -> Nat] /\ px[1] = c.prices[i]
    BY <1>4, <1>5
  <2>2. Median(px) = c.prices[i]
    <3> HIDE DEF px
    <3> QED BY <2>1, MedianOfOne
  <2> QED BY <2>2 DEF Entry
<1>8. \A j, l \in 1..1 : j = l
  OBVIOUS
<1> HIDE DEF q, e
<1> QED BY <1>6, <1>7, <1>8 DEF Panel, e

\* No key occurs twice in an accepted roster.
LEMMA RosterIsDistinct ==
  ASSUME NEW rounds, NEW n \in Nat, DOMAIN rounds = 1..n, Len(rounds) = n,
         RosterResult(rounds) = "Ok"
  PROVE  /\ \A i \in 1..n : IsPublisher(rounds[i].pubkey)
         /\ \A i, j \in 1..n : rounds[i].pubkey = rounds[j].pubkey => i = j
<1>1. \A i \in 1..n : ~Repeated(rounds, i)
  BY DEF RosterResult
<1>2. \A i \in 1..n : IsPublisher(rounds[i].pubkey)
  BY <1>1 DEF RosterResult
<1>3. ASSUME NEW i \in 1..n, NEW j \in 1..n, i < j, rounds[i].pubkey = rounds[j].pubkey
      PROVE  FALSE
  BY <1>1, <1>3 DEF Repeated
<1>4. \A i, j \in 1..n : rounds[i].pubkey = rounds[j].pubkey => i = j
  <2> SUFFICES ASSUME NEW i \in 1..n, NEW j \in 1..n,
                      rounds[i].pubkey = rounds[j].pubkey, i # j
               PROVE  FALSE
    OBVIOUS
  <2>1. i < j \/ j < i
    OBVIOUS
  <2> QED BY <1>3, <2>1
<1> QED BY <1>2, <1>4

\* Column i of an accepted quorum call is a panel of all its rounds, at least a
\* quorum of them.
LEMMA QuorumPanel ==
  ASSUME NEW c \in QuorumCall, QuorumResult(c) = "Ok", NEW i \in DOMAIN c.assets,
         storedQuorum \in Nat
  PROVE  LET n == Len(c.rounds) IN
         /\ n \in Nat \ {0} /\ Quorum <= n
         /\ Panel(n, c.assets[i], Entry(c, Median(PriceColumn(c.rounds, i))))
<1> DEFINE n == Len(c.rounds)
           R == {c.rounds[j] : j \in DOMAIN c.rounds}
           a == c.assets[i]
           e == Entry(c, Median(PriceColumn(c.rounds, i)))
           q == [j \in 1..n |-> c.rounds[j].sigs[i]]
<1>1. /\ n \in Nat /\ DOMAIN c.rounds = 1..n
      /\ \A j \in 1..n : c.rounds[j] \in PublisherRound /\ c.rounds[j] \in R
  BY DEF QuorumCall
<1>2. /\ \A r \in R : /\ Aligned(c, r.prices, r.sigs)
                      /\ AllPricesOk(r.prices)
                      /\ AllVerify(c, r.pubkey, r.prices, r.sigs)
      /\ RosterResult(c.rounds) = "Ok"
      /\ EnoughRounds(c.rounds)
  BY DEF QuorumResult
<1> HIDE DEF R
<1>3. n \in Nat \ {0} /\ Quorum <= n
  BY <1>1, <1>2 DEF EnoughRounds, Quorum
<1>4. /\ \A j \in 1..n : IsPublisher(c.rounds[j].pubkey)
      /\ \A j, k \in 1..n : c.rounds[j].pubkey = c.rounds[k].pubkey => j = k
  BY <1>1, <1>2, RosterIsDistinct
<1>5. ASSUME NEW j \in 1..n
      PROVE  /\ q[j] \in QuotesFor(a, e) /\ PriceOk(q[j].msg.price)
             /\ q[j].key = c.rounds[j].pubkey
             /\ q[j].msg.price = c.rounds[j].prices[i]
  <2> DEFINE r == c.rounds[j]
  <2>1. r \in PublisherRound /\ r \in R
    BY <1>1
  <2>2. /\ Aligned(c, r.prices, r.sigs) /\ AllPricesOk(r.prices)
        /\ AllVerify(c, r.pubkey, r.prices, r.sigs)
    BY <1>2, <2>1
  <2>3. IsPublisher(r.pubkey)
    BY <1>4
  <2>4. q[j] = r.sigs[i]
    OBVIOUS
  <2> HIDE DEF r, q
  <2>5. r.sigs[i] \in Signatures /\ i \in DOMAIN r.prices
    BY <2>1, <2>2 DEF Aligned, PublisherRound, QuorumCall
  <2>6. r.sigs[i] = [key |-> r.pubkey,
                     msg |-> [asset |-> a, price |-> r.prices[i],
                              timestamp |-> c.timestamp, round_id |-> c.round_id]]
    BY <2>2 DEF AllVerify, Verifies
  <2>7. PriceOk(r.prices[i])
    BY <2>2, <2>5 DEF AllPricesOk
  <2> QED BY <2>3, <2>4, <2>5, <2>6, <2>7 DEF QuotesFor, Entry, IsPublisher, r
<1>6. q \in [1..n -> {s \in QuotesFor(a, e) : PriceOk(s.msg.price)}]
  <2>1. \A j \in 1..n : q[j] \in {s \in QuotesFor(a, e) : PriceOk(s.msg.price)}
    BY <1>5
  <2> QED BY <2>1
<1>7. \A j, k \in 1..n : q[j].key = q[k].key => j = k
  <2>1. \A j \in 1..n : q[j].key = c.rounds[j].pubkey
    BY <1>5
  <2> HIDE DEF q, n
  <2> QED BY <1>4, <2>1
<1>8. e.price = Median([j \in 1..n |-> q[j].msg.price])
  <2>1. PriceColumn(c.rounds, i) = [j \in 1..n |-> c.rounds[j].prices[i]]
    BY <1>1 DEF PriceColumn
  <2>2. [j \in 1..n |-> q[j].msg.price] = [j \in 1..n |-> c.rounds[j].prices[i]]
    BY <1>5
  <2> QED BY <2>1, <2>2 DEF Entry
<1> HIDE DEF q, e, n
<1>9. Panel(n, a, e)
  BY <1>6, <1>7, <1>8 DEF Panel
<1> QED BY <1>3, <1>9 DEF n, e

-----------------------------------------------------------------------------
\* What a step does to the persistent price of one asset.

\* An entry that may replace the stored one: the median of a quorum's panel, in the
\* window, of a newer round.
Accepted(a, e) ==
  /\ \E n \in Nat \ {0} : Quorum <= n /\ Panel(n, a, e)
  /\ InWindow(e)
  /\ IsNewer(pricePers[a], e.round_id)

LEMMA WrittenIsAccepted ==
  ASSUME Inv, NEW a \in Assets, NEW S, NEW new, DOMAIN new = S, WritePers(new),
         \A x \in S : Accepted(x, new[x]), pricePers'[a] # pricePers[a]
  PROVE  Accepted(a, pricePers'[a])
<1>1. a \in S
  BY DEF WritePers, Inv, TypeOK
<1>2. pricePers'[a] = new[a]
  BY <1>1 DEF WritePers
<1> QED BY <1>1, <1>2

LEMMA EntryInWindow ==
  ASSUME now \in Nat, NEW c, c.timestamp \in Nat, Fresh(c.timestamp), NEW price
  PROVE  InWindow(Entry(c, price))
BY FreshMeans DEF InWindow, Entry

LEMMA PersistentStep ==
  ASSUME Inv, [Next]_vars, NEW a \in Assets, pricePers'[a] # pricePers[a]
  PROVE  Accepted(a, pricePers'[a])
<1>1. now \in Nat /\ storedQuorum \in Nat
  BY DEF Inv, TypeOK
<1>2. ASSUME NEW c \in BatchCalls, UpdateBatchPersistent(c)
      PROVE  Accepted(a, pricePers'[a])
  <2> DEFINE S == Replaced(c, pricePers)
             new == NewEntries(c, pricePers, LAMBDA i : c.prices[i])
  <2>1. c \in BatchCall
    BY CallsAssumption
  <2>2. ArgsResult(c) = "Ok" /\ ~SinglePathClosed /\ WritePers(new)
    BY <1>2 DEF UpdateBatchPersistent, PersistentResult
  <2>3. c.timestamp \in Nat /\ Fresh(c.timestamp) /\ c.assets \in Seq(Assets)
    BY <2>1, <2>2 DEF ArgsResult, BatchCall
  <2>4. Quorum <= 1
    BY <1>1, <2>2 DEF SinglePathClosed, Quorum
  <2>5. ASSUME NEW x \in S
        PROVE  Accepted(x, new[x])
    <3> DEFINE i == Position(c, x)
    <3>1. i \in DOMAIN c.assets /\ c.assets[i] = x
      BY <2>3, PositionOfListed DEF Replaced
    <3>2. new[x] = Entry(c, c.prices[i])
      BY DEF NewEntries
    <3> HIDE DEF i, new
    <3>3. Panel(1, x, new[x])
      BY <2>1, <2>2, <3>1, <3>2, BatchPanel
    <3>4. InWindow(new[x])
      BY <1>1, <2>3, <3>2, EntryInWindow
    <3>5. IsNewer(pricePers[x], new[x].round_id)
      BY <3>2 DEF Replaced, Entry
    <3> QED BY <2>4, <3>3, <3>4, <3>5 DEF Accepted
  <2>6. DOMAIN new = S
    BY DEF NewEntries
  <2> HIDE DEF new, S
  <2> QED BY <2>2, <2>5, <2>6, WrittenIsAccepted
<1>3. ASSUME NEW c \in QuorumCalls, UpdateQuorumPersistent(c)
      PROVE  Accepted(a, pricePers'[a])
  <2> DEFINE S == Replaced(c, pricePers)
             new == NewEntries(c, pricePers, LAMBDA i : Median(PriceColumn(c.rounds, i)))
  <2>1. c \in QuorumCall
    BY CallsAssumption
  <2>2. QuorumResult(c) = "Ok" /\ WritePers(new)
    BY <1>3 DEF UpdateQuorumPersistent
  <2>3. c.timestamp \in Nat /\ Fresh(c.timestamp) /\ c.assets \in Seq(Assets)
    BY <2>1, <2>2 DEF QuorumResult, QuorumCall
  <2>4. ASSUME NEW x \in S
        PROVE  Accepted(x, new[x])
    <3> DEFINE i == Position(c, x)
               n == Len(c.rounds)
    <3>1. i \in DOMAIN c.assets /\ c.assets[i] = x
      BY <2>3, PositionOfListed DEF Replaced
    <3>2. new[x] = Entry(c, Median(PriceColumn(c.rounds, i)))
      BY DEF NewEntries
    <3> HIDE DEF i, new
    <3>3. n \in Nat \ {0} /\ Quorum <= n /\ Panel(n, x, new[x])
      BY <1>1, <2>1, <2>2, <3>1, <3>2, QuorumPanel
    <3>4. InWindow(new[x])
      BY <1>1, <2>3, <3>2, EntryInWindow
    <3>5. IsNewer(pricePers[x], new[x].round_id)
      BY <3>2 DEF Replaced, Entry
    <3> QED BY <3>3, <3>4, <3>5 DEF Accepted
  <2>5. DOMAIN new = S
    BY DEF NewEntries
  <2> HIDE DEF new, S
  <2> QED BY <2>2, <2>4, <2>5, WrittenIsAccepted
<1>4. CASE UNCHANGED pricePers
  BY <1>4
<1>5. CASE \E list \in PublisherLists : SetPublishers(list)
  BY <1>4, <1>5 DEF SetPublishers, priceVars
<1>6. CASE \E quorum \in QuorumArgs : SetQuorum(quorum)
  BY <1>4, <1>6 DEF SetQuorum, priceVars
<1>7. CASE \E c \in BatchCalls : UpdateBatchArgs(c)
  BY <1>4, <1>7 DEF UpdateBatchArgs, WriteTemp
<1>8. CASE CloseLedger
  BY <1>4, <1>8 DEF CloseLedger
<1>9. CASE UNCHANGED vars
  BY <1>4, <1>9 DEF vars
<1> QED BY <1>2, <1>3, <1>5, <1>6, <1>7, <1>8, <1>9 DEF Next

\* Whatever call writes a persistent price, and whatever the admin did to the
\* publishers and the quorum before, the price is the median of prices that at least
\* a quorum of distinct registered publishers signed for that asset and round, it is
\* inside the acceptance window, and its round is newer than the one it replaces.
THEOREM PersistentPricesAreBacked == Spec => PersistentPriceBacked
<1> DEFINE Step == \A a \in Assets : pricePers'[a] # pricePers[a] =>
                     /\ BackedBy(Quorum, a, pricePers'[a])
                     /\ InWindow(pricePers'[a])
                     /\ IsNewer(pricePers[a], pricePers'[a].round_id)
<1>1. Inv /\ [Next]_vars => Step
  <2> SUFFICES ASSUME Inv, [Next]_vars, NEW a \in Assets, pricePers'[a] # pricePers[a]
               PROVE  /\ BackedBy(Quorum, a, pricePers'[a])
                      /\ InWindow(pricePers'[a])
                      /\ IsNewer(pricePers[a], pricePers'[a].round_id)
    OBVIOUS
  <2>1. Accepted(a, pricePers'[a])
    BY PersistentStep
  <2>2. Quorum \in Nat
    BY DEF Inv, TypeOK, Quorum
  <2>3. PICK n \in Nat \ {0} : Quorum <= n /\ Panel(n, a, pricePers'[a])
    BY <2>1 DEF Accepted
  <2>4. BackedBy(Quorum, a, pricePers'[a])
    BY <2>2, <2>3, PanelBacks
  <2> QED BY <2>1, <2>4 DEF Accepted
<1>2. Spec => [][Step]_vars
  BY <1>1, InitInv, NextInv, PTL DEF Spec
<1> QED BY <1>2, PTL DEF PersistentPriceBacked

\* Publishers fewer than half of the quorum, whatever they sign and however often,
\* cannot move the persistent price above everything, or below everything, that the
\* other registered publishers signed for the round.
THEOREM MinoritiesAreOutvoted == Spec => MinorityCannotMovePrice
<1> DEFINE Step == \A a \in Assets : pricePers'[a] # pricePers[a] =>
                     \A faulty \in SUBSET Range(publishers) :
                       2 * Cardinality(faulty) < Quorum =>
                         \E s, t \in QuotesFor(a, pricePers'[a]) :
                           /\ {s.key, t.key} \cap faulty = {}
                           /\ s.msg.price <= pricePers'[a].price
                           /\ pricePers'[a].price <= t.msg.price
<1>1. Inv /\ [Next]_vars => Step
  <2> SUFFICES ASSUME Inv, [Next]_vars, NEW a \in Assets, pricePers'[a] # pricePers[a],
                      NEW faulty \in SUBSET Range(publishers),
                      2 * Cardinality(faulty) < Quorum
               PROVE  \E s, t \in QuotesFor(a, pricePers'[a]) :
                        /\ {s.key, t.key} \cap faulty = {}
                        /\ s.msg.price <= pricePers'[a].price
                        /\ pricePers'[a].price <= t.msg.price
    OBVIOUS
  <2>1. PICK n \in Nat \ {0} : Quorum <= n /\ Panel(n, a, pricePers'[a])
    BY PersistentStep DEF Accepted
  <2>2. IsFiniteSet(faulty)
    <3>1. publishers \in Seq(Keys)
      BY CallsAssumption DEF Inv, TypeOK
    <3> DEFINE T == Range(publishers)
    <3>2. publishers \in Surjection(1 .. Len(publishers), T)
      BY <3>1 DEF Surjection, Range
    <3>3. IsFiniteSet(1 .. Len(publishers))
      BY <3>1, FS_Interval
    <3> HIDE DEF T
    <3>4. IsFiniteSet(T)
      BY <3>2, <3>3, FS_Surjection
    <3> QED BY <3>4, FS_Subset DEF T
  <2>3. 2 * Cardinality(faulty) < n
    <3>1. Quorum \in Nat /\ Cardinality(faulty) \in Nat
      BY <2>2, FS_CardinalityType DEF Inv, TypeOK, Quorum
    <3> QED BY <2>1, <3>1
  <2> QED BY <2>1, <2>2, <2>3, PanelResistsMinority
<1>2. Spec => [][Step]_vars
  BY <1>1, InitInv, NextInv, PTL DEF Spec
<1> QED BY <1>2, PTL DEF MinorityCannotMovePrice

\* The temporary price is one that a registered publisher signed for that very asset,
\* timestamp and round, inside the acceptance window.
THEOREM TemporaryPricesAreBacked == Spec => TemporaryPriceBacked
<1> DEFINE Step == \A a \in Assets : priceTemp'[a] # priceTemp[a] =>
                     /\ BackedBy(1, a, priceTemp'[a])
                     /\ InWindow(priceTemp'[a])
<1>1. Inv /\ [Next]_vars => Step
  <2> SUFFICES ASSUME Inv, [Next]_vars, NEW a \in Assets, priceTemp'[a] # priceTemp[a]
               PROVE  BackedBy(1, a, priceTemp'[a]) /\ InWindow(priceTemp'[a])
    OBVIOUS
  <2>1. ASSUME NEW c \in BatchCalls, UpdateBatchArgs(c)
        PROVE  BackedBy(1, a, priceTemp'[a]) /\ InWindow(priceTemp'[a])
    <3> DEFINE S == Replaced(c, tempLive)
               new == NewEntries(c, tempLive, LAMBDA i : c.prices[i])
               i == Position(c, a)
    <3>1. c \in BatchCall
      BY CallsAssumption
    <3>2. ArgsResult(c) = "Ok" /\ WriteTemp(new)
      BY <2>1 DEF UpdateBatchArgs
    <3>3. /\ now \in Nat /\ c.timestamp \in Nat /\ Fresh(c.timestamp)
          /\ c.assets \in Seq(Assets)
      BY <3>1, <3>2 DEF ArgsResult, BatchCall, Inv, TypeOK
    <3>4. a \in S /\ priceTemp'[a] = new[a]
      BY <3>2 DEF WriteTemp, NewEntries, Inv, TypeOK
    <3>5. i \in DOMAIN c.assets /\ c.assets[i] = a
      BY <3>3, <3>4, PositionOfListed DEF Replaced
    <3>6. new[a] = Entry(c, c.prices[i])
      BY <3>4 DEF NewEntries
    <3> HIDE DEF i, new, S
    <3>7. Panel(1, a, new[a])
      BY <3>1, <3>2, <3>5, <3>6, BatchPanel
    <3>8. BackedBy(1, a, new[a])
      BY <3>7, PanelBacks
    <3>9. InWindow(new[a])
      BY <3>3, <3>6, EntryInWindow
    <3> QED BY <3>4, <3>8, <3>9
  <2>2. CASE \E list \in PublisherLists : SetPublishers(list)
    BY <2>2 DEF SetPublishers, priceVars
  <2>3. CASE \E quorum \in QuorumArgs : SetQuorum(quorum)
    BY <2>3 DEF SetQuorum, priceVars
  <2>4. CASE \E c \in BatchCalls : UpdateBatchPersistent(c)
    BY <2>4 DEF UpdateBatchPersistent, WritePers
  <2>5. CASE \E c \in QuorumCalls : UpdateQuorumPersistent(c)
    BY <2>5 DEF UpdateQuorumPersistent, WritePers
  <2>6. CASE CloseLedger
    BY <2>6 DEF CloseLedger
  <2>7. CASE UNCHANGED vars
    BY <2>7 DEF vars
  <2> QED BY <2>1, <2>2, <2>3, <2>4, <2>5, <2>6, <2>7 DEF Next
<1>2. Spec => [][Step]_vars
  BY <1>1, InitInv, NextInv, PTL DEF Spec
<1> QED BY <1>2, PTL DEF TemporaryPriceBacked

-----------------------------------------------------------------------------
\* The persistent storage refines the price feed.

\* The contract's ring and the feed's history forget the same round.
LEMMA PushRingIsRecent ==
  ASSUME NEW ring \in Seq(PriceEntry), NEW e \in PriceEntry, Len(ring) <= RING_CAP
  PROVE  PushRing(ring, e) = Feed!Recent(Append(ring, e))
<1> DEFINE s == Append(ring, e)
<1>1. s \in Seq(PriceEntry) /\ s # <<>> /\ Len(s) = Len(ring) + 1 /\ Len(ring) \in Nat
  BY AppendProperties
<1>2. CASE Len(ring) + 1 > RING_CAP
  <2>1. ring # <<>> /\ Len(s) > RING_CAP /\ Len(s) - RING_CAP + 1 = 2
    BY <1>1, <1>2, ParametersAssumption
  <2>2. Append(Tail(ring), e) = Tail(s)
    BY <2>1, HeadTailAppend
  <2>3. Tail(s) = SubSeq(s, 2, Len(s))
    BY <1>1, TailIsSubSeq
  <2> HIDE DEF s
  <2>4. Feed!Recent(s) = SubSeq(s, 2, Len(s))
    BY <2>1 DEF Feed!Recent
  <2> QED BY <1>2, <2>2, <2>3, <2>4 DEF PushRing, s
<1>3. CASE ~(Len(ring) + 1 > RING_CAP)
  <2>1. ~(Len(s) > RING_CAP)
    BY <1>1, <1>3
  <2>2. SubSeq(s, 1, Len(s)) = s
    BY <1>1, SubSeqFull
  <2> HIDE DEF s
  <2>3. Feed!Recent(s) = SubSeq(s, 1, Len(s))
    BY <2>1 DEF Feed!Recent
  <2> QED BY <1>3, <2>2, <2>3 DEF PushRing, s
<1> QED BY <1>2, <1>3

\* One write of one round is one publication.
LEMMA WriteIsPublish ==
  ASSUME Inv, NEW S \in SUBSET Assets, NEW new \in [S -> PriceEntry], WritePers(new),
         NEW timestamp, NEW round_id,
         \A a \in S : new[a].timestamp = timestamp /\ new[a].round_id = round_id,
         \A a \in S : InWindow(new[a]) /\ IsNewer(pricePers[a], round_id),
         now' = now
  PROVE  Feed!Publish(S)
<1>1. /\ now \in Nat
      /\ pricePers \in [Assets -> PriceEntry \cup {NoEntry}]
      /\ priceRing \in [Assets -> Seq(PriceEntry)]
      /\ \A a \in Assets : Len(priceRing[a]) <= RING_CAP
  BY RingMatchesLatestByAsset DEF Inv, TypeOK, RingOf
<1>2. pricePers' = [a \in Assets |-> IF a \in S THEN new[a] ELSE pricePers[a]]
  BY DEF WritePers
<1>3. pricePers' \in [Assets -> Feed!Entry \cup {NoEntry}]
  BY <1>1, <1>2 DEF Feed!Entry, PriceEntry
<1>4. ASSUME NEW a \in S
      PROVE  /\ pricePers'[a] \in Feed!Entry
             /\ Feed!Acceptable(pricePers'[a])
             /\ Feed!Supersedes(pricePers'[a], pricePers[a])
  <2>1. pricePers'[a] = new[a] /\ new[a] \in PriceEntry
    BY <1>2
  <2>2. Feed!Acceptable(new[a])
    BY <1>1, <2>1, ParametersAssumption DEF InWindow, Feed!Acceptable, PriceEntry
  <2>3. Feed!Supersedes(new[a], pricePers[a])
    BY <1>1, <2>1 DEF IsNewer, Feed!Supersedes, PriceEntry
  <2> QED BY <2>1, <2>2, <2>3 DEF Feed!Entry, PriceEntry
<1>5. \A a, b \in S : /\ pricePers'[a].timestamp = pricePers'[b].timestamp
                     /\ pricePers'[a].round_id = pricePers'[b].round_id
  BY <1>2
<1>6. \A a \in Assets \ S : pricePers'[a] = pricePers[a]
  BY <1>2
<1>7. priceRing' = [a \in Assets |->
        IF a \in S THEN Feed!Recent(Append(priceRing[a], pricePers'[a]))
                   ELSE priceRing[a]]
  <2>1. priceRing' = [a \in Assets |-> IF a \in S THEN PushRing(priceRing[a], new[a])
                                                  ELSE priceRing[a]]
    BY DEF WritePers
  <2>2. \A a \in S : PushRing(priceRing[a], new[a])
                       = Feed!Recent(Append(priceRing[a], pricePers'[a]))
    <3> TAKE a \in S
    <3>1. pricePers'[a] = new[a] /\ new[a] \in PriceEntry /\ priceRing[a] \in Seq(PriceEntry)
          /\ Len(priceRing[a]) <= RING_CAP
      BY <1>1, <1>2
    <3> QED BY <3>1, PushRingIsRecent
  <2> QED BY <2>1, <2>2
<1> QED BY <1>3, <1>4, <1>5, <1>6, <1>7 DEF Feed!Publish

LEMMA StepIsFeedStep ==
  ASSUME Inv, [Next]_vars
  PROVE  [Feed!Next]_(Feed!feedVars)
<1>1. now \in Nat /\ storedQuorum \in Nat
  BY DEF Inv, TypeOK
<1>2. ASSUME NEW c \in BatchCalls, UpdateBatchPersistent(c)
      PROVE  \E S \in SUBSET Assets : Feed!Publish(S)
  <2> DEFINE S == Replaced(c, pricePers)
             new == NewEntries(c, pricePers, LAMBDA i : c.prices[i])
  <2>1. c \in BatchCall
    BY CallsAssumption
  <2>2. ArgsResult(c) = "Ok" /\ WritePers(new) /\ now' = now
    BY <1>2 DEF UpdateBatchPersistent, PersistentResult
  <2>3. c.timestamp \in Nat /\ Fresh(c.timestamp) /\ c.assets \in Seq(Assets)
    BY <2>1, <2>2 DEF ArgsResult, BatchCall
  <2>4. new \in [S -> PriceEntry]
    BY <2>1, <2>2, BatchEntries
  <2>5. \A x \in S : new[x].timestamp = c.timestamp /\ new[x].round_id = c.round_id
    BY DEF NewEntries, Entry
  <2>6. \A x \in S : InWindow(new[x]) /\ IsNewer(pricePers[x], c.round_id)
    BY <1>1, <2>3, FreshMeans DEF NewEntries, Entry, InWindow, Replaced
  <2>7. S \in SUBSET Assets
    BY <2>3, ReplacedAreAssets
  <2> HIDE DEF new, S
  <2>8. Feed!Publish(S)
    BY <2>2, <2>4, <2>5, <2>6, <2>7, WriteIsPublish
  <2> QED BY <2>7, <2>8
<1>3. ASSUME NEW c \in QuorumCalls, UpdateQuorumPersistent(c)
      PROVE  \E S \in SUBSET Assets : Feed!Publish(S)
  <2> DEFINE S == Replaced(c, pricePers)
             new == NewEntries(c, pricePers, LAMBDA i : Median(PriceColumn(c.rounds, i)))
  <2>1. c \in QuorumCall
    BY CallsAssumption
  <2>2. QuorumResult(c) = "Ok" /\ WritePers(new) /\ now' = now
    BY <1>3 DEF UpdateQuorumPersistent
  <2>3. c.timestamp \in Nat /\ Fresh(c.timestamp) /\ c.assets \in Seq(Assets)
    BY <2>1, <2>2 DEF QuorumResult, QuorumCall
  <2>4. new \in [S -> PriceEntry]
    BY <1>1, <2>1, <2>2, QuorumEntries
  <2>5. \A x \in S : new[x].timestamp = c.timestamp /\ new[x].round_id = c.round_id
    BY DEF NewEntries, Entry
  <2>6. \A x \in S : InWindow(new[x]) /\ IsNewer(pricePers[x], c.round_id)
    BY <1>1, <2>3, FreshMeans DEF NewEntries, Entry, InWindow, Replaced
  <2>7. S \in SUBSET Assets
    BY <2>3, ReplacedAreAssets
  <2> HIDE DEF new, S
  <2>8. Feed!Publish(S)
    BY <2>2, <2>4, <2>5, <2>6, <2>7, WriteIsPublish
  <2> QED BY <2>7, <2>8
<1>4. CASE CloseLedger
  <2>1. Feed!Tick
    BY <1>1, <1>4, ParametersAssumption DEF CloseLedger, Feed!Tick
  <2> QED BY <2>1 DEF Feed!Next
<1>5. ASSUME UNCHANGED <<pricePers, priceRing, now>>
      PROVE  UNCHANGED Feed!feedVars
  BY <1>5 DEF Feed!feedVars
<1>6. CASE \E list \in PublisherLists : SetPublishers(list)
  BY <1>5, <1>6 DEF SetPublishers, priceVars
<1>7. CASE \E quorum \in QuorumArgs : SetQuorum(quorum)
  BY <1>5, <1>7 DEF SetQuorum, priceVars
<1>8. CASE \E c \in BatchCalls : UpdateBatchArgs(c)
  BY <1>5, <1>8 DEF UpdateBatchArgs, WriteTemp
<1>9. CASE UNCHANGED vars
  BY <1>5, <1>9 DEF vars
<1> QED BY <1>2, <1>3, <1>4, <1>6, <1>7, <1>8, <1>9 DEF Next, Feed!Next

\* The persistent storage implements the price feed of PriceFeed.tla: whichever
\* entrypoint writes, latest price and history advance together, a whole batch at a
\* time, to newer rounds only.
THEOREM StorageIsPriceFeed == Spec => FeedSpec
<1>1. Init => Feed!Init
  BY DEF Init, Feed!Init
<1>2. Inv /\ [Next]_vars => [Feed!Next]_(Feed!feedVars)
  BY StepIsFeedStep
<1>3. Spec => Feed!Spec
  BY <1>1, <1>2, InitInv, NextInv, PTL DEF Spec, Feed!Spec
<1> QED BY <1>3 DEF FeedSpec
-----------------------------------------------------------------------------
\* The temporary storage refines the price feed too.

LEMMA ShortHistory ==
  ASSUME NEW e \in PriceEntry, NEW s \in Seq(PriceEntry), Len(s) <= 1
  PROVE  TempFeed!Recent(Append(s, e)) = <<e>>
<1> DEFINE h == Append(s, e)
           n == Len(s)
<1>1. h \in Seq(PriceEntry) /\ Len(h) = n + 1 /\ h[n + 1] = e /\ n \in {0, 1}
  <2>1. n \in Nat /\ n <= 1
    BY LenProperties
  <2>2. h \in Seq(PriceEntry) /\ Len(h) = n + 1 /\ h[n + 1] = e
    BY AppendProperties
  <2>3. n \in {0, 1}
    <3> HIDE DEF n
    <3> QED BY <2>1
  <2> QED BY <2>2, <2>3
<1>2. TempFeed!Recent(h) = SubSeq(h, n + 1, n + 1)
  <2> HIDE DEF h, n
  <2>1. (IF n + 1 > 1 THEN (n + 1) - 1 ELSE 0) + 1 = n + 1
    BY <1>1
  <2> QED BY <1>1, <2>1 DEF TempFeed!Recent
<1> HIDE DEF h, n
<1>3. /\ SubSeq(h, n + 1, n + 1) \in Seq(PriceEntry)
      /\ Len(SubSeq(h, n + 1, n + 1)) = 1
      /\ SubSeq(h, n + 1, n + 1)[1] = e
  BY <1>1, SubSeqProperties
<1>4. <<e>> \in Seq(PriceEntry) /\ Len(<<e>>) = 1 /\ <<e>>[1] = e
  OBVIOUS
<1>5. SubSeq(h, n + 1, n + 1) = <<e>>
  <2> DEFINE t == SubSeq(h, n + 1, n + 1)
             u == <<e>>
  <2>1. /\ t \in Seq(PriceEntry) /\ Len(t) = 1 /\ t[1] = e
        /\ u \in Seq(PriceEntry) /\ Len(u) = 1 /\ u[1] = e
    BY <1>3, <1>4
  <2> HIDE DEF t, u
  <2>2. \A i \in 1..Len(t) : t[i] = u[i]
    BY <2>1
  <2>3. t = u
    BY <2>1, <2>2, SeqEqual
  <2> QED BY <2>3 DEF t, u
<1> QED BY <1>2, <1>5 DEF h

\* An accepted single-publisher call is one publication.
LEMMA BatchIsPublish ==
  ASSUME TimeInv, CoherentSigning, NEW c \in BatchCall, UpdateBatchArgs(c)
  PROVE  \E S \in SUBSET Assets : TempFeed!Publish(S)
<1> DEFINE S == Replaced(c, tempLive)
           new == NewEntries(c, tempLive, LAMBDA i : c.prices[i])
<1>1. ArgsResult(c) = "Ok" /\ WriteTemp(new) /\ now' = now
  BY DEF UpdateBatchArgs
<1>2. c.timestamp \in Nat /\ Fresh(c.timestamp) /\ c.assets \in Seq(Assets)
  BY <1>1 DEF ArgsResult, BatchCall
<1>3. now \in Nat /\ priceTemp \in [Assets -> PriceEntry \cup {NoEntry}]
  BY DEF TimeInv, Inv, TypeOK
<1>4. new \in [S -> PriceEntry]
  BY <1>1, BatchEntries
<1>5. \A x \in S : new[x].timestamp = c.timestamp /\ new[x].round_id = c.round_id
  BY DEF NewEntries, Entry
<1>6. \A x \in S : InWindow(new[x])
  BY <1>2, <1>3, FreshMeans DEF NewEntries, Entry, InWindow
<1>7. S \in SUBSET Assets
  BY <1>2, ReplacedAreAssets
<1>8. \A x \in S : IsNewer(priceTemp[x], c.round_id)
  BY <1>1, <1>7, BatchAdvances
<1> HIDE DEF new, S
<1>9. priceTemp' = [a \in Assets |-> IF a \in S THEN new[a] ELSE priceTemp[a]]
  BY <1>1, <1>4 DEF WriteTemp
<1>10. priceTemp' \in [Assets -> TempFeed!Entry \cup {NoEntry}]
  BY <1>3, <1>4, <1>9 DEF TempFeed!Entry, PriceEntry
<1>11. ASSUME NEW a \in S
       PROVE  /\ priceTemp'[a] \in TempFeed!Entry
              /\ TempFeed!Acceptable(priceTemp'[a])
              /\ TempFeed!Supersedes(priceTemp'[a], priceTemp[a])
  <2>1. priceTemp'[a] = new[a] /\ new[a] \in PriceEntry /\ a \in Assets
    BY <1>4, <1>7, <1>9
  <2>2. TempFeed!Acceptable(new[a])
    BY <1>3, <1>6, <2>1, ParametersAssumption DEF InWindow, TempFeed!Acceptable, PriceEntry
  <2>3. TempFeed!Supersedes(new[a], priceTemp[a])
    BY <1>3, <1>5, <1>8, <2>1 DEF IsNewer, TempFeed!Supersedes, PriceEntry
  <2> QED BY <2>1, <2>2, <2>3 DEF TempFeed!Entry, PriceEntry
<1>12. \A a, b \in S : /\ priceTemp'[a].timestamp = priceTemp'[b].timestamp
                        /\ priceTemp'[a].round_id = priceTemp'[b].round_id
  BY <1>5, <1>7, <1>9
<1>13. \A a \in Assets \ S : priceTemp'[a] = priceTemp[a]
  BY <1>9
<1>14. lastWritten' = [a \in Assets |->
         IF a \in S THEN TempFeed!Recent(Append(lastWritten[a], priceTemp'[a]))
                    ELSE lastWritten[a]]
  <2>1. \A a \in S : priceTemp'[a] # NoEntry
    BY <1>4, <1>7, <1>9, CallsAssumption
  <2>2. \A a \in Assets : lastWritten[a] = IF priceTemp[a] = NoEntry THEN <<>> ELSE <<priceTemp[a]>>
    BY DEF lastWritten
  <2>3. \A a \in S : <<priceTemp'[a]>> = TempFeed!Recent(Append(lastWritten[a], priceTemp'[a]))
    <3> SUFFICES ASSUME NEW a \in S
                 PROVE  <<priceTemp'[a]>> = TempFeed!Recent(Append(lastWritten[a], priceTemp'[a]))
      OBVIOUS
    <3>1. a \in Assets /\ priceTemp'[a] \in PriceEntry
      BY <1>4, <1>7, <1>9
    <3>2. priceTemp[a] # NoEntry => priceTemp[a] \in PriceEntry
      BY <1>3, <3>1
    <3>3. lastWritten[a] \in Seq(PriceEntry) /\ Len(lastWritten[a]) <= 1
      <4>1. CASE priceTemp[a] = NoEntry
        <5>1. lastWritten[a] = <<>>
          BY <2>2, <3>1, <4>1
        <5>2. <<>> \in Seq(PriceEntry) /\ Len(<<>>) = 0
          OBVIOUS
        <5> QED BY <5>1, <5>2
      <4>2. CASE priceTemp[a] # NoEntry
        <5> DEFINE e == priceTemp[a]
        <5>1. lastWritten[a] = <<e>> /\ e \in PriceEntry
          BY <2>2, <3>1, <3>2, <4>2
        <5> HIDE DEF e
        <5>2. <<e>> \in Seq(PriceEntry) /\ Len(<<e>>) = 1
          BY <5>1
        <5> QED BY <5>1, <5>2
      <4> QED BY <4>1, <4>2
    <3> QED BY <3>1, <3>3, ShortHistory
  <2>4. lastWritten' = [a \in Assets |->
          IF priceTemp'[a] = NoEntry THEN <<>> ELSE <<priceTemp'[a]>>]
    BY DEF lastWritten
  <2> QED BY <1>13, <2>1, <2>2, <2>3, <2>4
<1>15. TempFeed!Publish(S)
  BY <1>1, <1>10, <1>11, <1>12, <1>13, <1>14 DEF TempFeed!Publish
<1> QED BY <1>7, <1>15

LEMMA StepIsTempFeedStep ==
  ASSUME TimeInv, CoherentSigning, [Next]_vars
  PROVE  [TempFeed!Next]_(TempFeed!feedVars)
<1>1. now \in Nat
  BY DEF TimeInv, Inv, TypeOK
<1>2. ASSUME UNCHANGED <<priceTemp, now>>
      PROVE  UNCHANGED TempFeed!feedVars
  BY <1>2 DEF TempFeed!feedVars, lastWritten
<1>3. CASE \E c \in BatchCalls : UpdateBatchArgs(c)
  BY <1>3, BatchIsPublish, CallsAssumption DEF TempFeed!Next
<1>4. CASE CloseLedger
  <2>1. TempFeed!Tick
    BY <1>1, <1>4, ParametersAssumption DEF CloseLedger, TempFeed!Tick, lastWritten
  <2> QED BY <2>1 DEF TempFeed!Next
<1>5. CASE \E list \in PublisherLists : SetPublishers(list)
  BY <1>2, <1>5 DEF SetPublishers, priceVars
<1>6. CASE \E quorum \in QuorumArgs : SetQuorum(quorum)
  BY <1>2, <1>6 DEF SetQuorum, priceVars
<1>7. CASE \E c \in BatchCalls : UpdateBatchPersistent(c)
  BY <1>2, <1>7 DEF UpdateBatchPersistent, WritePers
<1>8. CASE \E c \in QuorumCalls : UpdateQuorumPersistent(c)
  BY <1>2, <1>8 DEF UpdateQuorumPersistent, WritePers
<1>9. CASE UNCHANGED vars
  BY <1>2, <1>9 DEF vars
<1> QED BY <1>3, <1>4, <1>5, <1>6, <1>7, <1>8, <1>9 DEF Next

\* Publishers that sign coherently (one keeper does, see SigningIsCoherent) make the
\* temporary storage implement the same price feed, with a history of one entry: the
\* expiry of the entry that remembers the last round cannot be observed as a step back.
THEOREM TemporaryStorageIsPriceFeed ==
  ASSUME CoherentSigning
  PROVE  Spec => TempFeedSpec
<1>1. Init => TempFeed!Init
  BY DEF Init, TempFeed!Init, lastWritten
<1>2. TimeInv /\ [Next]_vars => [TempFeed!Next]_(TempFeed!feedVars)
  BY StepIsTempFeedStep
<1>3. Spec => TempFeed!Spec
  BY <1>1, <1>2, InitTimeInv, NextTimeInv, PTL DEF Spec, TempFeed!Spec
<1> QED BY <1>3 DEF TempFeedSpec
-----------------------------------------------------------------------------
\* The history views read what the persistent writers keep in step.

\* The ring's order and its last entry make a page of it agree with the latest
\* price.
LEMMA InvPagesAgree ==
  ASSUME Inv
  PROVE  PagesAgreeWithLatest
<1> SUFFICES ASSUME NEW a \in Assets, NEW n \in Records
             PROVE  LET page == Prices(a, n) IN
                    /\ (page = NoValue) <=> (pricePers[a] = NoEntry)
                    /\ page # NoValue =>
                         /\ Len(page) <= n
                         /\ n > 0 => page[1] = pricePers[a]
                         /\ \A i \in 1 .. Len(page) - 1 :
                              page[i + 1].round_id < page[i].round_id
                         /\ \A e \in Range(priceRing[a]) \ Range(page) :
                              Len(page) = n /\ \A i \in 1 .. n : e.round_id < page[i].round_id
  BY DEF PagesAgreeWithLatest
<1> DEFINE ring == priceRing[a]
           page == Prices(a, n)
           m == Len(ring)
           t == Take(a, n)
<1>1. ring \in Seq(PriceEntry) /\ RingOf(ring, pricePers[a]) /\ n \in Nat
  BY RingMatchesLatestByAsset, ViewsAssumption DEF Inv, TypeOK
<1>2. CASE ring = <<>>
  BY <1>1, <1>2 DEF Prices, RingOf
<1>3. CASE ring # <<>>
  <2>1. /\ m \in Nat \ {0} /\ DOMAIN ring = 1..m
        /\ t \in 0..m /\ t <= n /\ (t < m => t = n)
        /\ n > 0 => t > 0
    BY <1>1, <1>3, EmptySeq DEF Take
  <2>2. page = [i \in 1..t |-> ring[m + 1 - i]]
    BY <1>3 DEF Prices
  <2>3. \A i \in 1..t : m + 1 - i \in 1..m /\ ring[m + 1 - i] \in PriceEntry
    BY <1>1, <2>1
  <2>4. page \in [1..t -> PriceEntry]
    BY <2>2, <2>3
  <2>5. page \in Seq(PriceEntry) /\ Len(page) = t
    BY <2>1, <2>4
  <2>6. page # NoValue /\ pricePers[a] # NoEntry
    BY <1>1, <1>3, <2>5, ViewsAssumption DEF RingOf
  <2>7. \A i \in 1..t : page[i] = ring[m + 1 - i]
    BY <2>2
  <2> HIDE DEF ring, page, m, t
  <2>8. n > 0 => page[1] = pricePers[a]
    BY <1>1, <1>3, <2>1, <2>7 DEF RingOf, m
  <2>9. \A i, j \in 1..m : i < j => ring[i].round_id < ring[j].round_id
    BY <1>1, <2>1 DEF RingOf, RingOrdered
  <2>10. \A i \in 1 .. t - 1 : page[i + 1].round_id < page[i].round_id
    <3> TAKE i \in 1 .. t - 1
    <3>1. i \in 1..t /\ i + 1 \in 1..t /\ m - i \in 1..m /\ m + 1 - i \in 1..m
      BY <2>1
    <3>2. page[i] = ring[m + 1 - i] /\ page[i + 1] = ring[m - i]
      BY <2>1, <2>7, <3>1, SMTT(30)
    <3> QED BY <2>1, <2>9, <3>1, <3>2
  <2>11. ASSUME NEW e \in Range(ring) \ Range(page)
         PROVE  t = n /\ \A i \in 1..n : e.round_id < page[i].round_id
    <3>1. PICK k \in 1..m : e = ring[k]
      BY <2>1 DEF Range
    <3>2. k < m + 1 - t
      <4> SUFFICES ASSUME m + 1 - t <= k PROVE FALSE
        BY <2>1
      <4>1. m + 1 - k \in 1..t /\ m + 1 - (m + 1 - k) = k
        BY <2>1
      <4>2. page[m + 1 - k] = e
        BY <2>7, <3>1, <4>1
      <4> QED BY <2>4, <4>1, <4>2 DEF Range
    <3>3. t = n
      BY <2>1, <3>2
    <3>4. ASSUME NEW i \in 1..n
          PROVE  e.round_id < page[i].round_id
      <4>1. m + 1 - i \in 1..m /\ k < m + 1 - i /\ i \in 1..t
        BY <2>1, <3>2, <3>3
      <4> QED BY <2>7, <2>9, <3>1, <4>1
    <3> QED BY <3>3, <3>4
  <2> QED BY <1>1, <2>1, <2>5, <2>6, <2>8, <2>10, <2>11 DEF ring, page, m, t
<1> QED BY <1>2, <1>3

\* prices() and get_price_pers() agree: a page exists exactly when a price does, it
\* starts with that price, goes back in rounds and skips none the ring still holds.
THEOREM PagesAgree == Spec => []PagesAgreeWithLatest
<1>1. Spec => []Inv
  BY InitInv, NextInv, PTL DEF Spec
<1>2. Inv => PagesAgreeWithLatest
  BY InvPagesAgree
<1> QED BY <1>1, <1>2, PTL

LEMMA InvTwap ==
  ASSUME Inv
  PROVE  TwapDefinedAndBetween
<1> SUFFICES ASSUME NEW a \in Assets, NEW n \in Records, n > 0, pricePers[a] # NoEntry
             PROVE  LET stored == {e.price : e \in Range(Prices(a, n))} IN
                    /\ Twap(a, n) # NoValue
                    /\ \E lo, hi \in stored : lo <= Twap(a, n) /\ Twap(a, n) <= hi
  BY DEF TwapDefinedAndBetween
<1> DEFINE ring == priceRing[a]
           page == Prices(a, n)
           m == Len(ring)
           t == Take(a, n)
           S == DOMAIN page
           f == [i \in S |-> page[i].price]
           mean == Total(f, S) \div Cardinality(S)
<1>1. ring \in Seq(PriceEntry) /\ RingOf(ring, pricePers[a]) /\ n \in Nat
  BY RingMatchesLatestByAsset, ViewsAssumption DEF Inv, TypeOK
<1>2. ring # <<>> /\ m <= RING_CAP
  BY <1>1 DEF RingOf
<1>3. m \in Nat \ {0} /\ DOMAIN ring = 1..m /\ t \in 1..m
  BY <1>1, <1>2, EmptySeq DEF Take
<1>4. page = [i \in 1..t |-> ring[m + 1 - i]]
  BY <1>2 DEF Prices
<1>5. page \in [1..t -> PriceEntry] /\ S = 1..t
  <2>1. \A i \in 1..t : m + 1 - i \in 1..m /\ ring[m + 1 - i] \in PriceEntry
    BY <1>1, <1>3
  <2> QED BY <1>4, <2>1
<1>6. IsFiniteSet(S) /\ S # {} /\ Cardinality(S) = t
  BY <1>3, <1>5, FS_Interval
<1>7. \A i \in S : f[i] = page[i].price /\ page[i].price \in 1..MAX_PRICE
  BY <1>5 DEF PriceEntry
<1> HIDE DEF f, S, page, m, t
<1>8. \A i \in S : f[i] \in Nat /\ f[i] <= MAX_PRICE
  BY <1>7, ParametersAssumption
<1>9. /\ mean \in Nat
      /\ \E i \in S : f[i] <= mean
      /\ \E i \in S : mean <= f[i]
  BY <1>6, <1>8, MeanIsBetween
\* The sum of the page stays inside i128.
<1>10. Total(f, S) \in Int /\ Total(f, S) <= I128Max
  <2> DEFINE g == [i \in S |-> MAX_PRICE]
  <2>1. \A i \in S : g[i] = MAX_PRICE
    OBVIOUS
  <2> HIDE DEF g
  <2>2. \A i \in S : f[i] \in Int /\ g[i] \in Int /\ f[i] <= g[i]
    BY <1>8, <2>1, ParametersAssumption
  <2>3. Total(f, S) <= Total(g, S) /\ Total(f, S) \in Int
    BY <1>6, <2>2, TotalMonotone, TotalInt
  <2>4. Total(g, S) = MAX_PRICE * t
    BY <1>6, <2>1, ParametersAssumption, TotalConstant
  <2>5. t * MAX_PRICE <= RING_CAP * MAX_PRICE /\ MAX_PRICE * t = t * MAX_PRICE
        /\ t * MAX_PRICE \in Int /\ RING_CAP * MAX_PRICE \in Int
    <3>1. t \in Int /\ RING_CAP \in Int /\ MAX_PRICE \in Nat /\ t <= RING_CAP
      BY <1>2, <1>3, ParametersAssumption
    <3> QED BY <3>1, ProductMonotone
  <2>6. RING_CAP * MAX_PRICE <= I128Max /\ I128Max \in Int
    BY ViewsAssumption
  <2> QED BY <2>3, <2>4, <2>5, <2>6
<1>11. Twap(a, n) = mean
  <2>1. Total(f, S) # NoValue /\ ~ (Total(f, S) > I128Max)
    BY <1>10, ViewsAssumption
  <2>2. CheckedSum(page) = Total(f, S)
    BY <2>1 DEF CheckedSum, f, S
  <2>3. n # 0
    BY <1>1
  <2> QED BY <1>2, <1>6, <2>1, <2>2, <2>3 DEF Twap, page, t
<1>12. mean # NoValue
  BY <1>9, ViewsAssumption
<1>13. \A i \in S : f[i] \in {e.price : e \in Range(page)}
  BY <1>7 DEF Range, S
<1> QED BY <1>9, <1>11, <1>12, <1>13 DEF page

\* twap() never turns a stored history into "no value", and what it returns lies
\* between the lowest and the highest price of the rounds it is the mean of.
THEOREM MeanIsDefined == Spec => []TwapDefinedAndBetween
<1>1. Spec => []Inv
  BY InitInv, NextInv, PTL DEF Spec
<1>2. Inv => TwapDefinedAndBetween
  BY InvTwap
<1> QED BY <1>1, <1>2, PTL
=============================================================================
