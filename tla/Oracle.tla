------------------------------- MODULE Oracle -------------------------------
(***************************************************************************)
(* The oracle_v0 contract (oracle_v0/src/lib.rs), production entrypoints.  *)
(*                                                                         *)
(* A contract call is one atomic transaction: the host serialises the      *)
(* calls and rolls a failed one back, so a refused call is no step.  Each  *)
(* entrypoint is one action: what it returns (ArgsResult, ...) makes the   *)
(* checks in the order of the code, and the writes are in closed form.     *)
(* Admin calls are those the admin authorized; require_auth traps others.  *)
(*                                                                         *)
(* The specification starts in the state __constructor leaves: Admin and   *)
(* Publishers are set and never removed, so no call returns NotInitialized.*)
(***************************************************************************)
EXTENDS Integers, Sequences, FiniteSets, Functions, Median

CONSTANTS
  Assets,          \* 8-byte asset tags
  Keys,            \* Ed25519 public keys, registered or not
  Signatures,      \* every signature some key holder has produced
  BatchCalls,      \* arguments of the two single-publisher entrypoints
  QuorumCalls,     \* arguments of update_quorum_ed25519_persistent
  PublisherLists,  \* arguments of set_publishers and of the constructor
  QuorumArgs,      \* arguments of set_quorum (u32)
  NoEntry          \* "no such storage entry"

CONSTANTS
  STALENESS_SECS, FUTURE_SKEW_SECS, MAX_PRICE, RING_CAP,
  TEMP_THRESHOLD, TEMP_EXTEND,   \* extend_ttl of a temporary entry, ledgers
  NewTempTtl,                    \* ledgers the host gives a new temporary entry
  U64Max,
  MaxGap,                        \* bound: seconds between two ledger closes
  MaxTime                        \* bound: ledger time reached

Message   == [asset : Assets, price : Int, timestamp : Nat, round_id : Nat]
Signature == [key : Keys, msg : Message]

BatchCall ==
  [assets : Seq(Assets), prices : Seq(Int), timestamp : Nat, round_id : Nat,
   pubkey : Keys, sigs : Seq(Signatures)]
PublisherRound == [pubkey : Keys, prices : Seq(Int), sigs : Seq(Signatures)]
QuorumCall ==
  [assets : Seq(Assets), timestamp : Nat, round_id : Nat,
   rounds : Seq(PublisherRound)]

PriceEntry == [price : 1..MAX_PRICE, timestamp : Nat, round_id : Nat]

ASSUME CallsAssumption ==
  /\ Signatures \subseteq Signature
  /\ BatchCalls \subseteq BatchCall
  /\ QuorumCalls \subseteq QuorumCall
  /\ PublisherLists \subseteq Seq(Keys)
  /\ PublisherLists # {}
  /\ QuorumArgs \subseteq Nat
  /\ NoEntry \notin PriceEntry

ASSUME ParametersAssumption ==
  /\ STALENESS_SECS \in Nat
  /\ FUTURE_SKEW_SECS \in Nat
  /\ MAX_PRICE \in Nat \ {0}
  /\ RING_CAP \in Nat \ {0}
  /\ TEMP_THRESHOLD \in Nat
  /\ TEMP_EXTEND \in Nat
  /\ TEMP_THRESHOLD < TEMP_EXTEND
  /\ NewTempTtl \in Nat
  /\ U64Max \in Nat
  /\ MaxGap \in Nat \ {0}
  /\ MaxTime \in Nat

\* A temporary entry outlives every round that could still be accepted when it
\* was written: a ledger closes at least one second after the last one.
ASSUME TtlCoversWindow == STALENESS_SECS + FUTURE_SKEW_SECS <= TEMP_THRESHOLD

VARIABLES
  publishers,    \* DataKey::Publishers
  storedQuorum,  \* DataKey::Quorum, 0 when the key is absent
  priceTemp,     \* DataKey::PriceTemp: the entry last written, expired or not
  tempTtl,       \* ledgers it has left to live, -1 when absent or expired
  pricePers,     \* DataKey::PricePers
  priceRing,     \* DataKey::PriceRing, <<>> when the key is absent
  now            \* env.ledger().timestamp()

vars == <<publishers, storedQuorum, priceTemp, tempTtl, pricePers, priceRing,
          now>>

-----------------------------------------------------------------------------
\* The checks.

SatSub(x, y) == IF x < y THEN 0 ELSE x - y
SatAdd(x, y) == IF x + y > U64Max THEN U64Max ELSE x + y

\* The definitions named "Unchecked..." and the like are seeded faults: plausible
\* bugs that the properties at the end of the module are checked to detect.
UncheckedSkew(timestamp) == SatSub(now, timestamp) <= STALENESS_SECS

\* Signed neither too long ago nor too far in the future.
Fresh(timestamp) ==
  /\ SatSub(now, timestamp) <= STALENESS_SECS
  /\ timestamp <= SatAdd(now, FUTURE_SKEW_SECS)

UncheckedCap(price) == 0 < price

PriceOk(price) == 0 < price /\ price <= MAX_PRICE

UncheckedKey(pubkey) == pubkey \in Keys

IsPublisher(pubkey) == pubkey \in Range(publishers)

Quorum == IF storedQuorum = 0 THEN 1 ELSE storedQuorum

\* env.crypto().ed25519_verify over build_msg: a signature verifies for one key
\* and one message.
Verifies(pubkey, asset, price, timestamp, round_id, sig) ==
  sig = [key |-> pubkey,
         msg |-> [asset |-> asset, price |-> price,
                  timestamp |-> timestamp, round_id |-> round_id]]

Aligned(c, prices, sigs) ==
  Len(prices) = Len(c.assets) /\ Len(sigs) = Len(c.assets)

AllPricesOk(prices) == \A i \in DOMAIN prices : PriceOk(prices[i])

AllVerify(c, pubkey, prices, sigs) ==
  \A i \in DOMAIN c.assets :
    Verifies(pubkey, c.assets[i], prices[i], c.timestamp, c.round_id, sigs[i])

\* What update_batch_ed25519_args returns; "Trap" is a failed verification,
\* which aborts the transaction.
ArgsResult(c) ==
  IF ~Aligned(c, c.prices, c.sigs) THEN "BatchLengthMismatch"
  ELSE IF ~IsPublisher(c.pubkey)   THEN "UnknownPublisher"
  ELSE IF ~Fresh(c.timestamp)      THEN "StalePrice"
  ELSE IF ~AllPricesOk(c.prices)   THEN "InvalidPrice"
  ELSE IF ~AllVerify(c, c.pubkey, c.prices, c.sigs) THEN "Trap"
  ELSE "Ok"

\* Fault: the single-publisher path stays open at any quorum.
SinglePathOpen == FALSE

\* The persistent single-publisher path closes once the quorum is above 1.
SinglePathClosed == Quorum > 1

PersistentResult(c) ==
  IF ~Aligned(c, c.prices, c.sigs) THEN "BatchLengthMismatch"
  ELSE IF SinglePathClosed         THEN "QuorumNotMet"
  ELSE ArgsResult(c)

\* Fault: repeated keys are not looked for.
UncheckedRepeat(rounds, i) == FALSE

\* A later round of the call carries the key of round i.
Repeated(rounds, i) ==
  \E j \in i + 1 .. Len(rounds) : rounds[j].pubkey = rounds[i].pubkey

\* The rounds are scanned in order, each for its key and then for a repetition.
RosterResult(rounds) ==
  IF \E i \in DOMAIN rounds :
       /\ ~IsPublisher(rounds[i].pubkey)
       /\ \A j \in 1 .. i - 1 : ~Repeated(rounds, j)
  THEN "UnknownPublisher"
  ELSE IF \E i \in DOMAIN rounds : Repeated(rounds, i)
  THEN "DuplicatePublisher"
  ELSE "Ok"

EnoughRounds(rounds) == Len(rounds) >= Quorum

QuorumResult(c) ==
  LET R == {c.rounds[i] : i \in DOMAIN c.rounds} IN
  IF \E r \in R : ~Aligned(c, r.prices, r.sigs) THEN "BatchLengthMismatch"
  ELSE IF ~Fresh(c.timestamp)                   THEN "StalePrice"
  ELSE IF \E r \in R : ~AllPricesOk(r.prices)   THEN "InvalidPrice"
  ELSE IF RosterResult(c.rounds) # "Ok"         THEN RosterResult(c.rounds)
  ELSE IF ~EnoughRounds(c.rounds)               THEN "QuorumNotMet"
  ELSE IF \E r \in R : ~AllVerify(c, r.pubkey, r.prices, r.sigs) THEN "Trap"
  ELSE "Ok"

-----------------------------------------------------------------------------
\* The writes.

\* A temporary entry past its time to live reads as absent.
tempLive ==
  [a \in Assets |-> IF tempTtl[a] < 0 THEN NoEntry ELSE priceTemp[a]]

\* Fault: a round equal to the stored one is written again.
IsNewerOrEqual(entry, round_id) ==
  \/ entry = NoEntry
  \/ round_id >= entry.round_id

\* Only a round newer than the stored one is written; an older or equal one
\* is a silent no-op.
IsNewer(entry, round_id) ==
  \/ entry = NoEntry
  \/ round_id > entry.round_id

\* Fault: extend_ttl is forgotten.
TtlNotExtended(ttl) == IF ttl < 0 THEN NewTempTtl ELSE ttl

\* set, then extend_ttl: the host creates an absent entry with NewTempTtl and
\* leaves the time to live of an existing one alone.
TtlAfterWrite(ttl) ==
  LET set == IF ttl < 0 THEN NewTempTtl ELSE ttl IN
  IF set <= TEMP_THRESHOLD /\ set < TEMP_EXTEND THEN TEMP_EXTEND ELSE set

\* Fault: the ring is trimmed one round late.
PushRingLate(ring, entry) ==
  IF Len(ring) > RING_CAP THEN Append(Tail(ring), entry)
                          ELSE Append(ring, entry)

PushRing(ring, entry) ==
  IF Len(ring) + 1 > RING_CAP THEN Append(Tail(ring), entry)
                              ELSE Append(ring, entry)

\* The assets of call c whose stored entry the call replaces.
Replaced(c, stored) ==
  {a \in Range(c.assets) : IsNewer(stored[a], c.round_id)}

\* An asset listed twice is written at its first position: at the second the
\* stored round is no longer older.
Position(c, a) ==
  CHOOSE i \in DOMAIN c.assets :
    /\ c.assets[i] = a
    /\ \A j \in DOMAIN c.assets : c.assets[j] = a => i <= j

Entry(c, price) ==
  [price |-> price, timestamp |-> c.timestamp, round_id |-> c.round_id]

\* Write the entries of function new under the assets of its domain.
WriteTemp(new) ==
  /\ priceTemp' = [a \in Assets |-> IF a \in DOMAIN new THEN new[a]
                                                      ELSE priceTemp[a]]
  /\ tempTtl' = [a \in Assets |-> IF a \in DOMAIN new
                                  THEN TtlAfterWrite(tempTtl[a])
                                  ELSE tempTtl[a]]
  /\ UNCHANGED <<pricePers, priceRing>>

WritePers(new) ==
  /\ pricePers' = [a \in Assets |-> IF a \in DOMAIN new THEN new[a]
                                                      ELSE pricePers[a]]
  /\ priceRing' = [a \in Assets |-> IF a \in DOMAIN new
                                    THEN PushRing(priceRing[a], new[a])
                                    ELSE priceRing[a]]
  /\ UNCHANGED <<priceTemp, tempTtl>>

\* Column i of the submitted rounds, in the order of the call.
PriceColumn(rounds, i) == [j \in DOMAIN rounds |-> rounds[j].prices[i]]

-----------------------------------------------------------------------------
\* The entrypoints and the ledger.

priceVars == <<priceTemp, tempTtl, pricePers, priceRing>>

Init ==
  /\ publishers \in PublisherLists
  /\ storedQuorum = 0
  /\ priceTemp = [a \in Assets |-> NoEntry]
  /\ tempTtl = [a \in Assets |-> -1]
  /\ pricePers = [a \in Assets |-> NoEntry]
  /\ priceRing = [a \in Assets |-> <<>>]
  /\ now = 0

SetPublishers(list) ==
  /\ publishers' = list
  /\ UNCHANGED <<storedQuorum, now, priceVars>>

\* publishers.len() counts a key listed twice twice.
QuorumInRange(quorum) == 1 <= quorum /\ quorum <= Len(publishers)

SetQuorum(quorum) ==
  /\ QuorumInRange(quorum)
  /\ storedQuorum' = quorum
  /\ UNCHANGED <<publishers, now, priceVars>>

\* The entries call c writes over the stored ones.
NewEntries(c, stored, Price(_)) ==
  [a \in Replaced(c, stored) |-> Entry(c, Price(Position(c, a)))]

UpdateBatchArgs(c) ==
  LET Price(i) == c.prices[i] IN
  /\ ArgsResult(c) = "Ok"
  /\ WriteTemp(NewEntries(c, tempLive, Price))
  /\ UNCHANGED <<publishers, storedQuorum, now>>

UpdateBatchPersistent(c) ==
  LET Price(i) == c.prices[i] IN
  /\ PersistentResult(c) = "Ok"
  /\ WritePers(NewEntries(c, pricePers, Price))
  /\ UNCHANGED <<publishers, storedQuorum, now>>

UpdateQuorumPersistent(c) ==
  LET Price(i) == Median(PriceColumn(c.rounds, i)) IN
  /\ QuorumResult(c) = "Ok"
  /\ WritePers(NewEntries(c, pricePers, Price))
  /\ UNCHANGED <<publishers, storedQuorum, now>>

\* The host closes a ledger: time moves on by at least a second and every
\* temporary entry is one ledger closer to its expiry.
CloseLedger ==
  /\ \E gap \in 1..MaxGap : now + gap <= MaxTime /\ now' = now + gap
  /\ tempTtl' = [a \in Assets |-> IF tempTtl[a] < 0 THEN -1 ELSE tempTtl[a] - 1]
  /\ UNCHANGED <<publishers, storedQuorum, priceTemp, pricePers, priceRing>>

Next ==
  \/ \E list \in PublisherLists : SetPublishers(list)
  \/ \E quorum \in QuorumArgs : SetQuorum(quorum)
  \/ \E c \in BatchCalls : UpdateBatchArgs(c)
  \/ \E c \in BatchCalls : UpdateBatchPersistent(c)
  \/ \E c \in QuorumCalls : UpdateQuorumPersistent(c)
  \/ CloseLedger

Spec == Init /\ [][Next]_vars

-----------------------------------------------------------------------------
\* What the contract promises.

\* Type invariant of the contract's storage and of the ledger around it.
TypeOK ==
  /\ publishers \in PublisherLists
  /\ storedQuorum \in Nat
  /\ priceTemp \in [Assets -> PriceEntry \cup {NoEntry}]
  /\ tempTtl \in [Assets -> Nat \cup {-1}]
  /\ pricePers \in [Assets -> PriceEntry \cup {NoEntry}]
  /\ priceRing \in [Assets -> Seq(PriceEntry)]
  /\ now \in Nat

\* The history ring and the latest price are two storage entries written by
\* separate host calls (write_pers, push_ring) from two entrypoints.  They stay
\* in step: the ring holds at most RING_CAP rounds, oldest first, without
\* repetition, and ends in the entry get_price_pers returns.
RingMatchesLatest ==
  \A a \in Assets :
    LET ring == priceRing[a] IN
    /\ Len(ring) <= RING_CAP
    /\ \A i, j \in DOMAIN ring : i < j => ring[i].round_id < ring[j].round_id
    /\ (pricePers[a] = NoEntry) <=> (ring = <<>>)
    /\ ring # <<>> => ring[Len(ring)] = pricePers[a]

\* The signatures of registered publishers over asset a, the timestamp and the
\* round of entry e.
QuotesFor(a, e) ==
  {s \in Signatures :
     /\ s.key \in Range(publishers)
     /\ s.msg.asset = a
     /\ s.msg.timestamp = e.timestamp
     /\ s.msg.round_id = e.round_id}

\* e is the median of signed quotes of at least n distinct registered keys.
BackedBy(n, a, e) ==
  \E Q \in SUBSET QuotesFor(a, e) :
    /\ Cardinality(Q) >= n
    /\ \A s, t \in Q : s.key = t.key => s = t
    /\ \E px \in [1 .. Cardinality(Q) -> {s.msg.price : s \in Q}] :
         /\ \A p \in Range(px) : Cardinality({i \in DOMAIN px : px[i] = p})
                                = Cardinality({s \in Q : s.msg.price = p})
         /\ e.price = Median(px)

\* An accepted entry is not older than the staleness bound, not further ahead
\* than the skew allowance, and newer than the one it replaces.
InWindow(e) ==
  /\ now <= e.timestamp + STALENESS_SECS
  /\ e.timestamp <= now + FUTURE_SKEW_SECS

\* THREAT_MODEL.md's invariant, for the persistent price: whatever call writes
\* it, and whatever the admin did to the publisher set and the quorum before,
\* the new price is the median of at least quorum() distinct registered
\* publishers' signed prices for one round, in the acceptance window, and the
\* round is newer than the one it replaces.
PersistentPriceBacked ==
  [][\A a \in Assets : pricePers'[a] # pricePers[a] =>
       /\ BackedBy(Quorum, a, pricePers'[a])
       /\ InWindow(pricePers'[a])
       /\ IsNewer(pricePers[a], pricePers'[a].round_id)]_vars

\* The same for the temporary price, which one registered publisher may write
\* at any quorum: the signature over that very asset, price, timestamp and
\* round exists.
TemporaryPriceBacked ==
  [][\A a \in Assets : priceTemp'[a] # priceTemp[a] =>
       /\ BackedBy(1, a, priceTemp'[a])
       /\ InWindow(priceTemp'[a])]_vars

\* Publishers sign timestamps that do not run backwards along the rounds (the
\* keeper derives both from one clock).  The next two properties and TempFeedSpec
\* need it.
CoherentSigning ==
  \A s, t \in Signatures :
    s.msg.round_id <= t.msg.round_id => s.msg.timestamp <= t.msg.timestamp

\* The temporary price never goes back to an earlier round, not even across the
\* expiry of the entry that remembers the round: extend_ttl keeps the entry
\* alive for longer than any earlier signed round stays acceptable.
TemporaryPriceNeverRegresses ==
  [][CoherentSigning =>
       \A a \in Assets :
         priceTemp[a] # NoEntry =>
           priceTemp'[a].round_id >= priceTemp[a].round_id]_vars

\* A round that is accepted but not written (the silent no-op) is harmless: the
\* price the reader then finds for the asset is at least as new as the caller's
\* and itself inside the acceptance window.
SilentNoOpReadsFresh ==
  CoherentSigning =>
    /\ \A c \in BatchCalls : ArgsResult(c) = "Ok" =>
         \A a \in Range(c.assets) \ Replaced(c, tempLive) : InWindow(tempLive[a])
    /\ \A c \in BatchCalls : PersistentResult(c) = "Ok" =>
         \A a \in Range(c.assets) \ Replaced(c, pricePers) : InWindow(pricePers[a])
    /\ \A c \in QuorumCalls : QuorumResult(c) = "Ok" =>
         \A a \in Range(c.assets) \ Replaced(c, pricePers) : InWindow(pricePers[a])

\* A minority of publishers cannot move the persistent price out of the range
\* the others signed: whichever fewer than half of the quorum are faulty (wrong,
\* equivocating, silent), some other registered publisher signed at least, and
\* some other at most, the price stored for that round.
MinorityCannotMovePrice ==
  [][\A a \in Assets : pricePers'[a] # pricePers[a] =>
       \A faulty \in SUBSET Range(publishers) : 2 * Cardinality(faulty) < Quorum =>
         \E s, t \in QuotesFor(a, pricePers'[a]) :
           /\ {s.key, t.key} \cap faulty = {}
           /\ s.msg.price <= pricePers'[a].price
           /\ pricePers'[a].price <= t.msg.price]_vars

\* The persistent storage is a price feed (PriceFeed.tla): get_price_pers reads
\* its latest entry and prices() and twap() its history.
Feed == INSTANCE PriceFeed WITH
          Prices <- 1..MAX_PRICE, Depth <- RING_CAP, MaxAge <- STALENESS_SECS,
          MaxAhead <- FUTURE_SKEW_SECS, None <- NoEntry,
          latest <- pricePers, history <- priceRing, time <- now
FeedSpec == Feed!Spec

\* Publishers that sign coherently make the temporary storage a price feed as well,
\* with a history of one entry, although the entry that remembers the last round
\* expires: what is written after the expiry is still newer.
lastWritten == [a \in Assets |-> IF priceTemp[a] = NoEntry THEN <<>> ELSE <<priceTemp[a]>>]

TempFeed == INSTANCE PriceFeed WITH
              Prices <- 1..MAX_PRICE, Depth <- 1, MaxAge <- STALENESS_SECS,
              MaxAhead <- FUTURE_SKEW_SECS, None <- NoEntry,
              latest <- priceTemp, history <- lastWritten, time <- now
TempFeedSpec == TempFeed!Spec
=============================================================================
