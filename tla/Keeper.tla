------------------------------- MODULE Keeper -------------------------------
(***************************************************************************)
(* The attestation service (scripts/keeper): the poll loop of index.mjs    *)
(* and keeper.mjs, the venue requests of exchanges.mjs, the watchdog, and  *)
(* the machine that restarts the process.                                  *)
(*                                                                         *)
(* Node runs one callback at a time: the code between two awaits is one    *)
(* step, and the HTTP handlers, the watchdog and the exit of the process   *)
(* come between steps.  Timers fire on time (a step takes no time), so the *)
(* clock does not pass a moment at which a callback is due.                *)
(***************************************************************************)
EXTENDS Aggregate

CONSTANTS
  Assets,
  Lists,        \* the assets each venue is polled for
  Quotes,       \* what a venue may quote, in units of the signed precision
  Fallback,     \* venues with fallbackToAllOn400 (binance)
  Strict,       \* venues that refuse the list for one unknown symbol (kraken)
  NoAttestation

CONSTANTS
  SECOND, POLL_INTERVAL_MS, ROUND_WINDOW_MS, FETCH_TIMEOUT_MS,
  SERVE_MAX_STALENESS_S,
  WATCHDOG_GRACE_MS, WATCHDOG_PERIOD_MS,
  MaxTime       \* bound: clock reached

ASSUME KeeperAssumption ==
  /\ Lists \in [Venues -> SUBSET Assets]
  /\ Quotes \subseteq Nat \ {0}
  /\ Fallback \subseteq Venues
  /\ Strict \subseteq Venues \ Fallback
  /\ {SECOND, POLL_INTERVAL_MS, ROUND_WINDOW_MS, FETCH_TIMEOUT_MS,
      WATCHDOG_GRACE_MS, WATCHDOG_PERIOD_MS} \subseteq Nat \ {0}
  /\ {SERVE_MAX_STALENESS_S, MaxTime} \subseteq Nat
  /\ NoAttestation \notin [price : Int, timestamp : Nat, round_id : Nat, sources : Nat]

\* A second holds a whole number of round windows.
ASSUME WindowsDivideSeconds == SECOND % ROUND_WINDOW_MS = 0

\* A sample is still fresh when the slowest venue of its poll has answered.
ASSUME SamplesOutliveAPoll == FETCH_TIMEOUT_MS <= STALENESS_MS

VARIABLES
  up,          \* the process is running
  startedAt,   \* when it started
  nextWatch,   \* when the watchdog's interval fires next
  wake,        \* when loop() runs next, while no poll is running
  polling,     \* pollOnce() is awaiting its venues
  pollStart,   \* t0 of loop()
  awaiting,    \* venues whose request is in flight
  allMode,     \* venues asked for all tickers instead of the symbol list
  samples,     \* samples[asset][exchange]
  latest,      \* latest[asset]
  delisted,    \* <<venue, asset>>: the venue no longer knows the symbol
  signed,      \* history: stamps of everything ever signed with this key
  now          \* Date.now()

process == <<up, startedAt, nextWatch, wake, polling, pollStart, awaiting,
             allMode, samples, latest>>
vars == <<process, delisted, signed, now>>

Attestation == [price : Int, timestamp : Nat, round_id : Nat, sources : Nat]
Stamp == [timestamp : Nat, round_id : Nat]

-----------------------------------------------------------------------------
\* Derived from the state.

RoundId(time) == time \div ROUND_WINDOW_MS
Seconds(time) == time \div SECOND

\* Fault: the round is that of the moment the poll started.
StampOfPollStart == [timestamp |-> Seconds(now), round_id |-> RoundId(pollStart)]

StampOfNow == [timestamp |-> Seconds(now), round_id |-> RoundId(now)]

\* Fault: the requests have no timeout.
NoDeadline == MaxTime + 1

\* When the AbortController aborts the requests of the running poll.
Deadline == pollStart + FETCH_TIMEOUT_MS

\* stats().last_signed_age_s is the age of the freshest attestation.
Signed == {a \in Assets : latest[a] # NoAttestation}
NeverSigned == Signed = {}
LastSignedAge == Seconds(now) - Max({latest[a].timestamp : a \in Signed})

-----------------------------------------------------------------------------
\* The venues' answers to one batched request.

Delisted(v) == {a \in Lists[v] : <<v, a>> \in delisted}

\* Fault: every venue falls back, also one that has no all-tickers endpoint.
AnyModeAfterRejection(v) == allMode \cup {v}

ModeAfterRejection(v) == IF v \in Fallback THEN allMode \cup {v} ELSE allMode

\* Venues that check the symbol list they are sent.
ChecksList(v) == v \in Fallback \cup Strict /\ v \notin allMode

\* A network error, an HTTP error or the abort: null.
Fail(v) ==
  /\ v \in awaiting
  /\ awaiting' = awaiting \ {v}
  /\ UNCHANGED <<allMode, samples>>

\* HTTP 400 or Kraken's error list: an unknown symbol, or any other complaint.
Reject(v) ==
  /\ v \in awaiting
  /\ ChecksList(v)
  /\ awaiting' = awaiting \ {v}
  /\ allMode' = ModeAfterRejection(v)
  /\ UNCHANGED samples

\* The samples of the assets in DOMAIN quote are replaced; a venue may leave a
\* listed symbol out or quote it with no finite positive price.
Answer(v, quote) ==
  /\ v \in awaiting
  /\ ChecksList(v) => Delisted(v) = {}
  /\ awaiting' = awaiting \ {v}
  /\ samples' = [a \in Assets |->
       IF a \in DOMAIN quote
       THEN [samples[a] EXCEPT ![v] = [price |-> quote[a], ts |-> now]]
       ELSE samples[a]]
  /\ UNCHANGED allMode

VenueStep ==
  /\ up /\ polling
  /\ \E v \in awaiting :
       \/ Fail(v)
       \/ Reject(v)
       \/ \E S \in SUBSET (Lists[v] \ Delisted(v)) :
            \E quote \in [S -> Quotes] : Answer(v, quote)
  /\ UNCHANGED <<up, startedAt, nextWatch, wake, polling, pollStart, latest,
                 delisted, signed, now>>

-----------------------------------------------------------------------------
\* The poll loop.

\* Venues with at least one asset; pollOnce() asks no other.
Asked == {v \in Venues : Lists[v] # {}}

StartPoll ==
  /\ up /\ ~polling /\ now >= wake
  /\ polling' = TRUE
  /\ pollStart' = now
  /\ awaiting' = Asked
  /\ UNCHANGED <<up, startedAt, nextWatch, wake, allMode, samples, latest,
                 delisted, signed, now>>

\* An asset without a usable sample keeps the attestation it has.
Attest(a) ==
  LET agg == Aggregated(samples[a], now) IN
  IF agg = NoPrice THEN latest[a]
  ELSE [price |-> agg.price, sources |-> agg.sources,
        timestamp |-> StampOfNow.timestamp, round_id |-> StampOfNow.round_id]

\* When the timer that loop() sets fires.
NextPoll == Max({now, pollStart + POLL_INTERVAL_MS})

\* All venues have answered or failed: sign, publish, broadcast, and schedule
\* the next poll.
SignRound ==
  /\ up /\ polling /\ awaiting = {}
  /\ latest' = [a \in Assets |-> Attest(a)]
  /\ signed' = IF \E a \in Assets : Aggregated(samples[a], now) # NoPrice
               THEN signed \cup {StampOfNow} ELSE signed
  /\ polling' = FALSE
  /\ wake' = NextPoll
  /\ UNCHANGED <<up, startedAt, nextWatch, pollStart, awaiting, allMode, samples,
                 delisted, now>>

-----------------------------------------------------------------------------
\* The process.

\* Fault: the watchdog waits for a first signature.
StalledSinceSigning == ~NeverSigned /\ LastSignedAge > SERVE_MAX_STALENESS_S

Stalled == NeverSigned \/ LastSignedAge > SERVE_MAX_STALENESS_S

\* What a process knows is gone when it ends, and a new one starts with nothing:
\* it polls at once and its watchdog first looks after a whole period.
StartsAt(time) ==
  /\ startedAt' = time
  /\ nextWatch' = time + WATCHDOG_PERIOD_MS
  /\ wake' = time
  /\ pollStart' = time

Forgets ==
  /\ polling' = FALSE
  /\ awaiting' = {}
  /\ allMode' = {}
  /\ samples' = [a \in Assets |-> [v \in Venues |-> NoSample]]
  /\ latest' = [a \in Assets |-> NoAttestation]

Down == up' = FALSE /\ StartsAt(0) /\ Forgets /\ UNCHANGED <<delisted, signed, now>>

Watchdog ==
  /\ up /\ now >= nextWatch
  /\ IF now - startedAt >= WATCHDOG_GRACE_MS /\ Stalled
     THEN Down
     ELSE /\ nextWatch' = nextWatch + WATCHDOG_PERIOD_MS
          /\ UNCHANGED <<up, startedAt, wake, polling, pollStart, awaiting, allMode,
                         samples, latest, delisted, signed, now>>

\* A crash guard or SIGTERM ends the process between any two steps.
Exit == up /\ Down

Restart ==
  /\ ~up
  /\ up' = TRUE
  /\ StartsAt(now)
  /\ UNCHANGED <<polling, awaiting, allMode, samples, latest, delisted, signed, now>>

-----------------------------------------------------------------------------
\* The environment.

Delist(v, a) ==
  /\ a \in Lists[v]
  /\ delisted = {}     \* bound: one delisting
  /\ delisted' = {<<v, a>>}
  /\ UNCHANGED <<process, signed, now>>

NothingDue ==
  up => /\ now < nextWatch
        /\ ~polling => now < wake
        /\ polling => awaiting # {} /\ now < Deadline

Tick ==
  /\ now < MaxTime
  /\ NothingDue
  /\ now' = now + 1
  /\ UNCHANGED <<process, delisted, signed>>

Init ==
  /\ up = TRUE
  /\ now = 0 /\ startedAt = 0 /\ wake = 0 /\ pollStart = 0
  /\ nextWatch = WATCHDOG_PERIOD_MS
  /\ polling = FALSE
  /\ awaiting = {}
  /\ allMode = {}
  /\ samples = [a \in Assets |-> [v \in Venues |-> NoSample]]
  /\ latest = [a \in Assets |-> NoAttestation]
  /\ delisted = {}
  /\ signed = {}

Next ==
  \/ VenueStep
  \/ StartPoll
  \/ SignRound
  \/ Watchdog
  \/ Exit
  \/ Restart
  \/ \E v \in Venues, a \in Assets : Delist(v, a)
  \/ Tick

Spec == Init /\ [][Next]_vars

-----------------------------------------------------------------------------
\* What the service promises.

\* Type invariant.
TypeOK ==
  /\ up \in BOOLEAN /\ polling \in BOOLEAN
  /\ {startedAt, nextWatch, wake, pollStart, now} \subseteq Nat
  /\ awaiting \subseteq Venues /\ allMode \subseteq Fallback
  /\ samples \in [Assets -> [Venues -> Sample \cup {NoSample}]]
  /\ latest \in [Assets -> Attestation \cup {NoAttestation}]
  /\ delisted \subseteq Venues \X Assets
  /\ signed \subseteq Stamp

\* An attestation signed now rests on quotes a venue gave for that asset within
\* STALENESS_MS, by this process: a slow poll, a hung venue or an exchange that
\* fell silent never puts an older quote under a new timestamp.
SignedFromFreshQuotes ==
  [][\A a \in Assets : up' /\ latest'[a] # latest[a] =>
       \E lo, hi \in {v \in Venues : samples[a][v] # NoSample} :
         /\ now - samples[a][lo].ts <= STALENESS_MS
         /\ now - samples[a][hi].ts <= STALENESS_MS
         /\ samples[a][lo].price <= latest'[a].price
         /\ latest'[a].price <= samples[a][hi].price]_vars

\* Whatever is signed with the key, by any process that ever held it, carries
\* timestamps that do not run backwards along the rounds.  Oracle.tla's
\* CoherentSigning assumes this of the publishers.
SigningIsCoherent ==
  \A s, t \in signed : s.round_id <= t.round_id => s.timestamp <= t.timestamp

\* Past its grace period a process has signed, and the freshest attestation it
\* serves is at most one watchdog period older than SERVE_MAX_STALENESS_S: a
\* keeper that cannot sign, from the start or since its last round, does not keep
\* running.
StallEndsTheProcess ==
  up /\ now - startedAt >= WATCHDOG_GRACE_MS + WATCHDOG_PERIOD_MS =>
    /\ ~NeverSigned
    /\ LastSignedAge * SECOND
         <= SERVE_MAX_STALENESS_S * SECOND + WATCHDOG_PERIOD_MS + SECOND

\* One venue that hangs delays the others' quotes by its timeout and no more: a
\* quote taken FETCH_TIMEOUT_MS ago is in the attestation served, or a later one is.
QuotesAreSignedInTime ==
  \A a \in Assets, v \in Venues :
    samples[a][v] # NoSample /\ now > samples[a][v].ts + FETCH_TIMEOUT_MS =>
      /\ latest[a] # NoAttestation
      /\ latest[a].round_id >= RoundId(samples[a][v].ts)

\* Whatever venues, polls, watchdog and restarts do, what is served is the snapshot of
\* an attestation service (AttestationService.tla): what a poll signs carries the
\* stamp of the moment it is signed, what it does not sign stays as it was, and what
\* an ended process served is gone.
Service == INSTANCE AttestationService WITH
             None <- NoAttestation, Second <- SECOND, Window <- ROUND_WINDOW_MS,
             MostSources <- Cardinality(Venues), time <- now
ServiceSpec == Service!Spec
=============================================================================
