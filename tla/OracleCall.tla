----------------------------- MODULE OracleCall -----------------------------
(***************************************************************************)
(* The three update entrypoints of oracle_v0/src/lib.rs, loop iteration by *)
(* loop iteration.  A running call reads and writes a working copy of the  *)
(* price storage; the host commits the copy when the call returns Ok and   *)
(* drops it when the call returns an error or traps.  The host runs one    *)
(* call at a time, and everything else of Oracle.tla happens between calls.*)
(*                                                                         *)
(* Checked to implement Oracle.tla: Spec is a property of CallSpec.        *)
(***************************************************************************)
EXTENDS Oracle

CONSTANT Idle

VARIABLE frame   \* the running call, or Idle

callVars == <<vars, frame>>

Call == frame.call
Rounds == Call.rounds
N == Len(Call.assets)
M == Len(Rounds)

Start(fn, c) ==
  /\ frame = Idle
  /\ frame' = [fn |-> fn, call |-> c, pc |-> "lengths", at |-> 1, result |-> "Ok",
               work |-> [temp |-> priceTemp, ttl |-> tempTtl,
                         pers |-> pricePers, ring |-> priceRing]]
  /\ UNCHANGED vars

Goto(pc)     == frame' = [frame EXCEPT !.pc = pc, !.at = 1]
Advance      == frame' = [frame EXCEPT !.at = @ + 1]
Fail(result) == frame' = [frame EXCEPT !.pc = "return", !.result = result]

\* A loop of `size` iterations: Body is iteration number frame.at, and the loop
\* goes on at label `next` when the iterations are over.
Loop(pc, size, Body, next) ==
  /\ frame # Idle /\ frame.pc = pc
  /\ IF frame.at > size THEN Goto(next) ELSE Body
  /\ UNCHANGED vars

\* Row and column of a nested loop with `columns` columns, from frame.at.
Row(columns)    == (frame.at - 1) \div columns + 1
Column(columns) == ((frame.at - 1) % columns) + 1

-----------------------------------------------------------------------------
\* The working copy.

WorkLive(a) == IF frame.work.ttl[a] < 0 THEN NoEntry ELSE frame.work.temp[a]

PutTemp(a, e) ==
  frame' = [frame EXCEPT !.at = @ + 1,
              !.work.temp[a] = e, !.work.ttl[a] = TtlAfterWrite(@)]

PutPers(a, e) ==
  frame' = [frame EXCEPT !.at = @ + 1,
              !.work.pers[a] = e, !.work.ring[a] = PushRing(@, e)]

\* Fault: is_newer is taken from the storage as the call found it.
StoreUnlessCommittedNewer(a, price) ==
  IF frame.fn = "args"
  THEN IF IsNewer(tempLive[a], Call.round_id)
       THEN PutTemp(a, Entry(Call, price)) ELSE Advance
  ELSE IF IsNewer(pricePers[a], Call.round_id)
       THEN PutPers(a, Entry(Call, price)) ELSE Advance

\* The newer-only write at the end of each asset's iteration.
StoreIfNewer(a, price) ==
  IF frame.fn = "args"
  THEN IF IsNewer(WorkLive(a), Call.round_id)
       THEN PutTemp(a, Entry(Call, price)) ELSE Advance
  ELSE IF IsNewer(frame.work.pers[a], Call.round_id)
       THEN PutPers(a, Entry(Call, price)) ELSE Advance

-----------------------------------------------------------------------------
\* update_batch_ed25519_args and update_batch_ed25519_persistent.

BatchChecks ==
  /\ frame # Idle /\ frame.fn # "quorum" /\ frame.pc = "lengths"
  /\ IF Len(Call.prices) # N \/ Len(Call.sigs) # N THEN Fail("BatchLengthMismatch")
     ELSE IF frame.fn = "persistent" /\ Quorum > 1 THEN Fail("QuorumNotMet")
     ELSE IF ~IsPublisher(Call.pubkey)             THEN Fail("UnknownPublisher")
     ELSE IF ~Fresh(Call.timestamp)                THEN Fail("StalePrice")
     ELSE Goto("bounds")
  /\ UNCHANGED vars

BatchBounds ==
  Loop("bounds", N,
       IF PriceOk(Call.prices[frame.at]) THEN Advance ELSE Fail("InvalidPrice"),
       "assets")

\* Each asset is verified and stored before the next one is looked at.
BatchAssets ==
  LET i == frame.at IN
  Loop("assets", N,
       IF Verifies(Call.pubkey, Call.assets[i], Call.prices[i], Call.timestamp,
                   Call.round_id, Call.sigs[i])
       THEN StoreIfNewer(Call.assets[i], Call.prices[i])
       ELSE Fail("Trap"),
       "return")

-----------------------------------------------------------------------------
\* update_quorum_ed25519_persistent.

QuorumLengths ==
  LET round == Rounds[frame.at] IN
  /\ frame # Idle /\ frame.fn = "quorum"
  /\ Loop("lengths", M,
          IF Len(round.prices) = N /\ Len(round.sigs) = N
          THEN Advance ELSE Fail("BatchLengthMismatch"),
          "window")

QuorumWindow ==
  /\ frame # Idle /\ frame.pc = "window"
  /\ IF Fresh(Call.timestamp) THEN Goto("rounds") ELSE Fail("StalePrice")
  /\ UNCHANGED vars

QuorumBounds ==
  Loop("rounds", M * N,
       IF PriceOk(Rounds[Row(N)].prices[Column(N)])
       THEN Advance ELSE Fail("InvalidPrice"),
       "roster")

\* Fault: the later rounds are compared from the second one on.
RosterStepSkipsNext ==
  LET i == Row(M)  j == Column(M) IN
  IF j = i /\ ~IsPublisher(Rounds[i].pubkey) THEN Fail("UnknownPublisher")
  ELSE IF j > i + 1 /\ Rounds[j].pubkey = Rounds[i].pubkey
  THEN Fail("DuplicatePublisher")
  ELSE Advance

\* Row i: is_publisher for round i, then a scan of the rounds after it.
RosterStep ==
  LET i == Row(M)  j == Column(M) IN
  IF j = i /\ ~IsPublisher(Rounds[i].pubkey) THEN Fail("UnknownPublisher")
  ELSE IF j > i /\ Rounds[j].pubkey = Rounds[i].pubkey
  THEN Fail("DuplicatePublisher")
  ELSE Advance

QuorumRoster == Loop("roster", M * M, RosterStep, "threshold")

QuorumThreshold ==
  /\ frame # Idle /\ frame.pc = "threshold"
  /\ IF M < Quorum THEN Fail("QuorumNotMet") ELSE Goto("verify")
  /\ UNCHANGED vars

QuorumVerify ==
  LET i == Row(N)  j == Column(N) IN
  Loop("verify", M * N,
       IF Verifies(Rounds[i].pubkey, Call.assets[j], Rounds[i].prices[j],
                   Call.timestamp, Call.round_id, Rounds[i].sigs[j])
       THEN Advance ELSE Fail("Trap"),
       "medians")

QuorumMedians ==
  LET i == frame.at IN
  Loop("medians", N,
       StoreIfNewer(Call.assets[i], Median(PriceColumn(Rounds, i))),
       "return")

-----------------------------------------------------------------------------
\* Fault: the writes of a failed call are kept.
CommitAlways == TRUE

Commits == frame.result = "Ok"

Return ==
  /\ frame # Idle /\ frame.pc = "return"
  /\ frame' = Idle
  /\ IF Commits
     THEN /\ priceTemp' = frame.work.temp
          /\ tempTtl' = frame.work.ttl
          /\ pricePers' = frame.work.pers
          /\ priceRing' = frame.work.ring
     ELSE UNCHANGED priceVars
  /\ UNCHANGED <<publishers, storedQuorum, now>>

CallInit == Init /\ frame = Idle

BetweenCalls ==
  /\ frame = Idle
  /\ \/ \E list \in PublisherLists : SetPublishers(list)
     \/ \E quorum \in QuorumArgs : SetQuorum(quorum)
     \/ CloseLedger
  /\ UNCHANGED frame

CallNext ==
  \/ \E fn \in {"args", "persistent"}, c \in BatchCalls : Start(fn, c)
  \/ \E c \in QuorumCalls : Start("quorum", c)
  \/ BatchChecks \/ BatchBounds \/ BatchAssets
  \/ QuorumLengths \/ QuorumWindow \/ QuorumBounds \/ QuorumRoster
  \/ QuorumThreshold \/ QuorumVerify \/ QuorumMedians
  \/ Return
  \/ BetweenCalls

CallSpec == CallInit /\ [][CallNext]_callVars

-----------------------------------------------------------------------------
\* A call that ran through its loops returns what the closed form of Oracle.tla
\* says: the first error in the order of the code's checks, or Ok.
ReturnsFirstError ==
  frame # Idle /\ frame.pc = "return" =>
    frame.result = CASE frame.fn = "args"       -> ArgsResult(Call)
                     [] frame.fn = "persistent" -> PersistentResult(Call)
                     [] frame.fn = "quorum"     -> QuorumResult(Call)

\* The loops implement the atomic entrypoints: a committed call has written what
\* Oracle.tla writes in one step, and a call that fails half-way, after it stored
\* some of its assets, leaves no trace.
ImplementsOracle == Spec
=============================================================================
