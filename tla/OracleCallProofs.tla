-------------------------- MODULE OracleCallProofs --------------------------
(***************************************************************************)
(* The loops of the update entrypoints implement the atomic entrypoints of *)
(* Oracle.tla, for every call: the errors are its errors in its order, and *)
(* a committed call has written what it writes.                            *)
(***************************************************************************)
EXTENDS OracleCall, OracleProofs

-----------------------------------------------------------------------------
\* The frame of a running call, by its fields.
FrameOf(fn, c, pc, at, result, work) ==
  [fn |-> fn, call |-> c, pc |-> pc, at |-> at, result |-> result, work |-> work]
Work(temp, ttl, pers, ring) ==
  [temp |-> temp, ttl |-> ttl, pers |-> pers, ring |-> ring]

\* The storage a call of fn compares its round with, and the price it writes for
\* the i-th asset of call c.
Stored(fn)       == IF fn = "args" THEN tempLive ELSE pricePers
Priced(fn, c, i) == IF fn = "quorum" THEN Median(PriceColumn(c.rounds, i)) ELSE c.prices[i]

\* The assets that the first k iterations of the last loop write.
Written(fn, c, k) == {a \in Replaced(c, Stored(fn)) : Position(c, a) <= k}

Update(fn, c, a) == Entry(c, Priced(fn, c, Position(c, a)))

\* The working copy after those iterations.
WorkOf(fn, c, k) ==
  LET W == Written(fn, c, k) IN
  IF fn = "args"
  THEN Work([a \in Assets |-> IF a \in W THEN Update(fn, c, a) ELSE priceTemp[a]],
            [a \in Assets |-> IF a \in W THEN TtlAfterWrite(tempTtl[a]) ELSE tempTtl[a]],
            pricePers, priceRing)
  ELSE Work(priceTemp, tempTtl,
            [a \in Assets |-> IF a \in W THEN Update(fn, c, a) ELSE pricePers[a]],
            [a \in Assets |-> IF a \in W THEN PushRing(priceRing[a], Update(fn, c, a))
                                         ELSE priceRing[a]])

\* What Oracle.tla says the call returns.
FirstError(fn, c) ==
  CASE fn = "args"       -> ArgsResult(c)
    [] fn = "persistent" -> PersistentResult(c)
    [] fn = "quorum"     -> QuorumResult(c)

Returned(fn, c, result, work) ==
  /\ result = FirstError(fn, c)
  /\ result = "Ok" => work = WorkOf(fn, c, Len(c.assets))

\* What a single-publisher call has found out by the time it is at label pc,
\* before iteration number `at`.
BatchAdmitted(fn, c) ==
  /\ Aligned(c, c.prices, c.sigs)
  /\ fn = "persistent" => ~SinglePathClosed
  /\ IsPublisher(c.pubkey)
  /\ Fresh(c.timestamp)

VerifiesAt(c, r, i) ==
  Verifies(r.pubkey, c.assets[i], r.prices[i], c.timestamp, c.round_id, r.sigs[i])

BatchStage(fn, c, pc, at, result, work) ==
  \/ /\ pc = "lengths" /\ result = "Ok" /\ work = WorkOf(fn, c, 0)
  \/ /\ pc = "bounds"  /\ result = "Ok" /\ work = WorkOf(fn, c, 0)
     /\ BatchAdmitted(fn, c)
     /\ \A i \in 1..Len(c.assets) : i < at => PriceOk(c.prices[i])
  \/ /\ pc = "assets"  /\ result = "Ok" /\ work = WorkOf(fn, c, at - 1)
     /\ BatchAdmitted(fn, c)
     /\ AllPricesOk(c.prices)
     /\ at <= Len(c.assets) + 1
     /\ \A i \in 1..Len(c.assets) : i < at => VerifiesAt(c, c, i)
  \/ /\ pc = "return"  /\ Returned(fn, c, result, work)

\* The checks of the quorum path, over all rounds of the call.
RoundsAligned(c) ==
  \A i \in 1..Len(c.rounds) : Aligned(c, c.rounds[i].prices, c.rounds[i].sigs)
RoundsPriced(c) == \A i \in 1..Len(c.rounds) : AllPricesOk(c.rounds[i].prices)
RoundsVerify(c) ==
  \A i \in 1..Len(c.rounds) :
    AllVerify(c, c.rounds[i].pubkey, c.rounds[i].prices, c.rounds[i].sigs)

\* The number of iteration (i, j) of a nested loop with n columns, and that it
\* comes before number `at`.
Number(i, j, n)     == (i - 1) * n + j
Before(i, j, n, at) == Number(i, j, n) < at

\* Iteration (i, j) of the roster check finds nothing.
RosterPasses(rounds, i, j) ==
  /\ j = i => IsPublisher(rounds[i].pubkey)
  /\ j > i => rounds[j].pubkey # rounds[i].pubkey

QuorumChecked(c, pc, at) ==
  LET n == Len(c.assets)  m == Len(c.rounds) IN
  \/ /\ pc = "lengths"
     /\ \A i \in 1..m : i < at => Aligned(c, c.rounds[i].prices, c.rounds[i].sigs)
  \/ /\ pc = "window"
     /\ RoundsAligned(c)
  \/ /\ pc = "rounds"
     /\ RoundsAligned(c) /\ Fresh(c.timestamp)
     /\ \A i \in 1..m, j \in 1..n : Before(i, j, n, at) => PriceOk(c.rounds[i].prices[j])
  \/ /\ pc = "roster"
     /\ RoundsAligned(c) /\ Fresh(c.timestamp) /\ RoundsPriced(c)
     /\ \A i \in 1..m, j \in 1..m : Before(i, j, m, at) => RosterPasses(c.rounds, i, j)
  \/ /\ pc = "threshold"
     /\ RoundsAligned(c) /\ Fresh(c.timestamp) /\ RoundsPriced(c)
     /\ RosterResult(c.rounds) = "Ok"
  \/ /\ pc = "verify"
     /\ RoundsAligned(c) /\ Fresh(c.timestamp) /\ RoundsPriced(c)
     /\ RosterResult(c.rounds) = "Ok" /\ EnoughRounds(c.rounds)
     /\ \A i \in 1..m, j \in 1..n : Before(i, j, n, at) => VerifiesAt(c, c.rounds[i], j)

QuorumStage(c, pc, at, result, work) ==
  \/ /\ QuorumChecked(c, pc, at)
     /\ result = "Ok" /\ work = WorkOf("quorum", c, 0)
  \/ /\ pc = "medians" /\ result = "Ok" /\ work = WorkOf("quorum", c, at - 1)
     /\ QuorumResult(c) = "Ok"
     /\ at <= Len(c.assets) + 1
  \/ /\ pc = "return" /\ Returned("quorum", c, result, work)

Stage(fn, c, pc, at, result, work) ==
  \/ /\ fn \in {"args", "persistent"} /\ c \in BatchCalls
     /\ BatchStage(fn, c, pc, at, result, work)
  \/ /\ fn = "quorum" /\ c \in QuorumCalls
     /\ QuorumStage(c, pc, at, result, work)

\* f is the frame of a call that has come where its loops can have come.
Running(f) ==
  /\ f = FrameOf(f.fn, f.call, f.pc, f.at, f.result, f.work)
  /\ f.at \in Nat \ {0}
  /\ Stage(f.fn, f.call, f.pc, f.at, f.result, f.work)

\* The inductive invariant: between the steps of a call the storage is as the call
\* found it, what the call has checked so far holds, and its working copy is the
\* storage with the writes of the iterations that are over.
CallInv == Inv /\ (frame # Idle => Running(frame))

-----------------------------------------------------------------------------
\* The frame.

\* What the helpers of the loops do to a frame.
LEMMA FrameMoves ==
  ASSUME NEW fn, NEW c, NEW pc, NEW at, NEW result, NEW work,
         frame = FrameOf(fn, c, pc, at, result, work)
  PROVE  /\ \A p : Goto(p) => frame' = FrameOf(fn, c, p, 1, result, work)
         /\ Advance => frame' = FrameOf(fn, c, pc, at + 1, result, work)
         /\ \A r : Fail(r) => frame' = FrameOf(fn, c, "return", at, r, work)
<1>1. ASSUME NEW p, Goto(p) PROVE frame' = FrameOf(fn, c, p, 1, result, work)
  BY <1>1 DEF Goto, FrameOf
<1>2. ASSUME Advance PROVE frame' = FrameOf(fn, c, pc, at + 1, result, work)
  BY <1>2 DEF Advance, FrameOf
<1>3. ASSUME NEW r, Fail(r) PROVE frame' = FrameOf(fn, c, "return", at, r, work)
  BY <1>3 DEF Fail, FrameOf
<1> QED BY <1>1, <1>2, <1>3

LEMMA FrameFields ==
  ASSUME NEW fn, NEW c, NEW pc, NEW at, NEW result, NEW work, NEW f,
         f = FrameOf(fn, c, pc, at, result, work)
  PROVE  /\ f.fn = fn /\ f.call = c /\ f.pc = pc /\ f.at = at
         /\ f.result = result /\ f.work = work
BY DEF FrameOf

\* A frame in a legal stage is a running call, and conversely.
LEMMA RunningFrame ==
  ASSUME NEW fn, NEW c, NEW pc, NEW at \in Nat \ {0}, NEW result, NEW work, NEW f,
         f = FrameOf(fn, c, pc, at, result, work), Stage(fn, c, pc, at, result, work)
  PROVE  Running(f)
BY FrameFields DEF Running

LEMMA RunningIs ==
  ASSUME NEW f, Running(f)
  PROVE  \E fn, c, pc, at, result, work :
           /\ f = FrameOf(fn, c, pc, at, result, work)
           /\ at \in Nat \ {0}
           /\ Stage(fn, c, pc, at, result, work)
BY DEF Running

-----------------------------------------------------------------------------
\* The assets passed and written.

\* An asset is written at its first position in the call.
LEMMA PositionIsFirst ==
  ASSUME NEW c, c.assets \in Seq(Assets), NEW a \in Range(c.assets)
  PROVE  /\ Position(c, a) \in 1..Len(c.assets)
         /\ c.assets[Position(c, a)] = a
         /\ \A j \in 1..Len(c.assets) : c.assets[j] = a => Position(c, a) <= j
<1> DEFINE T == {i \in DOMAIN c.assets : c.assets[i] = a}
<1>1. T \in SUBSET Nat /\ T # {} /\ DOMAIN c.assets = 1..Len(c.assets)
  BY DEF Range
<1>2. \E i \in T : \A j \in T : i <= j
  BY <1>1, LeastNatural
<1>3. \E i \in DOMAIN c.assets :
        c.assets[i] = a /\ \A j \in DOMAIN c.assets : c.assets[j] = a => i <= j
  BY <1>2
<1> QED BY <1>1, <1>3 DEF Position

LEMMA WrittenSteps ==
  ASSUME NEW fn, NEW c, c.assets \in Seq(Assets)
  PROVE  /\ Written(fn, c, 0) = {}
         /\ Written(fn, c, Len(c.assets)) = Replaced(c, Stored(fn))
         /\ \A i \in 1..Len(c.assets) :
              LET a == c.assets[i] IN
              IF a \in Replaced(c, Stored(fn)) \ Written(fn, c, i - 1)
              THEN Written(fn, c, i) = Written(fn, c, i - 1) \cup {a} /\ Position(c, a) = i
              ELSE Written(fn, c, i) = Written(fn, c, i - 1)
<1> DEFINE R == Replaced(c, Stored(fn))
           n == Len(c.assets)
           W(k) == Written(fn, c, k)
<1>1. R \subseteq Range(c.assets) /\ n \in Nat
  BY DEF Replaced
<1>2. \A a \in R : /\ Position(c, a) \in 1..n
                   /\ c.assets[Position(c, a)] = a
                   /\ \A j \in 1..n : c.assets[j] = a => Position(c, a) <= j
  BY <1>1, PositionIsFirst
<1>3. \A k : W(k) = {a \in R : Position(c, a) <= k}
  BY DEF Written
<1> HIDE DEF R, n, W
<1>4. W(0) = {} /\ W(n) = R
  <2>1. \A a \in R : ~ (Position(c, a) <= 0) /\ Position(c, a) <= n
    BY <1>1, <1>2
  <2>2. W(0) = {}
    BY <1>3, <2>1
  <2>3. W(n) = R
    BY <1>3, <2>1
  <2> QED BY <2>2, <2>3
<1>5. ASSUME NEW i \in 1..n, c.assets[i] \in R \ W(i - 1)
      PROVE  W(i) = W(i - 1) \cup {c.assets[i]} /\ Position(c, c.assets[i]) = i
  <2> DEFINE a == c.assets[i]
  <2>1. Position(c, a) = i
    BY <1>1, <1>2, <1>3, <1>5
  <2>2. \A b \in R : Position(c, b) <= i <=> Position(c, b) <= i - 1 \/ b = a
    BY <1>1, <1>2, <2>1
  <2> QED BY <1>3, <1>5, <2>1, <2>2
<1>6. ASSUME NEW i \in 1..n, c.assets[i] \notin R \ W(i - 1)
      PROVE  W(i) = W(i - 1)
  <2>1. \A b \in R : Position(c, b) = i => b = c.assets[i]
    BY <1>2
  <2>2. \A b \in R : Position(c, b) # i
    <3> TAKE b \in R
    <3>1. SUFFICES ASSUME Position(c, b) = i PROVE FALSE
      OBVIOUS
    <3>2. b = c.assets[i] /\ b \in W(i - 1)
      BY <1>6, <2>1, <3>1
    <3> QED BY <1>3, <3>1, <3>2
  <2>3. \A b \in R : Position(c, b) <= i <=> Position(c, b) <= i - 1
    BY <1>1, <1>2, <2>2
  <2> QED BY <1>3, <2>3
<1> QED BY <1>4, <1>5, <1>6 DEF R, n, W

\* What a write to the working copy does to a frame.
Put(t, x, e) == [t EXCEPT ![x] = e]

AfterPutTemp(f, x, e, v) == [f EXCEPT !.at = @ + 1, !.work.temp[x] = e, !.work.ttl[x] = v]

LEMMA PutTempMoves ==
  ASSUME NEW fn, NEW c, NEW pc, NEW at, NEW result, NEW t, NEW l, NEW p, NEW r, NEW f,
         f = FrameOf(fn, c, pc, at, result, Work(t, l, p, r)),
         NEW x, NEW e, NEW v
  PROVE  AfterPutTemp(f, x, e, v) = FrameOf(fn, c, pc, at + 1, result, Work(Put(t, x, e), Put(l, x, v), p, r))
<1> DEFINE t2 == Put(t, x, e)
           l2 == Put(l, x, v)
           w1 == Work(t, l, p, r)
           w2 == [w1 EXCEPT !.temp = t2]
           w3 == [w2 EXCEPT !.ttl = l2]
           g1 == [f EXCEPT !.at = @ + 1]
           g2 == [g1 EXCEPT !.work = w2]
           g3 == [g2 EXCEPT !.work = w3]
<1>1. g1 = FrameOf(fn, c, pc, at + 1, result, w1)
  BY DEF FrameOf
<1>2. AfterPutTemp(f, x, e, v) = [[g1 EXCEPT !.work.temp[x] = e] EXCEPT !.work.ttl[x] = v]
  BY DEF AfterPutTemp
<1>3. w1.temp = t
  BY DEF Work
<1>4. w2 = Work(t2, l, p, r)
  BY DEF Work
<1> HIDE DEF g1, w1, w2
<1>5. w3 = Work(t2, l2, p, r)
  BY <1>4 DEF Work
<1>6. g2 = [g1 EXCEPT !.work.temp[x] = e]
  BY <1>1, <1>3 DEF FrameOf, w2, Put
<1>7. g2 = FrameOf(fn, c, pc, at + 1, result, w2)
  BY <1>1 DEF FrameOf
<1> HIDE DEF g2, w3
<1>8. g3 = [g2 EXCEPT !.work.ttl[x] = v]
  BY <1>4, <1>7 DEF FrameOf, Work, w3, Put
<1>9. g3 = FrameOf(fn, c, pc, at + 1, result, w3)
  BY <1>7 DEF FrameOf
<1> HIDE DEF g3
<1> QED BY <1>2, <1>5, <1>6, <1>8, <1>9

AfterPutPers(f, x, e, v) == [f EXCEPT !.at = @ + 1, !.work.pers[x] = e, !.work.ring[x] = v]

LEMMA PutPersMoves ==
  ASSUME NEW fn, NEW c, NEW pc, NEW at, NEW result, NEW t, NEW l, NEW p, NEW r, NEW f,
         f = FrameOf(fn, c, pc, at, result, Work(t, l, p, r)),
         NEW x, NEW e, NEW v
  PROVE  AfterPutPers(f, x, e, v) = FrameOf(fn, c, pc, at + 1, result, Work(t, l, Put(p, x, e), Put(r, x, v)))
<1> DEFINE p2 == Put(p, x, e)
           r2 == Put(r, x, v)
           w1 == Work(t, l, p, r)
           w2 == [w1 EXCEPT !.pers = p2]
           w3 == [w2 EXCEPT !.ring = r2]
           g1 == [f EXCEPT !.at = @ + 1]
           g2 == [g1 EXCEPT !.work = w2]
           g3 == [g2 EXCEPT !.work = w3]
<1>1. g1 = FrameOf(fn, c, pc, at + 1, result, w1)
  BY DEF FrameOf
<1>2. AfterPutPers(f, x, e, v) = [[g1 EXCEPT !.work.pers[x] = e] EXCEPT !.work.ring[x] = v]
  BY DEF AfterPutPers
<1>3. w1.pers = p
  BY DEF Work
<1>4. w2 = Work(t, l, p2, r)
  BY DEF Work
<1> HIDE DEF g1, w1, w2
<1>5. w3 = Work(t, l, p2, r2)
  BY <1>4 DEF Work
<1>6. g2 = [g1 EXCEPT !.work.pers[x] = e]
  BY <1>1, <1>3 DEF FrameOf, w2, Put
<1>7. g2 = FrameOf(fn, c, pc, at + 1, result, w2)
  BY <1>1 DEF FrameOf
<1> HIDE DEF g2, w3
<1>8. g3 = [g2 EXCEPT !.work.ring[x] = v]
  BY <1>4, <1>7 DEF FrameOf, Work, w3, Put
<1>9. g3 = FrameOf(fn, c, pc, at + 1, result, w3)
  BY <1>7 DEF FrameOf
<1> HIDE DEF g3
<1> QED BY <1>2, <1>5, <1>6, <1>8, <1>9

\* An entry once written is no longer older than the call's round.
LEMMA UpdateIsNotOlder ==
  ASSUME NEW c, NEW e \in PriceEntry, e.round_id = c.round_id, c.round_id \in Nat
  PROVE  ~IsNewer(e, c.round_id)
BY CallsAssumption DEF IsNewer

\* No iteration has written anything yet.
LEMMA WorkAtStart ==
  ASSUME TypeOK, NEW fn, NEW c, c.assets \in Seq(Assets)
  PROVE  WorkOf(fn, c, 0) =
           Work(priceTemp, tempTtl, pricePers, priceRing)
<1>1. \A a : a \notin Written(fn, c, 0)
  BY WrittenSteps
<1>2. /\ priceTemp = [a \in Assets |-> priceTemp[a]]
      /\ tempTtl = [a \in Assets |-> tempTtl[a]]
      /\ pricePers = [a \in Assets |-> pricePers[a]]
      /\ priceRing = [a \in Assets |-> priceRing[a]]
  BY DEF TypeOK
<1> DEFINE W == Written(fn, c, 0)
           wtemp == [a \in Assets |-> IF a \in W THEN Update(fn, c, a) ELSE priceTemp[a]]
           wttl == [a \in Assets |-> IF a \in W THEN TtlAfterWrite(tempTtl[a]) ELSE tempTtl[a]]
           wpers == [a \in Assets |-> IF a \in W THEN Update(fn, c, a) ELSE pricePers[a]]
           wring == [a \in Assets |-> IF a \in W THEN PushRing(priceRing[a], Update(fn, c, a))
                                                 ELSE priceRing[a]]
<1>3. wtemp = priceTemp /\ wttl = tempTtl /\ wpers = pricePers /\ wring = priceRing
  BY <1>1, <1>2
<1>4. WorkOf(fn, c, 0) =
        IF fn = "args"
        THEN Work(wtemp, wttl, pricePers, priceRing)
        ELSE Work(priceTemp, tempTtl, wpers, wring)
  BY DEF WorkOf
<1> HIDE DEF wtemp, wttl, wpers, wring
<1> QED BY <1>3, <1>4

\* What the call writes are price entries of its round.
UpdatesAreEntries(fn, c) ==
  \A a \in Replaced(c, Stored(fn)) :
    Update(fn, c, a) \in PriceEntry /\ Update(fn, c, a).round_id = c.round_id

\* The newer-only write of one iteration takes the working copy one asset further.
LEMMA StoreStep ==
  ASSUME TypeOK, NEW fn \in {"args", "persistent", "quorum"}, NEW c, NEW pc, NEW result,
         c.assets \in Seq(Assets), c.round_id \in Nat,
         NEW i \in 1..Len(c.assets),
         UpdatesAreEntries(fn, c),
         frame = FrameOf(fn, c, pc, i, result, WorkOf(fn, c, i - 1)),
         StoreIfNewer(c.assets[i], Priced(fn, c, i))
  PROVE  frame' = FrameOf(fn, c, pc, i + 1, result, WorkOf(fn, c, i))
<1> DEFINE x == c.assets[i]
           R == Replaced(c, Stored(fn))
           W == Written(fn, c, i - 1)
           V == Written(fn, c, i)
           work == WorkOf(fn, c, i - 1)
           next == WorkOf(fn, c, i)
           u(a) == Update(fn, c, a)
<1>1. x \in Assets /\ x \in Range(c.assets)
  BY DEF Range
<1>2. /\ x \in R \ W => V = W \cup {x} /\ Position(c, x) = i
      /\ x \notin R \ W => V = W
  BY WrittenSteps
<1>3. frame.fn = fn /\ frame.call = c /\ frame.work = work /\ Call.round_id = c.round_id
  BY FrameFields DEF Call
<1>4. W \subseteq R
  BY DEF Written
<1>5. \A a \in W : u(a) # NoEntry /\ ~IsNewer(u(a), c.round_id)
  BY <1>4, UpdateIsNotOlder, CallsAssumption DEF UpdatesAreEntries
<1>6. x \in R <=> IsNewer(Stored(fn)[x], c.round_id)
  BY <1>1 DEF Replaced
<1>7. Advance => frame' = FrameOf(fn, c, pc, i + 1, result, work)
  BY FrameMoves
<1>8. CASE fn = "args"
  <2> DEFINE wtemp == [a \in Assets |-> IF a \in W THEN u(a) ELSE priceTemp[a]]
             wttl == [a \in Assets |-> IF a \in W THEN TtlAfterWrite(tempTtl[a]) ELSE tempTtl[a]]
             vtemp == [a \in Assets |-> IF a \in V THEN u(a) ELSE priceTemp[a]]
             vttl == [a \in Assets |-> IF a \in V THEN TtlAfterWrite(tempTtl[a]) ELSE tempTtl[a]]
  <2>1. /\ work = Work(wtemp, wttl, pricePers, priceRing)
        /\ next = Work(vtemp, vttl, pricePers, priceRing)
    BY <1>8 DEF WorkOf
  <2>2. WorkLive(x) = IF wttl[x] < 0 THEN NoEntry ELSE wtemp[x]
    BY <1>3, <2>1 DEF WorkLive, Work
  <2>3. /\ wtemp[x] = IF x \in W THEN u(x) ELSE priceTemp[x]
        /\ wttl[x] = IF x \in W THEN TtlAfterWrite(tempTtl[x]) ELSE tempTtl[x]
    BY <1>1
  <2>4. TtlAfterWrite(tempTtl[x]) \in Nat
    BY <1>1, ParametersAssumption DEF TypeOK, TtlAfterWrite
  <2>5. x \in W => WorkLive(x) = u(x)
    BY <2>2, <2>3, <2>4
  <2>6. x \notin W => WorkLive(x) = Stored(fn)[x]
    BY <1>1, <1>8, <2>2, <2>3 DEF Stored, tempLive
  <2>7. IsNewer(WorkLive(x), c.round_id) <=> x \in R \ W
    BY <1>4, <1>5, <1>6, <2>5, <2>6
  <2>8. CASE x \in R \ W
    <3>1. PutTemp(x, Entry(c, Priced(fn, c, i)))
      BY <1>3, <1>8, <2>7, <2>8 DEF StoreIfNewer, Call
    <3>2. Entry(c, Priced(fn, c, i)) = u(x) /\ V = W \cup {x} /\ x \notin W
      BY <1>2, <2>8 DEF Update
    <3>3. vtemp = Put(wtemp, x, u(x))
      BY <1>1, <3>2 DEF Put
    <3>4. vttl = Put(wttl, x, TtlAfterWrite(wttl[x]))
      BY <1>1, <3>2 DEF Put
    <3> HIDE DEF wtemp, wttl, vtemp, vttl, u, W, V, x, R
    <3>5. frame.work.ttl[x] = wttl[x]
      BY <1>3, <2>1 DEF Work
    <3>6. frame' = AfterPutTemp(frame, x, u(x), TtlAfterWrite(wttl[x]))
      BY <3>1, <3>2, <3>5 DEF PutTemp, AfterPutTemp
    <3>7. frame = FrameOf(fn, c, pc, i, result, Work(wtemp, wttl, pricePers, priceRing))
      BY <2>1
    <3>8. frame' = FrameOf(fn, c, pc, i + 1, result, Work(vtemp, vttl, pricePers, priceRing))
      BY <3>3, <3>4, <3>6, <3>7, PutTempMoves
    <3> QED BY <2>1, <3>8
  <2>9. CASE x \notin R \ W
    <3>1. Advance
      BY <1>3, <1>8, <2>7, <2>9 DEF StoreIfNewer, Call
    <3>2. work = next
      BY <1>2, <2>1, <2>9
    <3> QED BY <1>7, <3>1, <3>2
  <2> QED BY <2>8, <2>9
<1>9. CASE fn # "args"
  <2> DEFINE wpers == [a \in Assets |-> IF a \in W THEN u(a) ELSE pricePers[a]]
             wring == [a \in Assets |-> IF a \in W THEN PushRing(priceRing[a], u(a))
                                                   ELSE priceRing[a]]
             vpers == [a \in Assets |-> IF a \in V THEN u(a) ELSE pricePers[a]]
             vring == [a \in Assets |-> IF a \in V THEN PushRing(priceRing[a], u(a))
                                                   ELSE priceRing[a]]
  <2>1. /\ work = Work(priceTemp, tempTtl, wpers, wring)
        /\ next = Work(priceTemp, tempTtl, vpers, vring)
    BY <1>9 DEF WorkOf
  <2>2. frame.work.pers[x] = IF x \in W THEN u(x) ELSE Stored(fn)[x]
    BY <1>1, <1>3, <1>9, <2>1 DEF Stored, Work
  <2>3. IsNewer(frame.work.pers[x], c.round_id) <=> x \in R \ W
    BY <1>4, <1>5, <1>6, <2>2
  <2>4. CASE x \in R \ W
    <3>1. PutPers(x, Entry(c, Priced(fn, c, i)))
      BY <1>3, <1>9, <2>3, <2>4 DEF StoreIfNewer, Call
    <3>2. Entry(c, Priced(fn, c, i)) = u(x) /\ V = W \cup {x} /\ x \notin W
      BY <1>2, <2>4 DEF Update
    <3>3. vpers = Put(wpers, x, u(x))
      BY <1>1, <3>2 DEF Put
    <3>4. vring = Put(wring, x, PushRing(wring[x], u(x)))
      BY <1>1, <3>2 DEF Put
    <3> HIDE DEF wpers, wring, vpers, vring, u, W, V, x, R
    <3>5. frame.work.ring[x] = wring[x]
      BY <1>3, <2>1 DEF Work
    <3>6. frame' = AfterPutPers(frame, x, u(x), PushRing(wring[x], u(x)))
      BY <3>1, <3>2, <3>5 DEF PutPers, AfterPutPers
    <3>7. frame = FrameOf(fn, c, pc, i, result, Work(priceTemp, tempTtl, wpers, wring))
      BY <2>1
    <3>8. frame' = FrameOf(fn, c, pc, i + 1, result, Work(priceTemp, tempTtl, vpers, vring))
      BY <3>3, <3>4, <3>6, <3>7, PutPersMoves
    <3> QED BY <2>1, <3>8
  <2>5. CASE x \notin R \ W
    <3>1. Advance
      BY <1>3, <1>9, <2>3, <2>5 DEF StoreIfNewer, Call
    <3>2. work = next
      BY <1>2, <2>1, <2>5
    <3> QED BY <1>7, <3>1, <3>2
  <2> QED BY <2>4, <2>5
<1> QED BY <1>8, <1>9

-----------------------------------------------------------------------------
\* The nested loops: iteration number `at` of one with n columns is row
\* (at - 1) \div n + 1, column ((at - 1) % n) + 1, and they go row by row.

LEMMA IterationIs ==
  ASSUME NEW m \in Nat, NEW n \in Nat, NEW at \in Nat \ {0}, at <= m * n
  PROVE  LET i == (at - 1) \div n + 1
             j == ((at - 1) % n) + 1 IN
         /\ i \in 1..m /\ j \in 1..n
         /\ at = Number(i, j, n)
<1>1. n \in Nat \ {0}
  <2> SUFFICES ASSUME n = 0 PROVE FALSE
    OBVIOUS
  <2>1. m * n = 0
    OBVIOUS
  <2> QED BY <2>1
<1> DEFINE t == at - 1
           q == t \div n
           r == t % n
<1>2. t \in Nat /\ t < m * n
  OBVIOUS
<1>3. q \in Nat /\ r \in 0 .. n - 1 /\ t = q * n + r
  <2> HIDE DEF t
  <2>1. t \div n \in Nat /\ t % n \in 0 .. n - 1
    BY <1>1, <1>2
  <2>2. t = (t \div n) * n + (t % n)
    BY <1>1, <1>2, <2>1
  <2> QED BY <2>1, <2>2
<1> HIDE DEF q, r
<1>4. q < m
  <2> SUFFICES ASSUME m <= q PROVE FALSE
    BY <1>3
  <2>1. m * n \in Int /\ q * n \in Int /\ m * n <= q * n
    BY <1>3, ProductMonotone
  <2> QED BY <1>2, <1>3, <2>1
<1>5. q + 1 \in 1..m /\ r + 1 \in 1..n /\ at = ((q + 1) - 1) * n + (r + 1)
  BY <1>1, <1>2, <1>3, <1>4
<1> QED BY <1>5 DEF q, r, t, Number

\* Which iterations are over at the start of a row's j-th.
LEMMA BeforeIs ==
  ASSUME NEW n \in Nat, NEW i \in Nat \ {0}, NEW j \in 1..n, NEW at,
         at = Number(i, j, n),
         NEW a \in Nat \ {0}, NEW b \in 1..n
  PROVE  /\ Before(a, b, n, at) <=> a < i \/ (a = i /\ b < j)
         /\ Before(a, b, n, at + 1) => Before(a, b, n, at) \/ (a = i /\ b = j)
<1> DEFINE x == (a - 1) * n
           y == (i - 1) * n
<1>1. x \in Int /\ y \in Int
  OBVIOUS
<1>2. a < i => x + n <= y
  <2> SUFFICES ASSUME a < i PROVE x + n <= y
    OBVIOUS
  <2>1. a \in Int /\ i - 1 \in Int /\ a <= i - 1
    OBVIOUS
  <2>2. a * n \in Int /\ a * n <= y
    BY <2>1, ProductMonotone
  <2>3. a * n = x + n
    OBVIOUS
  <2> QED BY <2>2, <2>3
<1>3. i < a => y + n <= x
  <2> SUFFICES ASSUME i < a PROVE y + n <= x
    OBVIOUS
  <2>1. i \in Int /\ a - 1 \in Int /\ i <= a - 1
    OBVIOUS
  <2>2. i * n \in Int /\ i * n <= x
    BY <2>1, ProductMonotone
  <2>3. i * n = y + n
    OBVIOUS
  <2> QED BY <2>2, <2>3
<1>4. a = i => x = y
  OBVIOUS
<1>6. at = y + j /\ \A k : Before(a, b, n, k) <=> x + b < k
  BY DEF Number, Before
<1> HIDE DEF x, y
<1>5. /\ x + b < y + j <=> a < i \/ (a = i /\ b < j)
      /\ x + b < y + j + 1 <=> a < i \/ (a = i /\ b <= j)
  BY <1>1, <1>2, <1>3, <1>4
<1> QED BY <1>5, <1>6

\* Before the first iteration none is over; after the last one all are.
LEMMA BeforeFirstAndLast ==
  ASSUME NEW m \in Nat, NEW n \in Nat, NEW a \in 1..m, NEW b \in 1..n
  PROVE  /\ ~Before(a, b, n, 1)
         /\ \A at \in Nat : m * n < at => Before(a, b, n, at)
<1>1. (a - 1) * n \in Int /\ 0 <= (a - 1) * n
  <2>1. 0 * n \in Int /\ (a - 1) * n \in Int /\ 0 * n <= (a - 1) * n
    BY ProductMonotone
  <2>2. 0 * n = 0
    OBVIOUS
  <2> QED BY <2>1, <2>2
<1>2. a * n \in Int /\ m * n \in Int /\ a * n <= m * n /\ a * n = (a - 1) * n + n
  BY ProductMonotone
<1> QED BY <1>1, <1>2 DEF Before, Number

-----------------------------------------------------------------------------
\* The steps of a running call.

IsCall(fn, c) ==
  \/ fn \in {"args", "persistent"} /\ c \in BatchCalls
  \/ fn = "quorum" /\ c \in QuorumCalls

LEMMA CallFields ==
  ASSUME NEW fn, NEW c, IsCall(fn, c)
  PROVE  /\ c.assets \in Seq(Assets) /\ Len(c.assets) \in Nat
         /\ c.timestamp \in Nat /\ c.round_id \in Nat
         /\ fn = "quorum" => /\ c \in QuorumCall
                             /\ c.rounds \in Seq(PublisherRound) /\ Len(c.rounds) \in Nat
         /\ fn # "quorum" => /\ c \in BatchCall
                             /\ c.prices \in Seq(Int) /\ c.sigs \in Seq(Signatures)
BY CallsAssumption DEF IsCall, BatchCall, QuorumCall

\* A call that fails with the error of the closed form returns as it should.
LEMMA FailReturns ==
  ASSUME NEW fn, NEW c, NEW pc, NEW at \in Nat \ {0}, NEW result, NEW work,
         IsCall(fn, c), frame = FrameOf(fn, c, pc, at, result, work),
         NEW r, r # "Ok", r = FirstError(fn, c), Fail(r)
  PROVE  Running(frame')
<1>1. frame' = FrameOf(fn, c, "return", at, r, work)
  BY FrameMoves
<1>2. Returned(fn, c, r, work)
  BY DEF Returned
<1>3. Stage(fn, c, "return", at, r, work)
  BY <1>2 DEF IsCall, Stage, BatchStage, QuorumStage
<1> QED BY <1>1, <1>3, RunningFrame

\* The stage of a frame at a label, without the others.
LEMMA StageAt ==
  ASSUME NEW fn, NEW c, NEW pc, NEW at, NEW result, NEW work,
         Stage(fn, c, pc, at, result, work)
  PROVE  /\ IsCall(fn, c)
         /\ fn # "quorum" => BatchStage(fn, c, pc, at, result, work)
         /\ fn = "quorum" => QuorumStage(c, pc, at, result, work)
BY DEF Stage, IsCall

LEMMA BatchStageHolds ==
  ASSUME NEW fn, NEW c, NEW pc, NEW at \in Nat \ {0}, NEW result, NEW work, NEW f,
         IsCall(fn, c), fn # "quorum", BatchStage(fn, c, pc, at, result, work),
         f = FrameOf(fn, c, pc, at, result, work)
  PROVE  Running(f)
BY RunningFrame DEF Stage, IsCall

LEMMA QuorumStageHolds ==
  ASSUME NEW c, NEW pc, NEW at \in Nat \ {0}, NEW result, NEW work, NEW f,
         IsCall("quorum", c), QuorumStage(c, pc, at, result, work),
         f = FrameOf("quorum", c, pc, at, result, work)
  PROVE  Running(f)
BY RunningFrame DEF Stage, IsCall

LEMMA BatchErrors ==
  ASSUME NEW fn \in {"args", "persistent"}, NEW c
  PROVE  FirstError(fn, c) =
           IF ~Aligned(c, c.prices, c.sigs) THEN "BatchLengthMismatch"
           ELSE IF fn = "persistent" /\ SinglePathClosed THEN "QuorumNotMet"
           ELSE IF ~IsPublisher(c.pubkey)   THEN "UnknownPublisher"
           ELSE IF ~Fresh(c.timestamp)      THEN "StalePrice"
           ELSE IF ~AllPricesOk(c.prices)   THEN "InvalidPrice"
           ELSE IF ~AllVerify(c, c.pubkey, c.prices, c.sigs) THEN "Trap"
           ELSE "Ok"
<1>1. CASE fn = "args"
  BY <1>1 DEF FirstError, ArgsResult
<1>2. CASE fn = "persistent"
  BY <1>2 DEF FirstError, PersistentResult, ArgsResult
<1> QED BY <1>1, <1>2

LEMMA BatchChecksStep ==
  ASSUME Running(frame), BatchChecks
  PROVE  Running(frame')
<1>1. PICK fn, c, pc, at, result, work :
        /\ frame = FrameOf(fn, c, pc, at, result, work)
        /\ at \in Nat \ {0}
        /\ Stage(fn, c, pc, at, result, work)
  BY RunningIs
<1>2. /\ frame.fn = fn /\ frame.call = c /\ frame.pc = pc
      /\ IsCall(fn, c)
      /\ fn # "quorum" => BatchStage(fn, c, pc, at, result, work)
  BY <1>1, FrameFields, StageAt
<1>3. /\ fn # "quorum" /\ pc = "lengths"
      /\ IF Len(c.prices) # Len(c.assets) \/ Len(c.sigs) # Len(c.assets)
         THEN Fail("BatchLengthMismatch")
         ELSE IF fn = "persistent" /\ Quorum > 1 THEN Fail("QuorumNotMet")
         ELSE IF ~IsPublisher(c.pubkey)          THEN Fail("UnknownPublisher")
         ELSE IF ~Fresh(c.timestamp)             THEN Fail("StalePrice")
         ELSE Goto("bounds")
  BY <1>2 DEF BatchChecks, Call, N
<1>4. fn \in {"args", "persistent"} /\ result = "Ok" /\ work = WorkOf(fn, c, 0)
  BY <1>2, <1>3 DEF IsCall, BatchStage
<1>5. \A r : r # "Ok" /\ r = FirstError(fn, c) /\ Fail(r) => Running(frame')
  BY <1>1, <1>2, FailReturns
<1>6. CASE ~Aligned(c, c.prices, c.sigs)
  BY <1>3, <1>4, <1>5, <1>6, BatchErrors DEF Aligned
<1>7. CASE Aligned(c, c.prices, c.sigs) /\ fn = "persistent" /\ SinglePathClosed
  BY <1>3, <1>4, <1>5, <1>7, BatchErrors DEF Aligned, SinglePathClosed
<1>8. CASE /\ Aligned(c, c.prices, c.sigs) /\ ~ (fn = "persistent" /\ SinglePathClosed)
           /\ ~IsPublisher(c.pubkey)
  BY <1>3, <1>4, <1>5, <1>8, BatchErrors DEF Aligned, SinglePathClosed
<1>9. CASE /\ Aligned(c, c.prices, c.sigs) /\ ~ (fn = "persistent" /\ SinglePathClosed)
           /\ IsPublisher(c.pubkey) /\ ~Fresh(c.timestamp)
  BY <1>3, <1>4, <1>5, <1>9, BatchErrors DEF Aligned, SinglePathClosed
<1>10. CASE BatchAdmitted(fn, c)
  <2>1. Goto("bounds")
    BY <1>3, <1>10 DEF BatchAdmitted, Aligned, SinglePathClosed
  <2>2. frame' = FrameOf(fn, c, "bounds", 1, result, work)
    BY <1>1, <2>1, FrameMoves
  <2>3. \A i \in 1..Len(c.assets) : i < 1 => PriceOk(c.prices[i])
    OBVIOUS
  <2>4. BatchStage(fn, c, "bounds", 1, result, work)
    BY <1>4, <1>10, <2>3 DEF BatchStage
  <2> QED BY <1>2, <1>3, <2>2, <2>4, BatchStageHolds
<1> QED BY <1>6, <1>7, <1>8, <1>9, <1>10 DEF BatchAdmitted

LEMMA StartStep ==
  ASSUME TypeOK, NEW fn, NEW c, IsCall(fn, c), Start(fn, c)
  PROVE  Running(frame')
<1>1. c.assets \in Seq(Assets)
  BY CallFields
<1>2. frame' = FrameOf(fn, c, "lengths", 1, "Ok", WorkOf(fn, c, 0))
  BY <1>1, WorkAtStart DEF Start, FrameOf, Work
<1>3. CASE fn # "quorum"
  <2>1. BatchStage(fn, c, "lengths", 1, "Ok", WorkOf(fn, c, 0))
    BY DEF BatchStage
  <2> QED BY <1>2, <1>3, <2>1, BatchStageHolds
<1>4. CASE fn = "quorum"
  <2>1. \A i \in 1..Len(c.rounds) :
          i < 1 => Aligned(c, c.rounds[i].prices, c.rounds[i].sigs)
    OBVIOUS
  <2>2. QuorumStage(c, "lengths", 1, "Ok", WorkOf("quorum", c, 0))
    BY <2>1 DEF QuorumStage, QuorumChecked
  <2> QED BY <1>2, <1>4, <2>2, QuorumStageHolds
<1> QED BY <1>3, <1>4

\* A batch call that has passed its checks and the price bounds of all assets.
LEMMA PricesAreOk ==
  ASSUME NEW c, c.prices \in Seq(Int), Len(c.prices) = Len(c.assets)
  PROVE  AllPricesOk(c.prices) <=> \A i \in 1..Len(c.assets) : PriceOk(c.prices[i])
BY DEF AllPricesOk

LEMMA BatchBoundsStep ==
  ASSUME Running(frame), BatchBounds
  PROVE  Running(frame')
<1>1. PICK fn, c, pc, at, result, work :
        /\ frame = FrameOf(fn, c, pc, at, result, work)
        /\ at \in Nat \ {0}
        /\ Stage(fn, c, pc, at, result, work)
  BY RunningIs
<1>2. /\ frame.call = c /\ frame.pc = pc /\ frame.at = at
      /\ IsCall(fn, c)
      /\ fn # "quorum" => BatchStage(fn, c, pc, at, result, work)
      /\ fn = "quorum" => QuorumStage(c, pc, at, result, work)
  BY <1>1, FrameFields, StageAt
<1>3. /\ pc = "bounds"
      /\ IF at > Len(c.assets) THEN Goto("assets")
         ELSE IF PriceOk(c.prices[at]) THEN Advance ELSE Fail("InvalidPrice")
  BY <1>2 DEF BatchBounds, Loop, Call, N
<1>4. fn # "quorum"
  BY <1>2, <1>3 DEF QuorumStage, QuorumChecked
<1>5. /\ fn \in {"args", "persistent"} /\ result = "Ok" /\ work = WorkOf(fn, c, 0)
      /\ BatchAdmitted(fn, c)
      /\ \A i \in 1..Len(c.assets) : i < at => PriceOk(c.prices[i])
  BY <1>2, <1>3, <1>4 DEF IsCall, BatchStage
<1>6. /\ Len(c.assets) \in Nat /\ c.prices \in Seq(Int) /\ Len(c.prices) = Len(c.assets)
      /\ \A i : i < at + 1 /\ i \in Nat => i < at \/ i = at
  BY <1>1, <1>2, <1>4, <1>5, CallFields DEF BatchAdmitted, Aligned
<1>7. CASE at > Len(c.assets)
  <2>0. Goto("assets")
    BY <1>3, <1>7
  <2>1. frame' = FrameOf(fn, c, "assets", 1, result, work)
    BY <1>1, <2>0, FrameMoves
  <2>2. AllPricesOk(c.prices)
    BY <1>1, <1>5, <1>6, <1>7, PricesAreOk
  <2>3. /\ 1 <= Len(c.assets) + 1 /\ 1 - 1 = 0
        /\ \A i \in 1..Len(c.assets) : i < 1 => VerifiesAt(c, c, i)
    BY <1>6
  <2>4. BatchStage(fn, c, "assets", 1, result, work)
    BY <1>5, <2>2, <2>3 DEF BatchStage
  <2> QED BY <1>2, <1>4, <2>1, <2>4, BatchStageHolds
<1>8. CASE at <= Len(c.assets) /\ PriceOk(c.prices[at])
  <2>0. Advance
    BY <1>1, <1>3, <1>6, <1>8
  <2>1. frame' = FrameOf(fn, c, "bounds", at + 1, result, work)
    BY <1>1, <1>3, <2>0, FrameMoves
  <2>2. \A i \in 1..Len(c.assets) : i < at + 1 => PriceOk(c.prices[i])
    BY <1>5, <1>6, <1>8
  <2>3. BatchStage(fn, c, "bounds", at + 1, result, work)
    BY <1>3, <1>5, <2>2 DEF BatchStage
  <2>4. at + 1 \in Nat \ {0}
    BY <1>1
  <2> QED BY <1>2, <1>3, <1>4, <2>1, <2>3, <2>4, BatchStageHolds
<1>9. CASE at <= Len(c.assets) /\ ~PriceOk(c.prices[at])
  <2>1. ~AllPricesOk(c.prices)
    BY <1>1, <1>6, <1>9, PricesAreOk
  <2>2. FirstError(fn, c) = "InvalidPrice"
    BY <1>5, <2>1, BatchErrors DEF BatchAdmitted
  <2>3. Fail("InvalidPrice")
    BY <1>1, <1>3, <1>6, <1>9
  <2> QED BY <1>1, <1>2, <2>2, <2>3, FailReturns
<1> QED BY <1>1, <1>6, <1>7, <1>8, <1>9

\* The prices of a single-publisher call within bounds make price entries.
LEMMA BatchUpdates ==
  ASSUME NEW fn \in {"args", "persistent"}, NEW c \in BatchCall,
         Len(c.prices) = Len(c.assets), AllPricesOk(c.prices)
  PROVE  UpdatesAreEntries(fn, c)
<1>1. /\ c.assets \in Seq(Assets) /\ c.prices \in Seq(Int)
      /\ c.timestamp \in Nat /\ c.round_id \in Nat
  BY DEF BatchCall
<1>2. SUFFICES ASSUME NEW a \in Replaced(c, Stored(fn))
               PROVE  Update(fn, c, a) \in PriceEntry /\ Update(fn, c, a).round_id = c.round_id
  BY DEF UpdatesAreEntries
<1>3. Position(c, a) \in 1..Len(c.assets)
  BY <1>1, PositionIsFirst DEF Replaced
<1>4. c.prices[Position(c, a)] \in 1..MAX_PRICE
  <2>1. Position(c, a) \in DOMAIN c.prices /\ c.prices[Position(c, a)] \in Int
    BY <1>1, <1>3
  <2>2. PriceOk(c.prices[Position(c, a)])
    BY <2>1 DEF AllPricesOk
  <2> QED BY <2>1, <2>2, ParametersAssumption DEF PriceOk
<1>5. Priced(fn, c, Position(c, a)) = c.prices[Position(c, a)]
  BY DEF Priced
<1> QED BY <1>1, <1>4, <1>5 DEF Update, Entry, PriceEntry

LEMMA BatchAssetsStep ==
  ASSUME TypeOK, Running(frame), BatchAssets
  PROVE  Running(frame')
<1>1. PICK fn, c, pc, at, result, work :
        /\ frame = FrameOf(fn, c, pc, at, result, work)
        /\ at \in Nat \ {0}
        /\ Stage(fn, c, pc, at, result, work)
  BY RunningIs
<1>2. /\ frame.call = c /\ frame.pc = pc /\ frame.at = at
      /\ IsCall(fn, c)
      /\ fn # "quorum" => BatchStage(fn, c, pc, at, result, work)
      /\ fn = "quorum" => QuorumStage(c, pc, at, result, work)
  BY <1>1, FrameFields, StageAt
<1>3. /\ pc = "assets"
      /\ IF at > Len(c.assets) THEN Goto("return")
         ELSE IF VerifiesAt(c, c, at) THEN StoreIfNewer(c.assets[at], c.prices[at])
         ELSE Fail("Trap")
  BY <1>2 DEF BatchAssets, Loop, Call, N, VerifiesAt
<1>4. fn # "quorum"
  BY <1>2, <1>3 DEF QuorumStage, QuorumChecked
<1>5. /\ fn \in {"args", "persistent"} /\ result = "Ok" /\ work = WorkOf(fn, c, at - 1)
      /\ BatchAdmitted(fn, c) /\ AllPricesOk(c.prices)
      /\ at <= Len(c.assets) + 1
      /\ \A i \in 1..Len(c.assets) : i < at => VerifiesAt(c, c, i)
  BY <1>2, <1>3, <1>4 DEF IsCall, BatchStage
<1>6. /\ c \in BatchCall
      /\ c.assets \in Seq(Assets) /\ Len(c.assets) \in Nat /\ c.round_id \in Nat
      /\ Len(c.prices) = Len(c.assets)
      /\ \A i \in Nat : i < at + 1 => i < at \/ i = at
  BY <1>1, <1>2, <1>4, <1>5, CallFields DEF BatchAdmitted, Aligned
<1>7. AllVerify(c, c.pubkey, c.prices, c.sigs) <=> \A i \in 1..Len(c.assets) : VerifiesAt(c, c, i)
  BY <1>6 DEF AllVerify, VerifiesAt
<1>8. CASE at > Len(c.assets)
  <2>0. Goto("return")
    BY <1>3, <1>8
  <2>1. frame' = FrameOf(fn, c, "return", 1, result, work)
    BY <1>1, <2>0, FrameMoves
  <2>2. at - 1 = Len(c.assets)
    BY <1>1, <1>5, <1>6, <1>8
  <2>3. AllVerify(c, c.pubkey, c.prices, c.sigs)
    BY <1>1, <1>5, <1>6, <1>7, <1>8
  <2>4. FirstError(fn, c) = "Ok"
    BY <1>5, <2>3, BatchErrors DEF BatchAdmitted
  <2>5. BatchStage(fn, c, "return", 1, result, work)
    BY <1>5, <2>2, <2>4 DEF BatchStage, Returned
  <2> QED BY <1>2, <1>4, <2>1, <2>5, BatchStageHolds
<1>9. CASE at <= Len(c.assets) /\ VerifiesAt(c, c, at)
  <2>1. StoreIfNewer(c.assets[at], Priced(fn, c, at))
    BY <1>1, <1>3, <1>4, <1>6, <1>9 DEF Priced
  <2>2. UpdatesAreEntries(fn, c)
    BY <1>5, <1>6, BatchUpdates
  <2>3. /\ at \in 1..Len(c.assets) /\ at + 1 \in Nat \ {0} /\ (at + 1) - 1 = at
        /\ at + 1 <= Len(c.assets) + 1
    BY <1>1, <1>6, <1>9
  <2>4. fn \in {"args", "persistent", "quorum"}
    BY <1>5
  <2>5. frame = FrameOf(fn, c, pc, at, result, WorkOf(fn, c, at - 1))
    BY <1>1, <1>5
  <2>6. frame' = FrameOf(fn, c, pc, at + 1, result, WorkOf(fn, c, at))
    BY <1>6, <2>1, <2>2, <2>3, <2>4, <2>5, StoreStep
  <2>7. \A i \in 1..Len(c.assets) : i < at + 1 => VerifiesAt(c, c, i)
    BY <1>5, <1>6, <1>9
  <2>8. BatchStage(fn, c, pc, at + 1, result, WorkOf(fn, c, at))
    BY <1>3, <1>5, <2>3, <2>7 DEF BatchStage
  <2> QED BY <1>2, <1>4, <2>3, <2>6, <2>8, BatchStageHolds
<1>10. CASE at <= Len(c.assets) /\ ~VerifiesAt(c, c, at)
  <2>1. ~AllVerify(c, c.pubkey, c.prices, c.sigs)
    BY <1>1, <1>6, <1>7, <1>10
  <2>2. FirstError(fn, c) = "Trap"
    BY <1>5, <2>1, BatchErrors DEF BatchAdmitted
  <2>3. Fail("Trap")
    BY <1>1, <1>3, <1>6, <1>10
  <2> QED BY <1>1, <1>2, <2>2, <2>3, FailReturns
<1> QED BY <1>1, <1>6, <1>8, <1>9, <1>10

-----------------------------------------------------------------------------
\* The quorum path.

LEMMA QuorumErrors ==
  ASSUME NEW c, c.rounds \in Seq(PublisherRound)
  PROVE  FirstError("quorum", c) =
           IF ~RoundsAligned(c)                   THEN "BatchLengthMismatch"
           ELSE IF ~Fresh(c.timestamp)            THEN "StalePrice"
           ELSE IF ~RoundsPriced(c)               THEN "InvalidPrice"
           ELSE IF RosterResult(c.rounds) # "Ok"  THEN RosterResult(c.rounds)
           ELSE IF ~EnoughRounds(c.rounds)        THEN "QuorumNotMet"
           ELSE IF ~RoundsVerify(c)               THEN "Trap"
           ELSE "Ok"
<1> DEFINE R == {c.rounds[i] : i \in DOMAIN c.rounds}
<1>1. DOMAIN c.rounds = 1..Len(c.rounds)
  OBVIOUS
<1>2. /\ RoundsAligned(c) <=> ~ \E r \in R : ~Aligned(c, r.prices, r.sigs)
      /\ RoundsPriced(c) <=> ~ \E r \in R : ~AllPricesOk(r.prices)
      /\ RoundsVerify(c) <=> ~ \E r \in R : ~AllVerify(c, r.pubkey, r.prices, r.sigs)
  BY <1>1 DEF RoundsAligned, RoundsPriced, RoundsVerify
<1>3. QuorumResult(c) =
        IF \E r \in R : ~Aligned(c, r.prices, r.sigs) THEN "BatchLengthMismatch"
        ELSE IF ~Fresh(c.timestamp)                   THEN "StalePrice"
        ELSE IF \E r \in R : ~AllPricesOk(r.prices)   THEN "InvalidPrice"
        ELSE IF RosterResult(c.rounds) # "Ok"         THEN RosterResult(c.rounds)
        ELSE IF ~EnoughRounds(c.rounds)               THEN "QuorumNotMet"
        ELSE IF \E r \in R : ~AllVerify(c, r.pubkey, r.prices, r.sigs) THEN "Trap"
        ELSE "Ok"
  BY DEF QuorumResult
<1>4. FirstError("quorum", c) = QuorumResult(c)
  BY DEF FirstError
<1> HIDE DEF R
<1> QED BY <1>2, <1>3, <1>4

\* What the closed form says of the roster when the scan stops at (i, j).
LEMMA RosterStops ==
  ASSUME NEW rounds \in Seq(PublisherRound),
         NEW i \in 1..Len(rounds), NEW j \in 1..Len(rounds),
         \A a, b \in 1..Len(rounds) :
           a < i \/ (a = i /\ b < j) => RosterPasses(rounds, a, b)
  PROVE  /\ j = i /\ ~IsPublisher(rounds[i].pubkey)
              => RosterResult(rounds) = "UnknownPublisher"
         /\ j > i /\ rounds[j].pubkey = rounds[i].pubkey
              => RosterResult(rounds) = "DuplicatePublisher"
<1> DEFINE m == Len(rounds)
<1>1. m \in Nat /\ DOMAIN rounds = 1..m
  OBVIOUS
<1>2. ASSUME NEW k \in 1..m, k < i PROVE ~Repeated(rounds, k)
  <2>1. \A b \in k + 1 .. m : b \in 1..m /\ b > k /\ RosterPasses(rounds, k, b)
    BY <1>1, <1>2
  <2> QED BY <2>1 DEF Repeated, RosterPasses
<1>3. ASSUME j = i, ~IsPublisher(rounds[i].pubkey)
      PROVE  RosterResult(rounds) = "UnknownPublisher"
  <2>1. \A k \in 1 .. i - 1 : ~Repeated(rounds, k)
    BY <1>1, <1>2
  <2> QED BY <1>1, <1>3, <2>1 DEF RosterResult
<1>4. ASSUME j > i, rounds[j].pubkey = rounds[i].pubkey
      PROVE  RosterResult(rounds) = "DuplicatePublisher"
  <2>1. Repeated(rounds, i)
    BY <1>1, <1>4 DEF Repeated
  <2>2. \A k \in 1..m : k <= i => IsPublisher(rounds[k].pubkey)
    BY <1>1, <1>4 DEF RosterPasses
  <2>3. \A k \in 1..m : k > i => i \in 1 .. k - 1
    BY <1>1
  <2>4. ~ \E k \in DOMAIN rounds :
            ~IsPublisher(rounds[k].pubkey) /\ \A b \in 1 .. k - 1 : ~Repeated(rounds, b)
    BY <1>1, <2>1, <2>2, <2>3
  <2> QED BY <1>1, <2>1, <2>4 DEF RosterResult
<1> QED BY <1>3, <1>4

LEMMA RosterEnds ==
  ASSUME NEW rounds \in Seq(PublisherRound),
         \A a, b \in 1..Len(rounds) : RosterPasses(rounds, a, b)
  PROVE  RosterResult(rounds) = "Ok"
<1> DEFINE m == Len(rounds)
<1>1. m \in Nat /\ DOMAIN rounds = 1..m
  OBVIOUS
<1>2. \A k \in 1..m : IsPublisher(rounds[k].pubkey)
  BY DEF RosterPasses
<1>3. \A k \in 1..m : \A b \in k + 1 .. m : rounds[b].pubkey # rounds[k].pubkey
  BY <1>1 DEF RosterPasses
<1> QED BY <1>1, <1>2, <1>3 DEF RosterResult, Repeated

\* A running quorum call at one of the labels of its checks.
Checking(f) ==
  \/ f.pc \in {"window", "rounds", "roster", "threshold", "verify"}
  \/ f.pc = "lengths" /\ f.fn = "quorum"

LEMMA QuorumIs ==
  ASSUME Running(frame), Checking(frame)
  PROVE  \E c, at :
           /\ frame = FrameOf("quorum", c, frame.pc, at, "Ok", WorkOf("quorum", c, 0))
           /\ at \in Nat \ {0} /\ IsCall("quorum", c)
           /\ frame.call = c /\ frame.at = at
           /\ QuorumChecked(c, frame.pc, at)
<1>1. PICK fn, c, pc, at, result, work :
        /\ frame = FrameOf(fn, c, pc, at, result, work)
        /\ at \in Nat \ {0}
        /\ Stage(fn, c, pc, at, result, work)
  BY RunningIs
<1>2. /\ frame.fn = fn /\ frame.call = c /\ frame.pc = pc /\ frame.at = at
      /\ IsCall(fn, c)
      /\ fn # "quorum" => BatchStage(fn, c, pc, at, result, work)
      /\ fn = "quorum" => QuorumStage(c, pc, at, result, work)
  BY <1>1, FrameFields, StageAt
<1>3. fn = "quorum"
  BY <1>2 DEF BatchStage, Checking
<1>4. QuorumChecked(c, pc, at) /\ result = "Ok" /\ work = WorkOf("quorum", c, 0)
  BY <1>2, <1>3 DEF QuorumStage, Checking
<1> QED BY <1>1, <1>2, <1>3, <1>4

\* Where the checks of a quorum call go.
LEMMA CheckGoesOn ==
  ASSUME NEW c, NEW pc, NEW at, IsCall("quorum", c),
         frame = FrameOf("quorum", c, pc, at, "Ok", WorkOf("quorum", c, 0)),
         at \in Nat \ {0}
  PROVE  /\ \A p : Goto(p) /\ QuorumChecked(c, p, 1) => Running(frame')
         /\ Advance /\ QuorumChecked(c, pc, at + 1) => Running(frame')
         /\ \A r : r # "Ok" /\ r = FirstError("quorum", c) /\ Fail(r) => Running(frame')
<1>1. ASSUME NEW p, Goto(p), QuorumChecked(c, p, 1) PROVE Running(frame')
  <2>1. frame' = FrameOf("quorum", c, p, 1, "Ok", WorkOf("quorum", c, 0))
    BY <1>1, FrameMoves
  <2>2. QuorumStage(c, p, 1, "Ok", WorkOf("quorum", c, 0))
    BY <1>1 DEF QuorumStage
  <2> QED BY <2>1, <2>2, QuorumStageHolds
<1>2. ASSUME Advance, QuorumChecked(c, pc, at + 1) PROVE Running(frame')
  <2>1. frame' = FrameOf("quorum", c, pc, at + 1, "Ok", WorkOf("quorum", c, 0))
    BY <1>2, FrameMoves
  <2>2. QuorumStage(c, pc, at + 1, "Ok", WorkOf("quorum", c, 0))
    BY <1>2 DEF QuorumStage
  <2> QED BY <2>1, <2>2, QuorumStageHolds
<1>3. ASSUME NEW r, r # "Ok", r = FirstError("quorum", c), Fail(r) PROVE Running(frame')
  BY <1>3, FailReturns
<1> QED BY <1>1, <1>2, <1>3

LEMMA QuorumLengthsStep ==
  ASSUME Running(frame), QuorumLengths
  PROVE  Running(frame')
<1>1. frame.fn = "quorum" /\ frame.pc = "lengths" /\ Checking(frame)
  BY DEF QuorumLengths, Loop, Checking
<1>2. PICK c, at :
        /\ frame = FrameOf("quorum", c, frame.pc, at, "Ok", WorkOf("quorum", c, 0))
        /\ at \in Nat \ {0} /\ IsCall("quorum", c)
        /\ frame.call = c /\ frame.at = at
        /\ QuorumChecked(c, frame.pc, at)
  BY <1>1, QuorumIs
<1>3. /\ \A i \in 1..Len(c.rounds) :
           i < at => Aligned(c, c.rounds[i].prices, c.rounds[i].sigs)
      /\ c.rounds \in Seq(PublisherRound) /\ Len(c.rounds) \in Nat
      /\ \A i \in Nat : i < at + 1 => i < at \/ i = at
  BY <1>1, <1>2, CallFields DEF QuorumChecked
<1>4. IF at > Len(c.rounds) THEN Goto("window")
      ELSE IF Aligned(c, c.rounds[at].prices, c.rounds[at].sigs) THEN Advance
      ELSE Fail("BatchLengthMismatch")
  BY <1>2 DEF QuorumLengths, Loop, Call, Rounds, M, N, Aligned
<1>5. CASE at > Len(c.rounds)
  <2>1. QuorumChecked(c, "window", 1)
    BY <1>2, <1>3, <1>5 DEF QuorumChecked, RoundsAligned
  <2> QED BY <1>2, <1>4, <1>5, <2>1, CheckGoesOn
<1>6. CASE at <= Len(c.rounds) /\ Aligned(c, c.rounds[at].prices, c.rounds[at].sigs)
  <2>1. \A i \in 1..Len(c.rounds) :
          i < at + 1 => Aligned(c, c.rounds[i].prices, c.rounds[i].sigs)
    BY <1>3, <1>6
  <2>2. QuorumChecked(c, frame.pc, at + 1)
    BY <1>1, <2>1 DEF QuorumChecked
  <2>3. Advance
    BY <1>2, <1>3, <1>4, <1>6
  <2> QED BY <1>2, <2>2, <2>3, CheckGoesOn
<1>7. CASE at <= Len(c.rounds) /\ ~Aligned(c, c.rounds[at].prices, c.rounds[at].sigs)
  <2>1. ~RoundsAligned(c)
    BY <1>2, <1>3, <1>7 DEF RoundsAligned
  <2>2. FirstError("quorum", c) = "BatchLengthMismatch"
    BY <1>3, <2>1, QuorumErrors
  <2>3. Fail("BatchLengthMismatch")
    BY <1>2, <1>3, <1>4, <1>7
  <2> QED BY <1>2, <2>2, <2>3, CheckGoesOn
<1> QED BY <1>2, <1>3, <1>5, <1>6, <1>7

LEMMA QuorumWindowStep ==
  ASSUME Running(frame), QuorumWindow
  PROVE  Running(frame')
<1>1. frame.pc = "window" /\ Checking(frame)
  BY DEF QuorumWindow, Checking
<1>2. PICK c, at :
        /\ frame = FrameOf("quorum", c, frame.pc, at, "Ok", WorkOf("quorum", c, 0))
        /\ at \in Nat \ {0} /\ IsCall("quorum", c)
        /\ frame.call = c /\ frame.at = at
        /\ QuorumChecked(c, frame.pc, at)
  BY <1>1, QuorumIs
<1>3. RoundsAligned(c) /\ c.rounds \in Seq(PublisherRound)
  BY <1>1, <1>2, CallFields DEF QuorumChecked
<1>4. IF Fresh(c.timestamp) THEN Goto("rounds") ELSE Fail("StalePrice")
  BY <1>2 DEF QuorumWindow, Call
<1>5. CASE Fresh(c.timestamp)
  <2>1. \A i \in 1..Len(c.rounds), j \in 1..Len(c.assets) : ~Before(i, j, Len(c.assets), 1)
    BY <1>2, CallFields, BeforeFirstAndLast
  <2>2. QuorumChecked(c, "rounds", 1)
    BY <1>3, <1>5, <2>1 DEF QuorumChecked
  <2> QED BY <1>2, <1>4, <1>5, <2>2, CheckGoesOn
<1>6. CASE ~Fresh(c.timestamp)
  <2>1. FirstError("quorum", c) = "StalePrice"
    BY <1>3, <1>6, QuorumErrors
  <2> QED BY <1>2, <1>4, <1>6, <2>1, CheckGoesOn
<1> QED BY <1>5, <1>6

\* The prices of all rounds, and their verification, by asset.
LEMMA RoundsByAsset ==
  ASSUME NEW c, IsCall("quorum", c), RoundsAligned(c)
  PROVE  LET n == Len(c.assets)  m == Len(c.rounds) IN
         /\ RoundsPriced(c) <=> \A i \in 1..m, j \in 1..n : PriceOk(c.rounds[i].prices[j])
         /\ RoundsVerify(c) <=> \A i \in 1..m, j \in 1..n : VerifiesAt(c, c.rounds[i], j)
<1>1. /\ c.assets \in Seq(Assets) /\ c.rounds \in Seq(PublisherRound)
      /\ Len(c.assets) \in Nat /\ Len(c.rounds) \in Nat
  BY CallFields
<1>2. /\ DOMAIN c.assets = 1..Len(c.assets)
      /\ \A i \in 1..Len(c.rounds) : DOMAIN c.rounds[i].prices = 1..Len(c.assets)
  BY <1>1 DEF RoundsAligned, Aligned, PublisherRound
<1> QED BY <1>2 DEF RoundsPriced, RoundsVerify, AllPricesOk, AllVerify, VerifiesAt

LEMMA QuorumBoundsStep ==
  ASSUME Running(frame), QuorumBounds
  PROVE  Running(frame')
<1>1. frame.pc = "rounds" /\ Checking(frame)
  BY DEF QuorumBounds, Loop, Checking
<1>2. PICK c, at :
        /\ frame = FrameOf("quorum", c, frame.pc, at, "Ok", WorkOf("quorum", c, 0))
        /\ at \in Nat \ {0} /\ IsCall("quorum", c)
        /\ frame.call = c /\ frame.at = at
        /\ QuorumChecked(c, frame.pc, at)
  BY <1>1, QuorumIs
<1> DEFINE n == Len(c.assets)
           m == Len(c.rounds)
           i == (at - 1) \div n + 1
           j == ((at - 1) % n) + 1
           Ok(a, b) == PriceOk(c.rounds[a].prices[b])
<1>3. /\ RoundsAligned(c) /\ Fresh(c.timestamp)
      /\ \A a \in 1..m, b \in 1..n : Before(a, b, n, at) => Ok(a, b)
  BY <1>1, <1>2 DEF QuorumChecked
<1>4. n \in Nat /\ m \in Nat /\ c.rounds \in Seq(PublisherRound)
  BY <1>2, CallFields
<1>5. IF at > m * n THEN Goto("roster")
      ELSE IF Ok(i, j) THEN Advance ELSE Fail("InvalidPrice")
  BY <1>2 DEF QuorumBounds, Loop, Call, Rounds, M, N, Row, Column
<1>6. RoundsPriced(c) <=> \A a \in 1..m, b \in 1..n : Ok(a, b)
  BY <1>2, <1>3, RoundsByAsset
<1> HIDE DEF n, m
<1>9. m * n \in Nat /\ (at > m * n <=> ~ (at <= m * n))
  BY <1>2, <1>4
<1>7. CASE at > m * n
  <2>1. \A a \in 1..m, b \in 1..n : Before(a, b, n, at)
    BY <1>2, <1>4, <1>7, BeforeFirstAndLast
  <2>2. RoundsPriced(c)
    BY <1>3, <1>6, <2>1
  <2>3. \A a, b \in 1..m : ~Before(a, b, m, 1)
    BY <1>4, BeforeFirstAndLast
  <2>4. QuorumChecked(c, "roster", 1)
    BY <1>3, <2>2, <2>3 DEF QuorumChecked, n, m
  <2> QED BY <1>2, <1>5, <1>7, <2>4, CheckGoesOn
<1>8. CASE at <= m * n
  <2>1. i \in 1..m /\ j \in 1..n /\ at = Number(i, j, n)
    BY <1>2, <1>4, <1>8, IterationIs
  <2>2. ~ (at > m * n)
    BY <1>8, <1>9
  <2> HIDE DEF i, j, Ok
  <2>3. CASE Ok(i, j)
    <3>1. \A a \in 1..m, b \in 1..n :
            Before(a, b, n, at + 1) => Before(a, b, n, at) \/ (a = i /\ b = j)
      BY <1>2, <1>4, <2>1, BeforeIs
    <3>2. \A a \in 1..m, b \in 1..n : Before(a, b, n, at + 1) => Ok(a, b)
      BY <1>3, <2>3, <3>1
    <3>3. QuorumChecked(c, frame.pc, at + 1)
      BY <1>1, <1>3, <3>2 DEF QuorumChecked, Ok, n, m
    <3> QED BY <1>2, <1>5, <2>2, <2>3, <3>3, CheckGoesOn
  <2>4. CASE ~Ok(i, j)
    <3>1. ~RoundsPriced(c)
      BY <1>6, <2>1, <2>4
    <3>2. FirstError("quorum", c) = "InvalidPrice"
      BY <1>3, <1>4, <3>1, QuorumErrors
    <3> QED BY <1>2, <1>5, <2>2, <2>4, <3>2, CheckGoesOn
  <2> QED BY <2>3, <2>4
<1> QED BY <1>7, <1>8, <1>9

LEMMA QuorumRosterStep ==
  ASSUME Running(frame), QuorumRoster
  PROVE  Running(frame')
<1>1. frame.pc = "roster" /\ Checking(frame)
  BY DEF QuorumRoster, Loop, Checking
<1>2. PICK c, at :
        /\ frame = FrameOf("quorum", c, frame.pc, at, "Ok", WorkOf("quorum", c, 0))
        /\ at \in Nat \ {0} /\ IsCall("quorum", c)
        /\ frame.call = c /\ frame.at = at
        /\ QuorumChecked(c, frame.pc, at)
  BY <1>1, QuorumIs
<1> DEFINE rounds == c.rounds
           m == Len(rounds)
           i == (at - 1) \div m + 1
           j == ((at - 1) % m) + 1
<1>3. /\ RoundsAligned(c) /\ Fresh(c.timestamp) /\ RoundsPriced(c)
      /\ \A a, b \in 1..m : Before(a, b, m, at) => RosterPasses(rounds, a, b)
  BY <1>1, <1>2 DEF QuorumChecked
<1>4. m \in Nat /\ rounds \in Seq(PublisherRound)
  BY <1>2, CallFields
<1>5. IF at > m * m THEN Goto("threshold")
      ELSE IF j = i /\ ~IsPublisher(rounds[i].pubkey) THEN Fail("UnknownPublisher")
      ELSE IF j > i /\ rounds[j].pubkey = rounds[i].pubkey
      THEN Fail("DuplicatePublisher")
      ELSE Advance
  BY <1>2 DEF QuorumRoster, Loop, RosterStep, Call, Rounds, M, Row, Column
<1>6. \A r : r # "Ok" /\ r = RosterResult(rounds) /\ Fail(r) => Running(frame')
  <2>1. RosterResult(rounds) # "Ok" => FirstError("quorum", c) = RosterResult(rounds)
    BY <1>3, <1>4, QuorumErrors
  <2> QED BY <1>2, <2>1, CheckGoesOn
<1> HIDE DEF m
<1>7. m * m \in Nat /\ (at > m * m <=> ~ (at <= m * m))
  BY <1>2, <1>4
<1>8. CASE at > m * m
  <2>1. \A a, b \in 1..m : Before(a, b, m, at)
    BY <1>2, <1>4, <1>8, BeforeFirstAndLast
  <2>2. \A a, b \in 1..m : RosterPasses(rounds, a, b)
    BY <1>3, <2>1
  <2>3. RosterResult(rounds) = "Ok"
    BY <1>4, <2>2, RosterEnds DEF m
  <2>4. QuorumChecked(c, "threshold", 1)
    BY <1>3, <2>3 DEF QuorumChecked
  <2> QED BY <1>2, <1>5, <1>8, <2>4, CheckGoesOn
<1>9. CASE at <= m * m
  <2>1. i \in 1..m /\ j \in 1..m /\ at = Number(i, j, m)
    BY <1>2, <1>4, <1>9, IterationIs
  <2>2. ~ (at > m * m)
    BY <1>7, <1>9
  <2> HIDE DEF i, j
  <2>3. \A a, b \in 1..m : a < i \/ (a = i /\ b < j) => RosterPasses(rounds, a, b)
    <3>1. \A a, b \in 1..m : Before(a, b, m, at) <=> a < i \/ (a = i /\ b < j)
      BY <1>2, <1>4, <2>1, BeforeIs
    <3> QED BY <1>3, <3>1
  <2>4. /\ j = i /\ ~IsPublisher(rounds[i].pubkey)
             => RosterResult(rounds) = "UnknownPublisher"
        /\ j > i /\ rounds[j].pubkey = rounds[i].pubkey
             => RosterResult(rounds) = "DuplicatePublisher"
    BY <1>4, <2>1, <2>3, RosterStops DEF m
  <2>5. CASE j = i /\ ~IsPublisher(rounds[i].pubkey)
    <3>1. Fail("UnknownPublisher") /\ RosterResult(rounds) = "UnknownPublisher"
      BY <1>5, <2>2, <2>4, <2>5
    <3> QED BY <1>6, <3>1
  <2>6. CASE j > i /\ rounds[j].pubkey = rounds[i].pubkey
    <3>1. ~ (j = i)
      BY <1>4, <2>1, <2>6
    <3>2. Fail("DuplicatePublisher") /\ RosterResult(rounds) = "DuplicatePublisher"
      BY <1>5, <2>2, <2>4, <2>6, <3>1
    <3> QED BY <1>6, <3>2
  <2>7. CASE /\ ~ (j = i /\ ~IsPublisher(rounds[i].pubkey))
             /\ ~ (j > i /\ rounds[j].pubkey = rounds[i].pubkey)
    <3>1. RosterPasses(rounds, i, j)
      BY <2>7 DEF RosterPasses
    <3>2. \A a, b \in 1..m :
            Before(a, b, m, at + 1) => Before(a, b, m, at) \/ (a = i /\ b = j)
      BY <1>2, <1>4, <2>1, BeforeIs
    <3>3. \A a, b \in 1..m : Before(a, b, m, at + 1) => RosterPasses(rounds, a, b)
      BY <1>3, <3>1, <3>2
    <3>4. QuorumChecked(c, frame.pc, at + 1)
      BY <1>1, <1>3, <3>3 DEF QuorumChecked, m
    <3>5. Advance
      BY <1>5, <2>2, <2>7
    <3> QED BY <1>2, <3>4, <3>5, CheckGoesOn
  <2> QED BY <2>5, <2>6, <2>7
<1> QED BY <1>7, <1>8, <1>9

LEMMA QuorumThresholdStep ==
  ASSUME TypeOK, Running(frame), QuorumThreshold
  PROVE  Running(frame')
<1>1. frame.pc = "threshold" /\ Checking(frame)
  BY DEF QuorumThreshold, Checking
<1>2. PICK c, at :
        /\ frame = FrameOf("quorum", c, frame.pc, at, "Ok", WorkOf("quorum", c, 0))
        /\ at \in Nat \ {0} /\ IsCall("quorum", c)
        /\ frame.call = c /\ frame.at = at
        /\ QuorumChecked(c, frame.pc, at)
  BY <1>1, QuorumIs
<1>3. /\ RoundsAligned(c) /\ Fresh(c.timestamp) /\ RoundsPriced(c)
      /\ RosterResult(c.rounds) = "Ok"
      /\ c.rounds \in Seq(PublisherRound) /\ Len(c.rounds) \in Nat
      /\ Len(c.assets) \in Nat
  BY <1>1, <1>2, CallFields DEF QuorumChecked
<1>4. IF Len(c.rounds) < Quorum THEN Fail("QuorumNotMet") ELSE Goto("verify")
  BY <1>2 DEF QuorumThreshold, Call, Rounds, M
<1>5. Len(c.rounds) < Quorum <=> ~EnoughRounds(c.rounds)
  <2>1. Quorum \in Nat
    BY DEF Quorum, TypeOK
  <2> QED BY <1>3, <2>1 DEF EnoughRounds
<1>6. CASE EnoughRounds(c.rounds)
  <2>1. \A i \in 1..Len(c.rounds), j \in 1..Len(c.assets) : ~Before(i, j, Len(c.assets), 1)
    BY <1>3, BeforeFirstAndLast
  <2>2. QuorumChecked(c, "verify", 1)
    BY <1>3, <1>6, <2>1 DEF QuorumChecked
  <2> QED BY <1>2, <1>4, <1>5, <1>6, <2>2, CheckGoesOn
<1>7. CASE ~EnoughRounds(c.rounds)
  <2>1. FirstError("quorum", c) = "QuorumNotMet"
    BY <1>3, <1>7, QuorumErrors
  <2> QED BY <1>2, <1>4, <1>5, <1>7, <2>1, CheckGoesOn
<1> QED BY <1>6, <1>7

LEMMA QuorumVerifyStep ==
  ASSUME Running(frame), QuorumVerify
  PROVE  Running(frame')
<1>1. frame.pc = "verify" /\ Checking(frame)
  BY DEF QuorumVerify, Loop, Checking
<1>2. PICK c, at :
        /\ frame = FrameOf("quorum", c, frame.pc, at, "Ok", WorkOf("quorum", c, 0))
        /\ at \in Nat \ {0} /\ IsCall("quorum", c)
        /\ frame.call = c /\ frame.at = at
        /\ QuorumChecked(c, frame.pc, at)
  BY <1>1, QuorumIs
<1> DEFINE n == Len(c.assets)
           m == Len(c.rounds)
           i == (at - 1) \div n + 1
           j == ((at - 1) % n) + 1
           Ok(a, b) == VerifiesAt(c, c.rounds[a], b)
<1>3. /\ RoundsAligned(c) /\ Fresh(c.timestamp) /\ RoundsPriced(c)
      /\ RosterResult(c.rounds) = "Ok" /\ EnoughRounds(c.rounds)
      /\ \A a \in 1..m, b \in 1..n : Before(a, b, n, at) => Ok(a, b)
  BY <1>1, <1>2 DEF QuorumChecked
<1>4. n \in Nat /\ m \in Nat /\ c.rounds \in Seq(PublisherRound)
  BY <1>2, CallFields
<1>5. IF at > m * n THEN Goto("medians")
      ELSE IF Ok(i, j) THEN Advance ELSE Fail("Trap")
  BY <1>2 DEF QuorumVerify, Loop, Call, Rounds, M, N, Row, Column, VerifiesAt
<1>6. RoundsVerify(c) <=> \A a \in 1..m, b \in 1..n : Ok(a, b)
  BY <1>2, <1>3, RoundsByAsset
<1> HIDE DEF n, m
<1>7. m * n \in Nat /\ (at > m * n <=> ~ (at <= m * n))
  BY <1>2, <1>4
<1>8. CASE at > m * n
  <2>1. \A a \in 1..m, b \in 1..n : Before(a, b, n, at)
    BY <1>2, <1>4, <1>8, BeforeFirstAndLast
  <2>2. RoundsVerify(c)
    BY <1>3, <1>6, <2>1
  <2>3. QuorumResult(c) = "Ok"
    BY <1>3, <1>4, <2>2, QuorumErrors DEF FirstError
  <2>4. frame' = FrameOf("quorum", c, "medians", 1, "Ok", WorkOf("quorum", c, 0))
    <3>1. Goto("medians")
      BY <1>5, <1>8
    <3> QED BY <1>2, <3>1, FrameMoves
  <2>5. QuorumStage(c, "medians", 1, "Ok", WorkOf("quorum", c, 0))
    <3>1. 1 - 1 = 0 /\ 1 <= Len(c.assets) + 1
      BY <1>4 DEF n
    <3> QED BY <2>3, <3>1 DEF QuorumStage
  <2> QED BY <1>2, <2>4, <2>5, QuorumStageHolds
<1>9. CASE at <= m * n
  <2>1. i \in 1..m /\ j \in 1..n /\ at = Number(i, j, n)
    BY <1>2, <1>4, <1>9, IterationIs
  <2>2. ~ (at > m * n)
    BY <1>7, <1>9
  <2> HIDE DEF i, j, Ok
  <2>3. CASE Ok(i, j)
    <3>1. \A a \in 1..m, b \in 1..n :
            Before(a, b, n, at + 1) => Before(a, b, n, at) \/ (a = i /\ b = j)
      BY <1>2, <1>4, <2>1, BeforeIs
    <3>2. \A a \in 1..m, b \in 1..n : Before(a, b, n, at + 1) => Ok(a, b)
      BY <1>3, <2>3, <3>1
    <3>3. QuorumChecked(c, frame.pc, at + 1)
      BY <1>1, <1>3, <3>2 DEF QuorumChecked, Ok, n, m
    <3> QED BY <1>2, <1>5, <2>2, <2>3, <3>3, CheckGoesOn
  <2>4. CASE ~Ok(i, j)
    <3>1. ~RoundsVerify(c)
      BY <1>6, <2>1, <2>4
    <3>2. FirstError("quorum", c) = "Trap"
      BY <1>3, <1>4, <3>1, QuorumErrors
    <3> QED BY <1>2, <1>5, <2>2, <2>4, <3>2, CheckGoesOn
  <2> QED BY <2>3, <2>4
<1> QED BY <1>7, <1>8, <1>9

LEMMA QuorumUpdates ==
  ASSUME TypeOK, NEW c \in QuorumCall, QuorumResult(c) = "Ok"
  PROVE  UpdatesAreEntries("quorum", c)
<1> DEFINE new == NewEntries(c, pricePers, LAMBDA i : Median(PriceColumn(c.rounds, i)))
<1>1. Stored("quorum") = pricePers /\ storedQuorum \in Nat
  BY DEF Stored, TypeOK
<1>2. new \in [Replaced(c, pricePers) -> PriceEntry]
  BY <1>1, QuorumEntries
<1>3. \A a \in Replaced(c, pricePers) : new[a] = Update("quorum", c, a)
  BY DEF NewEntries, Update, Priced
<1>4. \A a : Update("quorum", c, a).round_id = c.round_id
  BY DEF Update, Entry
<1> HIDE DEF new
<1> QED BY <1>1, <1>2, <1>3, <1>4 DEF UpdatesAreEntries

LEMMA QuorumMediansStep ==
  ASSUME TypeOK, Running(frame), QuorumMedians
  PROVE  Running(frame')
<1>1. PICK fn, c, pc, at, result, work :
        /\ frame = FrameOf(fn, c, pc, at, result, work)
        /\ at \in Nat \ {0}
        /\ Stage(fn, c, pc, at, result, work)
  BY RunningIs
<1>2. /\ frame.call = c /\ frame.pc = pc /\ frame.at = at
      /\ IsCall(fn, c)
      /\ fn # "quorum" => BatchStage(fn, c, pc, at, result, work)
      /\ fn = "quorum" => QuorumStage(c, pc, at, result, work)
  BY <1>1, FrameFields, StageAt
<1>3. /\ pc = "medians"
      /\ IF at > Len(c.assets) THEN Goto("return")
         ELSE StoreIfNewer(c.assets[at], Median(PriceColumn(c.rounds, at)))
  BY <1>2 DEF QuorumMedians, Loop, Call, Rounds, N
<1>4. fn = "quorum"
  BY <1>2, <1>3 DEF BatchStage
<1>5. /\ result = "Ok" /\ work = WorkOf("quorum", c, at - 1)
      /\ QuorumResult(c) = "Ok"
      /\ at <= Len(c.assets) + 1
  BY <1>2, <1>3, <1>4 DEF QuorumStage, QuorumChecked
<1>6. /\ c \in QuorumCall
      /\ c.assets \in Seq(Assets) /\ Len(c.assets) \in Nat /\ c.round_id \in Nat
  BY <1>2, <1>4, CallFields
<1>7. CASE at > Len(c.assets)
  <2>1. Goto("return")
    BY <1>3, <1>7
  <2>2. frame' = FrameOf("quorum", c, "return", 1, result, work)
    BY <1>1, <1>4, <2>1, FrameMoves
  <2>3. at - 1 = Len(c.assets)
    BY <1>1, <1>5, <1>6, <1>7
  <2>4. Returned("quorum", c, result, work)
    BY <1>5, <2>3 DEF Returned, FirstError
  <2>5. QuorumStage(c, "return", 1, result, work)
    BY <2>4 DEF QuorumStage
  <2> QED BY <1>2, <1>4, <2>2, <2>5, QuorumStageHolds
<1>8. CASE at <= Len(c.assets)
  <2>1. StoreIfNewer(c.assets[at], Priced("quorum", c, at))
    BY <1>1, <1>3, <1>6, <1>8 DEF Priced
  <2>2. UpdatesAreEntries("quorum", c)
    BY <1>5, <1>6, QuorumUpdates
  <2>3. /\ at \in 1..Len(c.assets) /\ at + 1 \in Nat \ {0} /\ (at + 1) - 1 = at
        /\ at + 1 <= Len(c.assets) + 1
    BY <1>1, <1>6, <1>8
  <2>4. frame = FrameOf("quorum", c, pc, at, result, WorkOf("quorum", c, at - 1))
    BY <1>1, <1>4, <1>5
  <2>5. "quorum" \in {"args", "persistent", "quorum"}
    OBVIOUS
  <2>6. frame' = FrameOf("quorum", c, pc, at + 1, result, WorkOf("quorum", c, at))
    BY <1>6, <2>1, <2>2, <2>3, <2>4, <2>5, StoreStep
  <2>7. QuorumStage(c, pc, at + 1, result, WorkOf("quorum", c, at))
    BY <1>3, <1>5, <2>3 DEF QuorumStage
  <2> QED BY <1>2, <1>4, <2>3, <2>6, <2>7, QuorumStageHolds
<1> QED BY <1>1, <1>6, <1>7, <1>8

-----------------------------------------------------------------------------
\* The end of a call.

\* What a committed call leaves in the storage.
Committed(work) ==
  /\ priceTemp' = work.temp
  /\ tempTtl' = work.ttl
  /\ pricePers' = work.pers
  /\ priceRing' = work.ring
  /\ UNCHANGED <<publishers, storedQuorum, now>>

LEMMA CommitIsUpdate ==
  ASSUME NEW fn, NEW c, IsCall(fn, c), FirstError(fn, c) = "Ok",
         Committed(WorkOf(fn, c, Len(c.assets)))
  PROVE  Next
<1> DEFINE R == Replaced(c, Stored(fn))
<1>1. Written(fn, c, Len(c.assets)) = R
  BY CallFields, WrittenSteps
<1>2. UNCHANGED <<publishers, storedQuorum, now>>
  BY DEF Committed
<1>3. CASE fn = "args"
  <2> DEFINE new == NewEntries(c, tempLive, LAMBDA i : c.prices[i])
  <2>1. DOMAIN new = R /\ \A a \in R : new[a] = Update(fn, c, a)
    BY <1>3 DEF NewEntries, Update, Priced, Stored
  <2>2. /\ priceTemp' = [a \in Assets |-> IF a \in R THEN Update(fn, c, a) ELSE priceTemp[a]]
        /\ tempTtl' = [a \in Assets |-> IF a \in R THEN TtlAfterWrite(tempTtl[a])
                                                   ELSE tempTtl[a]]
        /\ UNCHANGED <<pricePers, priceRing>>
    BY <1>1, <1>3 DEF Committed, WorkOf, Work
  <2>3. WriteTemp(new)
    <3> HIDE DEF new, R
    <3> QED BY <2>1, <2>2 DEF WriteTemp
  <2>4. ArgsResult(c) = "Ok" /\ c \in BatchCalls
    BY <1>3 DEF FirstError, IsCall
  <2> QED BY <1>2, <2>3, <2>4 DEF Next, UpdateBatchArgs
<1>4. CASE fn # "args"
  <2> DEFINE new == [a \in R |-> Update(fn, c, a)]
  <2>1. /\ pricePers' = [a \in Assets |-> IF a \in R THEN Update(fn, c, a) ELSE pricePers[a]]
        /\ priceRing' = [a \in Assets |-> IF a \in R THEN PushRing(priceRing[a], Update(fn, c, a))
                                                     ELSE priceRing[a]]
        /\ UNCHANGED <<priceTemp, tempTtl>>
    BY <1>1, <1>4 DEF Committed, WorkOf, Work
  <2>2. WritePers(new)
    <3>1. DOMAIN new = R /\ \A a \in R : new[a] = Update(fn, c, a)
      OBVIOUS
    <3> HIDE DEF new, R
    <3> QED BY <2>1, <3>1 DEF WritePers
  <2>3. Stored(fn) = pricePers
    BY <1>4 DEF Stored
  <2>4. CASE fn = "persistent"
    <3>1. new = NewEntries(c, pricePers, LAMBDA i : c.prices[i])
      BY <2>3, <2>4 DEF NewEntries, Update, Priced
    <3>2. PersistentResult(c) = "Ok" /\ c \in BatchCalls
      BY <2>4 DEF FirstError, IsCall
    <3> HIDE DEF new
    <3> QED BY <1>2, <2>2, <3>1, <3>2 DEF Next, UpdateBatchPersistent
  <2>5. CASE fn = "quorum"
    <3>1. new = NewEntries(c, pricePers, LAMBDA i : Median(PriceColumn(c.rounds, i)))
      BY <2>3, <2>5 DEF NewEntries, Update, Priced
    <3>2. QuorumResult(c) = "Ok" /\ c \in QuorumCalls
      BY <2>5 DEF FirstError, IsCall
    <3> HIDE DEF new
    <3> QED BY <1>2, <2>2, <3>1, <3>2 DEF Next, UpdateQuorumPersistent
  <2> QED BY <1>4, <2>4, <2>5 DEF IsCall
<1> QED BY <1>3, <1>4

\* A call at its return label.
LEMMA AtReturn ==
  ASSUME Running(frame), frame.pc = "return"
  PROVE  \E fn, c, result, work :
           /\ frame.fn = fn /\ frame.call = c /\ frame.result = result /\ frame.work = work
           /\ IsCall(fn, c)
           /\ Returned(fn, c, result, work)
<1>1. PICK fn, c, pc, at, result, work :
        /\ frame = FrameOf(fn, c, pc, at, result, work)
        /\ at \in Nat \ {0}
        /\ Stage(fn, c, pc, at, result, work)
  BY RunningIs
<1>2. /\ frame.fn = fn /\ frame.call = c /\ frame.pc = pc
      /\ frame.result = result /\ frame.work = work
      /\ IsCall(fn, c)
      /\ fn # "quorum" => BatchStage(fn, c, pc, at, result, work)
      /\ fn = "quorum" => QuorumStage(c, pc, at, result, work)
  BY <1>1, FrameFields, StageAt
<1>3. Returned(fn, c, result, work)
  BY <1>2 DEF BatchStage, QuorumStage, QuorumChecked
<1> QED BY <1>2, <1>3

LEMMA ReturnStep ==
  ASSUME Running(frame), Return
  PROVE  [Next]_vars
<1>1. PICK fn, c, result, work :
        /\ frame.fn = fn /\ frame.call = c /\ frame.result = result /\ frame.work = work
        /\ IsCall(fn, c)
        /\ Returned(fn, c, result, work)
  BY AtReturn DEF Return
<1>2. CASE result = "Ok"
  <2>1. Committed(work)
    BY <1>1, <1>2 DEF Return, Commits, Committed
  <2>2. work = WorkOf(fn, c, Len(c.assets)) /\ FirstError(fn, c) = "Ok"
    BY <1>1, <1>2 DEF Returned
  <2> QED BY <1>1, <2>1, <2>2, CommitIsUpdate
<1>3. CASE result # "Ok"
  BY <1>1, <1>3 DEF Return, Commits, priceVars, vars
<1> QED BY <1>2, <1>3

-----------------------------------------------------------------------------
\* The stage of a call is about the storage as the call found it, which no step
\* of the call changes.
LEMMA StorageFixed ==
  ASSUME UNCHANGED vars
  PROVE  /\ priceTemp' = priceTemp /\ tempTtl' = tempTtl
         /\ pricePers' = pricePers /\ priceRing' = priceRing
         /\ now' = now /\ publishers' = publishers /\ storedQuorum' = storedQuorum
BY DEF vars

LEMMA ChecksFixed ==
  ASSUME UNCHANGED vars
  PROVE  /\ \A t : Fresh(t)' <=> Fresh(t)
         /\ \A k : IsPublisher(k)' <=> IsPublisher(k)
         /\ Quorum' = Quorum
         /\ SinglePathClosed' <=> SinglePathClosed
         /\ tempLive' = tempLive
<1>1. \A t : Fresh(t)' <=> Fresh(t)
  BY StorageFixed DEF Fresh
<1>2. \A k : IsPublisher(k)' <=> IsPublisher(k)
  BY StorageFixed DEF IsPublisher
<1>3. Quorum' = Quorum
  BY StorageFixed DEF Quorum
<1>4. SinglePathClosed' <=> SinglePathClosed
  BY <1>3 DEF SinglePathClosed
<1>5. tempLive' = tempLive
  BY StorageFixed DEF tempLive
<1> QED BY <1>1, <1>2, <1>3, <1>4, <1>5

LEMMA ResultsFixed ==
  ASSUME UNCHANGED vars
  PROVE  /\ \A r : RosterResult(r)' = RosterResult(r)
         /\ \A r : EnoughRounds(r)' <=> EnoughRounds(r)
         /\ \A c : QuorumResult(c)' = QuorumResult(c)
         /\ \A fn, c : FirstError(fn, c)' = FirstError(fn, c)
<1>1. \A r : RosterResult(r)' = RosterResult(r)
  BY ChecksFixed DEF RosterResult
<1>2. \A r : EnoughRounds(r)' <=> EnoughRounds(r)
  BY ChecksFixed DEF EnoughRounds
<1>3. \A c : QuorumResult(c)' = QuorumResult(c)
  BY <1>1, <1>2, ChecksFixed DEF QuorumResult
<1>4. \A c : ArgsResult(c)' = ArgsResult(c)
  BY ChecksFixed DEF ArgsResult
<1>5. \A c : PersistentResult(c)' = PersistentResult(c)
  BY <1>4, ChecksFixed DEF PersistentResult
<1>6. \A fn, c : FirstError(fn, c)' = FirstError(fn, c)
  BY <1>3, <1>4, <1>5 DEF FirstError
<1> QED BY <1>1, <1>2, <1>3, <1>6

LEMMA WorkFixed ==
  ASSUME UNCHANGED vars
  PROVE  \A fn, c, k : WorkOf(fn, c, k)' = WorkOf(fn, c, k)
<1>1. \A fn : Stored(fn)' = Stored(fn)
  BY StorageFixed, ChecksFixed DEF Stored
<1>2. \A fn, c, k : Written(fn, c, k)' = Written(fn, c, k)
  BY <1>1 DEF Written
<1> QED BY <1>2, StorageFixed DEF WorkOf

LEMMA RunningFixed ==
  ASSUME UNCHANGED vars
  PROVE  \A f : Running(f)' <=> Running(f)
<1>1. \A fn, c : BatchAdmitted(fn, c)' <=> BatchAdmitted(fn, c)
  BY ChecksFixed DEF BatchAdmitted
<1>2. \A fn, c, result, work : Returned(fn, c, result, work)' <=> Returned(fn, c, result, work)
  BY ResultsFixed, WorkFixed DEF Returned
<1>3. \A fn, c, pc, at, result, work :
        BatchStage(fn, c, pc, at, result, work)' <=> BatchStage(fn, c, pc, at, result, work)
  BY <1>1, <1>2, WorkFixed DEF BatchStage
<1>4. \A rounds, i, j : RosterPasses(rounds, i, j)' <=> RosterPasses(rounds, i, j)
  BY ChecksFixed DEF RosterPasses
<1>5. ASSUME NEW c, NEW pc, NEW at
      PROVE  QuorumChecked(c, pc, at)' <=> QuorumChecked(c, pc, at)
  <2>1. /\ Fresh(c.timestamp)' <=> Fresh(c.timestamp)
        /\ RosterResult(c.rounds)' = RosterResult(c.rounds)
        /\ EnoughRounds(c.rounds)' <=> EnoughRounds(c.rounds)
    BY ChecksFixed, ResultsFixed
  <2> QED BY <1>4, <2>1 DEF QuorumChecked
<1>6. \A c, pc, at, result, work :
        QuorumStage(c, pc, at, result, work)' <=> QuorumStage(c, pc, at, result, work)
  BY <1>2, <1>5, ResultsFixed, WorkFixed DEF QuorumStage
<1>7. \A fn, c, pc, at, result, work :
        Stage(fn, c, pc, at, result, work)' <=> Stage(fn, c, pc, at, result, work)
  BY <1>3, <1>6 DEF Stage
<1> QED BY <1>7 DEF Running

\* A step of a call between its start and its return.
CallStep ==
  \/ \E fn \in {"args", "persistent"}, c \in BatchCalls : Start(fn, c)
  \/ \E c \in QuorumCalls : Start("quorum", c)
  \/ BatchChecks \/ BatchBounds \/ BatchAssets
  \/ QuorumLengths \/ QuorumWindow \/ QuorumBounds \/ QuorumRoster
  \/ QuorumThreshold \/ QuorumVerify \/ QuorumMedians

LEMMA CallStepRuns ==
  ASSUME TypeOK, frame # Idle => Running(frame), CallStep
  PROVE  Running(frame') /\ UNCHANGED vars
<1>1. CASE \E fn \in {"args", "persistent"}, c \in BatchCalls : Start(fn, c)
  BY <1>1, StartStep DEF IsCall, Start
<1>2. CASE \E c \in QuorumCalls : Start("quorum", c)
  BY <1>2, StartStep DEF IsCall, Start
<1>3. CASE BatchChecks
  BY <1>3, BatchChecksStep DEF BatchChecks
<1>4. CASE BatchBounds
  BY <1>4, BatchBoundsStep DEF BatchBounds, Loop
<1>5. CASE BatchAssets
  BY <1>5, BatchAssetsStep DEF BatchAssets, Loop
<1>6. CASE QuorumLengths
  BY <1>6, QuorumLengthsStep DEF QuorumLengths, Loop
<1>7. CASE QuorumWindow
  BY <1>7, QuorumWindowStep DEF QuorumWindow
<1>8. CASE QuorumBounds
  BY <1>8, QuorumBoundsStep DEF QuorumBounds, Loop
<1>9. CASE QuorumRoster
  BY <1>9, QuorumRosterStep DEF QuorumRoster, Loop
<1>10. CASE QuorumThreshold
  BY <1>10, QuorumThresholdStep DEF QuorumThreshold
<1>11. CASE QuorumVerify
  BY <1>11, QuorumVerifyStep DEF QuorumVerify, Loop
<1>12. CASE QuorumMedians
  BY <1>12, QuorumMediansStep DEF QuorumMedians, Loop
<1> QED BY <1>1, <1>2, <1>3, <1>4, <1>5, <1>6, <1>7, <1>8, <1>9, <1>10, <1>11, <1>12
        DEF CallStep

LEMMA CallNextImplements ==
  ASSUME CallInv, [CallNext]_callVars
  PROVE  [Next]_vars /\ CallInv'
<1> DEFINE Runs == frame # Idle => Running(frame)
<1>1. Inv /\ TypeOK /\ Runs
  BY DEF CallInv, Inv
<1>2. SUFFICES [Next]_vars /\ Runs'
  <2>1. [Next]_vars => Inv'
    BY <1>1, NextInv
  <2> QED BY <2>1 DEF CallInv
<1>3. CASE CallStep
  <2>1. Running(frame') /\ UNCHANGED vars
    BY <1>1, <1>3, CallStepRuns
  <2>2. \A f : Running(f)' <=> Running(f)
    BY <2>1, RunningFixed
  <2>3. Runs'
    BY <2>1, <2>2
  <2> QED BY <2>1, <2>3
<1>4. CASE Return
  <2>1. frame # Idle /\ frame' = Idle
    BY <1>4 DEF Return
  <2> QED BY <1>1, <1>4, <2>1, ReturnStep
<1>5. CASE BetweenCalls
  <2>1. frame' = Idle
    BY <1>5 DEF BetweenCalls
  <2> QED BY <1>5, <2>1 DEF BetweenCalls, Next
<1>6. CASE UNCHANGED callVars
  <2>1. UNCHANGED vars /\ frame' = frame
    BY <1>6 DEF callVars
  <2>2. \A f : Running(f)' <=> Running(f)
    BY <2>1, RunningFixed
  <2> QED BY <1>1, <2>1, <2>2
<1>7. CASE CallNext
  BY <1>3, <1>4, <1>5, <1>7 DEF CallNext, CallStep
<1> QED BY <1>6, <1>7

LEMMA CallInitInv == CallInit => CallInv
BY InitInv DEF CallInit, CallInv

\* What OracleCall.tla claims: the error an update entrypoint returns is the one
\* its checks, in the order of the code, come to first.
THEOREM FirstErrorReturned == CallSpec => []ReturnsFirstError
<1>1. CallInv /\ [CallNext]_callVars => CallInv'
  BY CallNextImplements
<1>2. CallInv => ReturnsFirstError
  <2> SUFFICES ASSUME CallInv, frame # Idle, frame.pc = "return"
               PROVE  frame.result = FirstError(frame.fn, Call)
    BY DEF ReturnsFirstError, FirstError
  <2>1. Running(frame)
    BY DEF CallInv
  <2> QED BY <2>1, AtReturn DEF Returned, Call
<1> QED BY <1>1, <1>2, CallInitInv, PTL DEF CallSpec

\* The loops of the three update entrypoints implement their atomic form: a call
\* that commits has written what Oracle.tla writes in one step, and one that
\* fails half-way leaves no trace.
THEOREM LoopsImplementOracle == CallSpec => ImplementsOracle
<1>1. CallInit => Init
  BY DEF CallInit
<1>2. CallInv /\ [CallNext]_callVars => CallInv'
  BY CallNextImplements
<1>3. CallInv /\ [CallNext]_callVars => [Next]_vars
  BY CallNextImplements
<1>4. CallInit => CallInv
  BY CallInitInv
<1> DEFINE Step == Next
<1>5. CallInv /\ [CallNext]_callVars => [Step]_vars
  BY <1>3
<1> HIDE DEF Step
<1>6. CallSpec => Init /\ [][Step]_vars
  BY <1>1, <1>2, <1>4, <1>5, PTL DEF CallSpec
<1> QED BY <1>6 DEF ImplementsOracle, Spec, Step
=====
