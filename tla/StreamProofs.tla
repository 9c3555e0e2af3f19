---------------------------- MODULE StreamProofs ----------------------------
(***************************************************************************)
(* Theorems about the subscription, for any number of rounds signed,       *)
(* connections lost, processes restarted and handlers that throw, and for  *)
(* every way the stream is cut into chunks.                                *)
(***************************************************************************)
EXTENDS Stream, SequenceTheorems, TLAPS

Piece == [round : Nat, end : BOOLEAN]

\* A later frame holds the round of the one before or the next one; a server that
\* has signed nothing yet may come to any.
NoGap(x, y) == x = 0 \/ y \in {x, x + 1}

\* What was read and not yet split, and what is in flight, are one stream of frames.
\* It may be cut, but it begins with a frame, and its rounds go up one by one from
\* the last one heard, behind none the handler has seen.
InOrder(s, h, l, r) ==
  /\ \A i \in 1..Len(s) :
       /\ i % 2 = 1 => s[i].end = FALSE
       /\ i % 2 = 0 => s[i].end = TRUE
       /\ s[i].round <= r
       /\ h <= s[i].round
       /\ s[i].round = 0 \/ l <= s[i].round
  /\ \A i, j \in 1..Len(s) : i <= j => s[i].round <= s[j].round
  /\ \A i \in 1 .. Len(s) - 1 :
       /\ NoGap(s[i].round, s[i + 1].round)
       /\ i % 2 = 1 => s[i + 1].round = s[i].round
  /\ s # <<>> /\ h # -1 => NoGap(h, s[1].round)

Newest(s, h) == IF s = <<>> THEN h ELSE s[Len(s)].round

\* While the server reaches the reader, the stream ends with a whole frame that holds
\* the server's snapshot.
UpToDate(s, h, n) == Len(s) % 2 = 0 /\ Newest(s, h) = n

StreamInv ==
  /\ round \in Nat /\ snapshot \in {0, round}
  /\ last \in 0..round /\ heard \in Int /\ heard <= round /\ heard >= -1
  /\ buffer \in Seq(Piece) /\ wire \in Seq(Piece)
  /\ InOrder(buffer \o wire, heard, last, round)
  /\ Reached => UpToDate(buffer \o wire, heard, snapshot)
  /\ ~garbled

-----------------------------------------------------------------------------
\* Streams of pieces.

\* t is s without its first k pieces, and perhaps cut.
Part(t, s, k) ==
  /\ Len(t) + k <= Len(s)
  /\ \A i \in 1..Len(t) : t[i] = s[i + k]

LEMMA PrefixInOrder ==
  ASSUME NEW s \in Seq(Piece), NEW t \in Seq(Piece), NEW h \in Int, NEW l \in Nat,
         NEW r \in Nat, InOrder(s, h, l, r), Part(t, s, 0)
  PROVE  InOrder(t, h, l, r)
<1>1. Len(s) \in Nat /\ Len(t) \in Nat /\ Len(t) <= Len(s)
  BY DEF Part
<1>2. \A i \in 1..Len(t) : i \in 1..Len(s) /\ t[i] = s[i]
  BY <1>1 DEF Part
<1>3. \A i \in 1 .. Len(t) - 1 :
        i \in 1..Len(t) /\ i + 1 \in 1..Len(t) /\ i \in 1 .. Len(s) - 1
  BY <1>1
<1>4. t # <<>> => s # <<>> /\ t[1] = s[1]
  BY <1>1, <1>2
<1> QED BY <1>2, <1>3, <1>4 DEF InOrder

\* The first frame of a stream, and the stream that begins with the second.
LEMMA FirstFrame ==
  ASSUME NEW s \in Seq(Piece), NEW h \in Int, NEW l \in Nat, NEW r \in Nat,
         InOrder(s, h, l, r), Len(s) >= 2
  PROVE  /\ s[1] = [round |-> s[2].round, end |-> FALSE]
         /\ s[2] = [round |-> s[2].round, end |-> TRUE]
         /\ s[2].round \in 0..r
         /\ s[2].round > 0 => l <= s[2].round
<1>1. 1 \in 1..Len(s) /\ 2 \in 1..Len(s) /\ 1 \in 1 .. Len(s) - 1
  OBVIOUS
<1>2. s[1] \in Piece /\ s[2] \in Piece
  BY <1>1
<1>3. s[1].end = FALSE /\ s[2].end = TRUE
  BY <1>1 DEF InOrder
<1>4. s[2].round = s[1].round
  BY <1>1 DEF InOrder
<1>5. s[2].round <= r /\ (s[2].round = 0 \/ l <= s[2].round)
  BY <1>1 DEF InOrder
<1>6. \A p \in Piece : p = [round |-> p.round, end |-> p.end] /\ p.round \in Nat
  BY DEF Piece
<1>7. /\ s[1] = [round |-> s[2].round, end |-> FALSE]
      /\ s[2] = [round |-> s[2].round, end |-> TRUE]
      /\ s[2].round \in Nat
  BY <1>2, <1>3, <1>4, <1>6, Zenon
<1> QED BY <1>5, <1>7

LEMMA RestInOrder ==
  ASSUME NEW s \in Seq(Piece), NEW t \in Seq(Piece), NEW h \in Int, NEW l \in Nat,
         NEW r \in Nat, InOrder(s, h, l, r), Part(t, s, 2), Len(s) >= 2,
         NEW m \in Nat, m = s[2].round \/ m = l
  PROVE  InOrder(t, s[2].round, m, r)
<1> DEFINE n == s[2].round
<1>1. Len(s) \in Nat /\ Len(t) \in Nat /\ Len(t) + 2 <= Len(s)
  BY DEF Part
<1>2. \A i \in 1..Len(t) : i + 2 \in 1..Len(s) /\ t[i] = s[i + 2]
  BY <1>1 DEF Part
<1>3. \A i \in 1 .. Len(t) - 1 :
        i \in 1..Len(t) /\ i + 1 \in 1..Len(t) /\ i + 2 \in 1 .. Len(s) - 1
        /\ t[i] = s[i + 2] /\ t[i + 1] = s[i + 2 + 1]
  <2> SUFFICES ASSUME NEW i \in 1 .. Len(t) - 1
               PROVE  i \in 1..Len(t) /\ i + 1 \in 1..Len(t) /\ i + 2 \in 1 .. Len(s) - 1
                      /\ t[i] = s[i + 2] /\ t[i + 1] = s[i + 2 + 1]
    OBVIOUS
  <2>1. i \in 1..Len(t) /\ i + 1 \in 1..Len(t) /\ i + 2 \in 1 .. Len(s) - 1
    BY <1>1
  <2>2. (i + 1) + 2 = i + 2 + 1
    BY <2>1
  <2> QED BY <1>2, <2>1, <2>2
<1>4. 2 \in 1..Len(s)
  OBVIOUS
<1>5. \A i \in 1..Len(t) :
        /\ i % 2 = 1 => t[i].end = FALSE
        /\ i % 2 = 0 => t[i].end = TRUE
        /\ t[i].round <= r
        /\ n <= t[i].round
        /\ t[i].round = 0 \/ m <= t[i].round
  <2> SUFFICES ASSUME NEW i \in 1..Len(t)
               PROVE  /\ i % 2 = 1 => t[i].end = FALSE
                      /\ i % 2 = 0 => t[i].end = TRUE
                      /\ t[i].round <= r
                      /\ n <= t[i].round
                      /\ t[i].round = 0 \/ m <= t[i].round
    OBVIOUS
  <2>1. i \in Nat /\ i + 2 \in 1..Len(s) /\ t[i] = s[i + 2] /\ 2 <= i + 2
    BY <1>1, <1>2
  <2>2. (i + 2) % 2 = i % 2
    BY <2>1
  <2>3. s[2].round <= s[i + 2].round
    BY <1>4, <2>1 DEF InOrder
  <2>4. /\ (i + 2) % 2 = 1 => s[i + 2].end = FALSE
        /\ (i + 2) % 2 = 0 => s[i + 2].end = TRUE
        /\ s[i + 2].round <= r
        /\ s[i + 2].round = 0 \/ l <= s[i + 2].round
    BY <2>1 DEF InOrder
  <2> QED BY <2>1, <2>2, <2>3, <2>4
<1>6. \A i, j \in 1..Len(t) : i <= j => t[i].round <= t[j].round
  <2> SUFFICES ASSUME NEW i \in 1..Len(t), NEW j \in 1..Len(t), i <= j
               PROVE  t[i].round <= t[j].round
    OBVIOUS
  <2>1. i + 2 \in 1..Len(s) /\ j + 2 \in 1..Len(s) /\ i + 2 <= j + 2
    BY <1>1
  <2>2. t[i] = s[i + 2] /\ t[j] = s[j + 2]
    BY <1>2
  <2> QED BY <2>1, <2>2 DEF InOrder
<1>7. \A i \in 1 .. Len(t) - 1 :
        /\ NoGap(t[i].round, t[i + 1].round)
        /\ i % 2 = 1 => t[i + 1].round = t[i].round
  <2> SUFFICES ASSUME NEW i \in 1 .. Len(t) - 1
               PROVE  /\ NoGap(t[i].round, t[i + 1].round)
                      /\ i % 2 = 1 => t[i + 1].round = t[i].round
    OBVIOUS
  <2>1. i + 2 \in 1 .. Len(s) - 1 /\ t[i] = s[i + 2] /\ t[i + 1] = s[i + 2 + 1]
    BY <1>3
  <2>2. (i + 2) % 2 = i % 2
    BY <1>1
  <2>3. /\ NoGap(s[i + 2].round, s[i + 2 + 1].round)
        /\ (i + 2) % 2 = 1 => s[i + 2 + 1].round = s[i + 2].round
    BY <2>1 DEF InOrder
  <2> QED BY <2>1, <2>2, <2>3
<1>8. t # <<>> => NoGap(n, t[1].round)
  <2> SUFFICES ASSUME t # <<>> PROVE NoGap(n, t[1].round)
    OBVIOUS
  <2>1. 1 \in 1..Len(t) /\ 2 \in 1 .. Len(s) - 1
    BY <1>1
  <2>2. t[1] = s[2 + 1]
    BY <1>2, <2>1
  <2> QED BY <2>1, <2>2 DEF InOrder
<1> QED BY <1>5, <1>6, <1>7, <1>8 DEF InOrder

LEMMA FrameIs ==
  ASSUME NEW n \in Nat
  PROVE  /\ Frame(n) \in Seq(Piece) /\ Len(Frame(n)) = 2
         /\ Frame(n)[1].round = n /\ Frame(n)[1].end = FALSE
         /\ Frame(n)[2].round = n /\ Frame(n)[2].end = TRUE
BY DEF Frame, Piece

LEMMA FrameHalves ==
  ASSUME NEW n \in Nat
  PROVE  /\ Frame(n)[1] = [round |-> n, end |-> FALSE]
         /\ Frame(n)[2] = [round |-> n, end |-> TRUE]
BY DEF Frame

\* A fresh connection's stream is the snapshot.
LEMMA FrameInOrder ==
  ASSUME NEW n \in Nat, NEW l \in Nat, NEW r \in Nat, n <= r, n = 0 \/ l <= n
  PROVE  InOrder(Frame(n), -1, l, r)
<1>1. \A i \in 1..2 : i = 1 \/ i = 2
  OBVIOUS
<1>2. \A i \in 1 .. 2 - 1 : i = 1
  OBVIOUS
<1> DEFINE f == Frame(n)
<1>3. /\ Len(f) = 2 /\ f[1].round = n /\ f[1].end = FALSE
      /\ f[2].round = n /\ f[2].end = TRUE
  BY FrameIs
<1> HIDE DEF f
<1>4. InOrder(f, -1, l, r)
  BY <1>1, <1>2, <1>3 DEF InOrder, NoGap
<1> QED BY <1>4 DEF f

\* A broadcast behind a stream that ends with the snapshot before.
LEMMA BroadcastInOrder ==
  ASSUME NEW s \in Seq(Piece), NEW h \in Int, NEW l \in Nat, NEW r \in Nat,
         InOrder(s, h, l, r), h >= -1, NEW m \in Nat, UpToDate(s, h, m),
         NEW n \in Nat, NEW q \in Nat, NoGap(m, n), m <= n, n <= q, r <= q,
         n = 0 \/ l <= n
  PROVE  InOrder(s \o Frame(n), h, l, q) /\ UpToDate(s \o Frame(n), h, n)
<1> DEFINE f == Frame(n)
           t == s \o f
           k == Len(s)
<1>1. /\ f \in Seq(Piece) /\ Len(f) = 2 /\ f[1].round = n /\ f[1].end = FALSE
      /\ f[2].round = n /\ f[2].end = TRUE
  BY FrameIs
<1> HIDE DEF f
<1>2. k \in Nat /\ k % 2 = 0
  BY DEF UpToDate
<1>3. /\ t \in Seq(Piece) /\ Len(t) = k + 2
      /\ \A i \in 1 .. k + 2 : t[i] = IF i <= k THEN s[i] ELSE f[i - k]
  <2>1. f \in Seq(Piece) /\ Len(f) = 2
    BY <1>1
  <2>2. /\ t \in Seq(Piece) /\ Len(t) = k + Len(f)
        /\ \A i \in 1 .. k + Len(f) : t[i] = IF i <= k THEN s[i] ELSE f[i - k]
    BY <2>1, ConcatProperties, Zenon
  <2> QED BY <2>1, <2>2
<1>4. /\ \A i \in 1..k : t[i] = s[i]
      /\ t[k + 1] = f[1] /\ t[k + 2] = f[2]
  BY <1>2, <1>3
<1> HIDE DEF t
<1>5. \A i \in 1..k : s[i].round <= m /\ s[i].round \in Nat
  <2> SUFFICES ASSUME NEW i \in 1..k PROVE s[i].round <= m /\ s[i].round \in Nat
    OBVIOUS
  <2>1. k \in 1..k /\ i <= k /\ s # <<>>
    BY <1>2
  <2>2. s[i] \in Piece
    OBVIOUS
  <2> HIDE DEF k
  <2>3. s[i].round <= s[k].round
    BY <2>1 DEF InOrder, k
  <2> QED BY <2>1, <2>2, <2>3 DEF UpToDate, Newest, Piece, k
<1>6. h <= m
  <2>1. CASE s = <<>>
    BY <2>1 DEF UpToDate, Newest
  <2>2. CASE s # <<>>
    <3>1. k \in 1..k
      BY <1>2, <2>2
    <3>2. h <= s[k].round
      BY <3>1 DEF InOrder
    <3> QED BY <2>2, <3>2 DEF UpToDate, Newest
  <2> QED BY <2>1, <2>2
<1>7. \A i \in 1 .. k + 2 : i \in 1..k \/ i = k + 1 \/ i = k + 2
  BY <1>2
<1>8. (k + 1) % 2 = 1 /\ (k + 2) % 2 = 0
  BY <1>2
<1>9. \A i \in 1 .. k + 2 :
        /\ i % 2 = 1 => t[i].end = FALSE
        /\ i % 2 = 0 => t[i].end = TRUE
        /\ t[i].round <= q
        /\ h <= t[i].round
        /\ t[i].round = 0 \/ l <= t[i].round
  <2> SUFFICES ASSUME NEW i \in 1 .. k + 2
               PROVE  /\ i % 2 = 1 => t[i].end = FALSE
                      /\ i % 2 = 0 => t[i].end = TRUE
                      /\ t[i].round <= q
                      /\ h <= t[i].round
                      /\ t[i].round = 0 \/ l <= t[i].round
    OBVIOUS
  <2>1. CASE i \in 1..k
    <3>1. /\ i % 2 = 1 => s[i].end = FALSE
          /\ i % 2 = 0 => s[i].end = TRUE
          /\ s[i].round <= r
          /\ h <= s[i].round
          /\ s[i].round = 0 \/ l <= s[i].round
      BY <2>1 DEF InOrder
    <3>2. t[i] = s[i] /\ s[i].round \in Nat
      BY <1>4, <1>5, <2>1
    <3> QED BY <3>1, <3>2
  <2>2. CASE i = k + 1
    BY <1>1, <1>4, <1>6, <1>8, <2>2
  <2>3. CASE i = k + 2
    BY <1>1, <1>4, <1>6, <1>8, <2>3
  <2> QED BY <1>7, <2>1, <2>2, <2>3
<1>10. \A i, j \in 1 .. k + 2 : i <= j => t[i].round <= t[j].round
  <2> SUFFICES ASSUME NEW i \in 1 .. k + 2, NEW j \in 1 .. k + 2, i <= j
               PROVE  t[i].round <= t[j].round
    OBVIOUS
  <2>1. \A x \in 1 .. k + 2 : x \notin 1..k => t[x].round = n
    BY <1>1, <1>4, <1>7
  <2>2. \A x \in 1..k : t[x] = s[x] /\ s[x].round <= n
    <3>1. \A x \in Nat : x <= m => x <= n
      OBVIOUS
    <3> QED BY <1>4, <1>5, <3>1
  <2>3. CASE j \in 1..k
    <3>1. i \in 1..k
      BY <1>2, <2>3
    <3> QED BY <1>4, <2>3, <3>1 DEF InOrder
  <2>4. CASE j \notin 1..k
    BY <2>1, <2>2, <2>4
  <2> QED BY <2>3, <2>4
<1>11. \A i \in 1 .. (k + 2) - 1 :
         /\ NoGap(t[i].round, t[i + 1].round)
         /\ i % 2 = 1 => t[i + 1].round = t[i].round
  <2> SUFFICES ASSUME NEW i \in 1 .. (k + 2) - 1
               PROVE  /\ NoGap(t[i].round, t[i + 1].round)
                      /\ i % 2 = 1 => t[i + 1].round = t[i].round
    OBVIOUS
  <2>1. i \in 1 .. k - 1 \/ (i = k /\ k >= 1) \/ i = k + 1
    BY <1>2
  <2>2. CASE i \in 1 .. k - 1
    <3>1. i \in 1..k /\ i + 1 \in 1..k
      BY <1>2, <2>2
    <3> QED BY <1>4, <2>2, <3>1 DEF InOrder
  <2>3. CASE i = k /\ k >= 1
    <3>1. k \in 1..k /\ s # <<>>
      BY <1>2, <2>3
    <3>2. t[i].round = m /\ t[i + 1].round = n
      BY <1>1, <1>4, <2>3, <3>1 DEF UpToDate, Newest
    <3> QED BY <1>2, <2>3, <3>2
  <2>4. CASE i = k + 1
    <3>1. i + 1 = k + 2
      BY <1>2, <2>4
    <3>2. t[i].round = n /\ t[i + 1].round = n
      BY <1>1, <1>4, <2>4, <3>1
    <3> QED BY <3>2 DEF NoGap
  <2> QED BY <2>1, <2>2, <2>3, <2>4
<1>12. h # -1 => NoGap(h, t[1].round)
  <2>1. CASE s = <<>>
    BY <1>1, <1>4, <2>1 DEF UpToDate, Newest
  <2>2. CASE s # <<>>
    <3>1. 1 \in 1..k
      BY <1>2, <2>2
    <3> QED BY <1>4, <2>2, <3>1 DEF InOrder
  <2> QED BY <2>1, <2>2
<1>13. UpToDate(t, h, n)
  BY <1>1, <1>2, <1>3, <1>4, <1>8 DEF UpToDate, Newest
<1> HIDE DEF k
<1>14. InOrder(t, h, l, q)
  BY <1>3, <1>9, <1>10, <1>11, <1>12 DEF InOrder
<1> QED BY <1>13, <1>14 DEF t, f

-----------------------------------------------------------------------------
\* The invariant is kept.

LEMMA InitStreamInv == Init => StreamInv
<1> SUFFICES ASSUME Init PROVE StreamInv
  OBVIOUS
<1>1. /\ round \in Nat /\ snapshot \in {0, round} /\ last = 0 /\ heard = -1
      /\ buffer = <<>> /\ wire = <<>> /\ ~garbled /\ ~Reached
  BY DEF Init, Reached
<1>2. <<>> \o <<>> = <<>> /\ <<>> \in Seq(Piece) /\ Len(<<>>) = 0
  OBVIOUS
<1>3. InOrder(<<>>, -1, 0, round)
  BY <1>2 DEF InOrder
<1> QED BY <1>1, <1>2, <1>3 DEF StreamInv

\* Steps that leave the stream alone.
LEMMA StreamUntouched ==
  ASSUME StreamInv, clients' \subseteq clients,
         UNCHANGED <<round, snapshot, wire, connected, conn, buffer, heard, last, garbled>>
  PROVE  StreamInv'
<1>1. Reached' => Reached
  BY DEF Reached
<1> QED BY <1>1 DEF StreamInv

\* Steps that lose what is in flight, or some of it.
LEMMA StreamCut ==
  ASSUME StreamInv, ~connected', snapshot' \in {snapshot, 0},
         \E n \in 0 .. Len(wire) : wire' = SubSeq(wire, 1, n),
         UNCHANGED <<round, buffer, heard, last, garbled>>
  PROVE  StreamInv'
<1> DEFINE s == buffer \o wire
           t == buffer \o wire'
<1>1. PICK n \in 0 .. Len(wire) : wire' = SubSeq(wire, 1, n)
  OBVIOUS
<1>2. buffer \in Seq(Piece) /\ wire \in Seq(Piece) /\ Len(wire) \in Nat
  BY DEF StreamInv
<1>3. /\ wire' \in Seq(Piece) /\ Len(wire') = n
      /\ \A i \in 1..n : wire'[i] = wire[i]
  BY <1>1, <1>2
<1>4. /\ t \in Seq(Piece) /\ Len(t) = Len(buffer) + n
      /\ \A i \in 1 .. Len(buffer) + n :
           t[i] = IF i <= Len(buffer) THEN buffer[i] ELSE wire'[i - Len(buffer)]
  BY <1>2, <1>3, ConcatProperties
<1>5. /\ s \in Seq(Piece) /\ Len(s) = Len(buffer) + Len(wire)
      /\ \A i \in 1 .. Len(buffer) + Len(wire) :
           s[i] = IF i <= Len(buffer) THEN buffer[i] ELSE wire[i - Len(buffer)]
  BY <1>2, ConcatProperties
<1>6. Part(t, s, 0)
  <2> HIDE DEF s, t
  <2>1. Len(buffer) \in Nat
    BY <1>2
  <2>2. \A i \in 1 .. Len(buffer) + n : t[i] = s[i]
    <3> SUFFICES ASSUME NEW i \in 1 .. Len(buffer) + n PROVE t[i] = s[i]
      OBVIOUS
    <3>1. i \in 1 .. Len(buffer) + Len(wire)
      BY <1>2, <2>1
    <3>2. CASE i <= Len(buffer)
      BY <1>4, <1>5, <3>1, <3>2
    <3>3. CASE ~(i <= Len(buffer))
      <4>1. i - Len(buffer) \in 1..n
        BY <2>1, <3>3
      <4>2. t[i] = wire'[i - Len(buffer)]
        BY <1>4, <3>3
      <4>3. s[i] = wire[i - Len(buffer)]
        BY <1>5, <3>1, <3>3
      <4> QED BY <1>3, <4>1, <4>2, <4>3
    <3> QED BY <3>2, <3>3
  <2> QED BY <1>1, <1>2, <1>4, <1>5, <2>1, <2>2 DEF Part
<1>7. InOrder(t, heard, last, round)
  <2>1. InOrder(s, heard, last, round) /\ heard \in Int /\ last \in Nat /\ round \in Nat
    BY DEF StreamInv
  <2> HIDE DEF s, t
  <2> QED BY <1>4, <1>5, <1>6, <2>1, PrefixInOrder
<1>8. ~Reached'
  BY DEF Reached
<1> QED BY <1>3, <1>7, <1>8 DEF StreamInv

LEMMA HangUpIsACut ==
  ASSUME StreamInv, HangUp
  PROVE  ~connected' /\ \E n \in 0 .. Len(wire) : wire' = SubSeq(wire, 1, n)
<1>1. wire \in Seq(Piece) /\ Len(wire) \in Nat
  BY DEF StreamInv
<1>2. wire' = SubSeq(wire, 1, 0) /\ 0 \in 0 .. Len(wire)
  BY <1>1, SubSeqEmpty DEF HangUp
<1> QED BY <1>2 DEF HangUp

LEMMA PollStreamInv ==
  ASSUME StreamInv, Poll
  PROVE  StreamInv'
<1>1. UNCHANGED <<clients, connected, readerVars, drops>>
  BY DEF Poll
<1>2. /\ round' \in Nat /\ round <= round' /\ snapshot' \in {0, round'}
      /\ snapshot <= snapshot' /\ NoGap(snapshot, snapshot')
      /\ snapshot \in Nat /\ snapshot' \in Nat /\ round \in Nat
  <2>1. round \in Nat /\ snapshot \in {0, round}
    BY DEF StreamInv
  <2>2. CASE UNCHANGED <<round, snapshot>>
    BY <2>1, <2>2 DEF NoGap
  <2>3. CASE round' = round + 1 /\ snapshot' = round + 1
    BY <2>1, <2>3 DEF NoGap
  <2> QED BY <2>2, <2>3 DEF Poll
<1>3. /\ buffer' = buffer /\ heard' = heard /\ last' = last /\ garbled' = garbled
      /\ Reached' = Reached
  BY <1>1 DEF readerVars, Reached
<1>4. /\ last \in 0..round /\ heard \in Int /\ heard <= round /\ heard >= -1
      /\ buffer \in Seq(Piece) /\ wire \in Seq(Piece) /\ ~garbled
      /\ InOrder(buffer \o wire, heard, last, round)
  BY DEF StreamInv
<1>5. last \in 0..round' /\ heard <= round'
  BY <1>2, <1>4
<1>6. CASE Reached
  <2> DEFINE s == buffer \o wire
  <2>1. wire' = wire \o Frame(snapshot') /\ Frame(snapshot') \in Seq(Piece)
    BY <1>2, <1>6, FrameIs DEF Poll
  <2>2. wire' \in Seq(Piece) /\ s \in Seq(Piece)
    BY <1>4, <2>1, ConcatProperties
  <2>3. buffer' \o wire' = s \o Frame(snapshot')
    <3>1. \A u, v, w \in Seq(Piece) : (u \o v) \o w = u \o (v \o w)
      BY ConcatAssociative
    <3>2. (buffer \o wire) \o Frame(snapshot') = buffer \o (wire \o Frame(snapshot'))
      BY <1>4, <2>1, <3>1
    <3> QED BY <1>3, <2>1, <3>2
  <2>4. UpToDate(s, heard, snapshot)
    BY <1>6 DEF StreamInv
  <2>5. snapshot' = 0 \/ last <= snapshot'
    BY <1>2, <1>5
  <2> HIDE DEF s
  <2>6. InOrder(s, heard, last, round)
    BY <1>4 DEF s
  <2>7. /\ InOrder(s \o Frame(snapshot'), heard, last, round')
        /\ UpToDate(s \o Frame(snapshot'), heard, snapshot')
    <3>1. snapshot' <= round'
      BY <1>2
    <3>2. last \in Nat
      BY <1>2, <1>4
    <3> QED BY <1>2, <1>4, <2>2, <2>4, <2>5, <2>6, <3>1, <3>2, BroadcastInOrder
  <2> QED BY <1>2, <1>3, <1>4, <1>5, <2>2, <2>3, <2>7 DEF StreamInv
<1>7. CASE ~Reached
  <2>1. wire' = wire
    BY <1>7 DEF Poll
  <2> DEFINE s == buffer \o wire
  <2>2. s \in Seq(Piece)
    BY <1>4, ConcatProperties
  <2>3. InOrder(s, heard, last, round)
    BY <1>4
  <2> HIDE DEF s
  <2>4. \A i \in 1..Len(s) : s[i].round <= round'
    <3>1. \A i \in 1..Len(s) : s[i].round <= round
      BY <2>3 DEF InOrder
    <3>2. \A i \in 1..Len(s) : s[i] \in Piece
      BY <2>2
    <3>3. \A p \in Piece : p.round \in Nat
      BY DEF Piece
    <3> QED BY <1>2, <3>1, <3>2, <3>3
  <2>5. InOrder(s, heard, last, round')
    BY <2>3, <2>4 DEF InOrder
  <2> QED BY <1>2, <1>3, <1>4, <1>5, <1>7, <2>1, <2>5 DEF StreamInv, s
<1> QED BY <1>6, <1>7

LEMMA ConnectStreamInv ==
  ASSUME StreamInv, Connect
  PROVE  StreamInv'
<1>1. /\ wire' = Frame(snapshot) /\ buffer' = <<>> /\ heard' = -1
      /\ UNCHANGED <<round, snapshot, last, garbled>>
  BY DEF Connect, CurrentSnapshot, BufferOfNewConnection
<1>2. /\ round \in Nat /\ snapshot \in {0, round} /\ last \in 0..round /\ ~garbled
  BY DEF StreamInv
<1>3. /\ snapshot \in Nat /\ snapshot <= round /\ (snapshot = 0 \/ last <= snapshot)
      /\ last \in Nat
  BY <1>2
<1>4. InOrder(Frame(snapshot), -1, last, round)
  BY <1>2, <1>3, FrameInOrder
<1>5. /\ Frame(snapshot) \in Seq(Piece) /\ Len(Frame(snapshot)) = 2
      /\ Frame(snapshot)[2].round = snapshot
  BY <1>3, FrameIs
<1>6. buffer' \o wire' = Frame(snapshot)
  BY <1>1, <1>5, ConcatEmptySeq
<1> DEFINE f == Frame(snapshot)
<1>7. UpToDate(f, -1, snapshot)
  <2> HIDE DEF f
  <2>1. Len(f) = 2 /\ f[2].round = snapshot /\ f # <<>>
    BY <1>5 DEF f
  <2> QED BY <2>1 DEF UpToDate, Newest
<1>8. <<>> \in Seq(Piece)
  OBVIOUS
<1> HIDE DEF f
<1> QED BY <1>1, <1>2, <1>4, <1>5, <1>6, <1>7, <1>8 DEF StreamInv, f

LEMMA ReadStreamInv ==
  ASSUME StreamInv, Read
  PROVE  StreamInv'
<1>1. PICK n \in 1 .. Len(wire) :
        /\ buffer' = buffer \o SubSeq(wire, 1, n)
        /\ wire' = SubSeq(wire, n + 1, Len(wire))
  BY DEF Read
<1>2. buffer \in Seq(Piece) /\ wire \in Seq(Piece) /\ Len(wire) \in Nat
  BY DEF StreamInv
<1> DEFINE x == SubSeq(wire, 1, n)
           y == SubSeq(wire, n + 1, Len(wire))
<1>3. x \in Seq(Piece) /\ y \in Seq(Piece)
  BY <1>2
<1>4. x \o y = SubSeq(wire, 1, Len(wire))
  <2>1. 1 \in 1 .. Len(wire) + 1 /\ n \in 1 - 1 .. Len(wire) /\ Len(wire) \in n .. Len(wire)
    BY <1>2
  <2> QED BY <1>2, <2>1, ConcatAdjacentSubSeq
<1>5. x \o y = wire
  BY <1>2, <1>4, SubSeqFull
<1> HIDE DEF x, y
<1>6. (buffer \o x) \o y = buffer \o (x \o y)
  <2>1. buffer \in Seq(Piece) /\ x \in Seq(Piece) /\ y \in Seq(Piece)
    BY <1>2, <1>3
  <2>2. \A u, v, w \in Seq(Piece) : (u \o v) \o w = u \o (v \o w)
    BY ConcatAssociative
  <2> QED BY <2>1, <2>2
<1>7. buffer' \o wire' = buffer \o wire
  BY <1>1, <1>5, <1>6 DEF x, y
<1>8. buffer' \in Seq(Piece) /\ wire' \in Seq(Piece)
  <2>1. buffer \o x \in Seq(Piece)
    BY <1>2, <1>3, ConcatProperties
  <2> QED BY <1>1, <1>3, <2>1 DEF x, y
<1>9. /\ UNCHANGED <<round, snapshot, heard, last, garbled>>
      /\ Reached' = Reached
  BY DEF Read, serverVars, Reached
<1> QED BY <1>7, <1>8, <1>9 DEF StreamInv

\* What NextFrame finds: the buffer's first two pieces are a frame.
LEMMA NextFrameIs ==
  ASSUME StreamInv, Ends # {}
  PROVE  /\ Len(buffer) >= 2 /\ Min(Ends) = 2
         /\ SubSeq(buffer, 1, 2) = Frame(buffer[2].round)
         /\ buffer[1] = (buffer \o wire)[1] /\ buffer[2] = (buffer \o wire)[2]
         /\ buffer[2].round \in 0..round
         /\ buffer[2].round > 0 => last <= buffer[2].round
<1> DEFINE s == buffer \o wire
<1>1. buffer \in Seq(Piece) /\ wire \in Seq(Piece) /\ InOrder(s, heard, last, round)
      /\ heard \in Int /\ last \in Nat /\ round \in Nat
  BY DEF StreamInv
<1>2. /\ s \in Seq(Piece) /\ Len(s) = Len(buffer) + Len(wire)
      /\ \A i \in 1 .. Len(buffer) : s[i] = buffer[i]
      /\ Len(buffer) \in Nat /\ Len(wire) \in Nat
  BY <1>1, ConcatProperties
<1> HIDE DEF s
<1>3. 1 \notin Ends
  <2>1. 1 \in Ends => 1 \in 1..Len(s) /\ s[1].end
    BY <1>2 DEF Ends
  <2>2. 1 \in 1..Len(s) => s[1].end = FALSE
    BY <1>1 DEF InOrder
  <2> QED BY <2>1, <2>2
<1>4. Len(buffer) >= 2
  <2>1. PICK i \in Ends : TRUE
    OBVIOUS
  <2>2. i \in 1 .. Len(buffer) /\ i # 1
    BY <1>1, <1>3, <2>1 DEF Ends
  <2> QED BY <1>2, <2>2
<1>5. 2 \in Ends
  <2>1. 2 \in 1 .. Len(buffer) /\ 2 \in 1..Len(s) /\ DOMAIN buffer = 1 .. Len(buffer)
    BY <1>1, <1>2, <1>4
  <2>2. s[2].end = TRUE
    BY <1>1, <2>1 DEF InOrder
  <2> QED BY <1>2, <2>1, <2>2 DEF Ends
<1>6. \A i \in Ends : i >= 2 /\ i \in Nat
  <2>1. Ends \subseteq 1 .. Len(buffer)
    BY <1>1 DEF Ends
  <2> QED BY <1>2, <1>3, <2>1
<1>7. Min(Ends) = 2
  <2>1. Min(Ends) \in Ends /\ \A j \in Ends : Min(Ends) <= j
    BY <1>5, <1>6 DEF Min
  <2> QED BY <1>5, <1>6, <2>1
<1>8. s[1] = buffer[1] /\ s[2] = buffer[2] /\ Len(s) >= 2
  BY <1>2, <1>4
<1>9. /\ s[1] = [round |-> s[2].round, end |-> FALSE]
      /\ s[2] = [round |-> s[2].round, end |-> TRUE]
      /\ s[2].round \in 0..round
      /\ s[2].round > 0 => last <= s[2].round
  BY <1>1, <1>2, <1>8, FirstFrame
<1>10. SubSeq(buffer, 1, 2) = Frame(buffer[2].round)
  <2> DEFINE f == Frame(buffer[2].round)
             u == SubSeq(buffer, 1, 2)
  <2>1. /\ f \in Seq(Piece) /\ Len(f) = 2
        /\ f[1] = [round |-> buffer[2].round, end |-> FALSE]
        /\ f[2] = [round |-> buffer[2].round, end |-> TRUE]
    <3>1. buffer[2].round \in Nat
      BY <1>1, <1>8, <1>9
    <3> QED BY <3>1, FrameIs, FrameHalves
  <2>2. 1 \in Int /\ 2 \in Int /\ \A i \in 1..2 : buffer[i] \in Piece
    BY <1>1, <1>4
  <2>3. /\ u \in Seq(Piece) /\ Len(u) = IF 1 <= 2 THEN 2 - 1 + 1 ELSE 0
        /\ \A i \in 1 .. 2 - 1 + 1 : u[i] = buffer[1 + i - 1]
    BY <2>2, SubSeqProperties
  <2> HIDE DEF f, u
  <2>4. Len(u) = 2 /\ u[1] = buffer[1] /\ u[2] = buffer[2]
    BY <2>3
  <2>5. u[1] = f[1] /\ u[2] = f[2]
    BY <1>8, <1>9, <2>1, <2>4
  <2>6. Len(u) = Len(f) /\ \A i \in 1 .. Len(u) : u[i] = f[i]
    <3>1. \A i \in 1..2 : i = 1 \/ i = 2
      OBVIOUS
    <3> QED BY <2>1, <2>4, <2>5, <3>1
  <2> QED BY <2>1, <2>3, <2>6, SeqEqual DEF f, u
<1> QED BY <1>4, <1>7, <1>8, <1>9, <1>10 DEF s

LEMMA NextFrameStreamInv ==
  ASSUME StreamInv, NextFrame
  PROVE  StreamInv'
<1> DEFINE s == buffer \o wire
           t == buffer' \o wire'
           n == buffer[2].round
<1>1. /\ Len(buffer) >= 2 /\ Min(Ends) = 2
      /\ SubSeq(buffer, 1, 2) = Frame(n)
      /\ s[2] = buffer[2]
      /\ n \in 0..round
      /\ n > 0 => last <= n
  BY NextFrameIs DEF NextFrame
<1>2. /\ buffer' = SubSeq(buffer, 3, Len(buffer))
      /\ heard' = n /\ ~garbled'
      /\ last' = n \/ last' = last
      /\ n > 0 => last' = n
      /\ n = 0 => last' = last
      /\ HandlerReturns \/ HandlerCloses \/ HandlerThrows
      /\ UNCHANGED <<serverVars, conn>>
  <2> DEFINE updates == SubSeq(buffer, 1, 2) = Frame(n) /\ n > 0
  <2>1. /\ buffer' = SubSeq(buffer, 2 + 1, Len(buffer))
        /\ heard' = n
        /\ garbled' = (garbled \/ SubSeq(buffer, 1, 2) # Frame(n))
        /\ last' = IF updates THEN n ELSE last
        /\ \/ HandlerReturns
           \/ updates /\ (HandlerCloses \/ HandlerThrows)
        /\ UNCHANGED <<serverVars, conn>>
    <3>1. Min(Ends) = 2
      BY <1>1
    <3> QED BY <3>1, Zenon DEF NextFrame
  <2>2. 2 + 1 = 3 /\ (n > 0 <=> n # 0)
    <3>1. n \in Nat
      <4>1. round \in Nat
        BY DEF StreamInv
      <4> QED BY <1>1, <4>1
    <3> QED BY <3>1
  <2>3. ~garbled'
    <3>1. ~garbled
      BY DEF StreamInv
    <3> QED BY <1>1, <2>1, <3>1, Zenon
  <2>4. last' = n \/ last' = last
    BY <2>1
  <2>5. updates <=> n > 0
    BY <1>1, Zenon
  <2> HIDE DEF updates, n
  <2>6. n > 0 => last' = n
    BY <2>1, <2>5
  <2>7. n = 0 => last' = last
    BY <2>1, <2>2, <2>5
  <2> QED BY <2>1, <2>2, <2>3, <2>4, <2>6, <2>7
<1>3. /\ buffer \in Seq(Piece) /\ wire \in Seq(Piece)
      /\ Len(buffer) \in Nat /\ Len(wire) \in Nat
      /\ InOrder(s, heard, last, round) /\ heard \in Int /\ last \in Nat /\ round \in Nat
      /\ snapshot \in {0, round} /\ ~garbled
  BY DEF StreamInv
<1>4. UNCHANGED <<wire, connected>> \/ (wire' = <<>> /\ ~connected')
  BY <1>2 DEF HandlerReturns, HandlerCloses, HandlerThrows, HangUp
<1>5. /\ buffer' \in Seq(Piece) /\ Len(buffer') = Len(buffer) - 2
      /\ \A i \in 1 .. Len(buffer) - 2 : buffer'[i] = buffer[i + 2]
  <2>1. Len(buffer) \in Int /\ \A i \in 3 .. Len(buffer) : buffer[i] \in Piece
    BY <1>3
  <2>2. /\ buffer' \in Seq(Piece)
        /\ Len(buffer') = IF 3 <= Len(buffer) THEN Len(buffer) - 3 + 1 ELSE 0
        /\ \A i \in 1 .. Len(buffer) - 3 + 1 : buffer'[i] = buffer[3 + i - 1]
    BY <1>2, <2>1, SubSeqProperties
  <2>3. \A i \in 1 .. Len(buffer) - 2 : i \in 1 .. Len(buffer) - 3 + 1 /\ 3 + i - 1 = i + 2
    BY <1>3
  <2>4. Len(buffer') = Len(buffer) - 2
    BY <1>1, <1>3, <2>2
  <2>5. \A i \in 1 .. Len(buffer) - 2 : buffer'[i] = buffer[i + 2]
    <3>1. \A i \in 1 .. Len(buffer) - 2 :
            i \in 1 .. Len(buffer) - 3 + 1 /\ buffer[3 + i - 1] = buffer[i + 2]
      BY <2>3, Zenon
    <3> QED BY <2>2, <3>1, Zenon
  <2> QED BY <2>2, <2>4, <2>5
<1>6. wire' \in Seq(Piece) /\ Len(wire') \in Nat /\ Len(wire') <= Len(wire)
      /\ \A i \in 1 .. Len(wire') : wire'[i] = wire[i]
  <2>1. CASE UNCHANGED <<wire, connected>>
    BY <1>3, <2>1
  <2>2. CASE wire' = <<>>
    BY <1>3, <2>2
  <2> QED BY <1>4, <2>1, <2>2
<1>7. /\ s \in Seq(Piece) /\ Len(s) = Len(buffer) + Len(wire)
      /\ \A i \in 1 .. Len(buffer) + Len(wire) :
           s[i] = IF i <= Len(buffer) THEN buffer[i] ELSE wire[i - Len(buffer)]
  BY <1>3, ConcatProperties
<1>8. /\ t \in Seq(Piece) /\ Len(t) = Len(buffer') + Len(wire')
      /\ \A i \in 1 .. Len(buffer') + Len(wire') :
           t[i] = IF i <= Len(buffer') THEN buffer'[i] ELSE wire'[i - Len(buffer')]
  BY <1>5, <1>6, ConcatProperties
<1> HIDE DEF s, t
<1>9. \A i \in 1..Len(t) : t[i] = s[i + 2]
  <2> SUFFICES ASSUME NEW i \in 1..Len(t) PROVE t[i] = s[i + 2]
    OBVIOUS
  <2>1. i \in Nat /\ i >= 1 /\ i <= Len(buffer) - 2 + Len(wire')
    BY <1>3, <1>5, <1>6, <1>8
  <2>2. i + 2 \in 1 .. Len(buffer) + Len(wire)
    BY <1>3, <1>6, <2>1
  <2>3. CASE i <= Len(buffer) - 2
    <3>1. i \in 1 .. Len(buffer) - 2 /\ i + 2 <= Len(buffer)
      BY <1>3, <2>1, <2>3
    <3> QED BY <1>5, <1>7, <1>8, <2>2, <3>1
  <2>4. CASE ~(i <= Len(buffer) - 2)
    <3>1. i - (Len(buffer) - 2) \in 1 .. Len(wire') /\ ~(i + 2 <= Len(buffer))
      BY <1>3, <1>6, <2>1, <2>4
    <3>2. i - (Len(buffer) - 2) = i + 2 - Len(buffer)
      BY <1>3, <2>1
    <3>3. t[i] = wire'[i - (Len(buffer) - 2)]
      BY <1>5, <1>8, <2>4
    <3>4. s[i + 2] = wire[i + 2 - Len(buffer)]
      BY <1>7, <2>2, <3>1
    <3> QED BY <1>6, <3>1, <3>2, <3>3, <3>4
  <2> QED BY <2>3, <2>4
<1>10. Part(t, s, 2) /\ Len(s) >= 2
  BY <1>1, <1>3, <1>5, <1>6, <1>7, <1>8, <1>9 DEF Part
<1>11. last' \in Nat /\ (last' = s[2].round \/ last' = last) /\ last' \in 0..round
  <2>1. last \in 0..round
    BY DEF StreamInv
  <2> QED BY <1>1, <1>2, <1>3, <2>1
<1> HIDE DEF n
<1>12. InOrder(t, n, last', round)
  <2>1. n = s[2].round
    BY <1>1 DEF n
  <2> QED BY <1>3, <1>7, <1>8, <1>10, <1>11, <2>1, RestInOrder
<1>13. Reached' => UpToDate(t, n, snapshot)
  <2> SUFFICES ASSUME Reached' PROVE UpToDate(t, n, snapshot)
    OBVIOUS
  <2>1. wire' = wire /\ Reached
    BY <1>2, <1>4 DEF Reached, serverVars
  <2>2. UpToDate(s, heard, snapshot)
    BY <2>1 DEF StreamInv, s
  <2>3. Len(t) = Len(s) - 2 /\ Len(s) \in Nat /\ Len(t) \in Nat
    BY <1>3, <1>5, <1>7, <1>8, <2>1
  <2>4. Len(t) % 2 = 0
    <3>1. Len(s) % 2 = 0
      BY <2>2 DEF UpToDate
    <3> QED BY <2>3, <3>1
  <2>5. s # <<>> /\ s[Len(s)].round = snapshot
    <3>1. s # <<>>
      BY <1>10
    <3> QED BY <2>2, <3>1 DEF UpToDate, Newest
  <2>6. CASE t = <<>>
    <3>1. Len(s) = 2
      BY <2>3, <2>6
    <3>2. n = snapshot
      BY <1>1, <2>5, <3>1 DEF n
    <3> QED BY <2>4, <2>6, <3>2 DEF UpToDate, Newest
  <2>7. CASE t # <<>>
    <3>1. Len(t) \in 1..Len(t) /\ Len(t) + 2 = Len(s)
      BY <1>8, <2>3, <2>7
    <3>2. t[Len(t)].round = snapshot
      BY <1>9, <2>5, <3>1
    <3> QED BY <2>4, <2>7, <3>2 DEF UpToDate, Newest
  <2> QED BY <2>6, <2>7
<1>14. n \in Int /\ n <= round /\ n >= -1
  BY <1>1, <1>3 DEF n
<1>15. round' = round /\ snapshot' = snapshot /\ heard' = n
  BY <1>2 DEF serverVars, n
<1> QED BY <1>2, <1>3, <1>5, <1>6, <1>11, <1>12, <1>13, <1>14, <1>15 DEF StreamInv, t

LEMMA NextStreamInv == StreamInv /\ [Next]_vars => StreamInv'
<1> SUFFICES ASSUME StreamInv, [Next]_vars PROVE StreamInv'
  OBVIOUS
<1>1. CASE Poll
  BY <1>1, PollStreamInv
<1>2. CASE \E c \in Connections : NoticeClose(c)
  <2>1. clients' \subseteq clients
        /\ UNCHANGED <<round, snapshot, wire, connected, conn, buffer, heard, last, garbled>>
    BY <1>2 DEF NoticeClose, ClientsAfterClose, readerVars
  <2> QED BY <2>1, StreamUntouched
<1>3. CASE DropConnection
  <2>1. /\ ~connected' /\ \E n \in 0 .. Len(wire) : wire' = SubSeq(wire, 1, n)
        /\ snapshot' \in {snapshot, 0}
        /\ UNCHANGED <<round, buffer, heard, last, garbled>>
    BY <1>3 DEF DropConnection, Lose, serverVars, readerVars
  <2> QED BY <2>1, StreamCut
<1>4. CASE RestartServer
  <2>1. /\ ~connected' /\ \E n \in 0 .. Len(wire) : wire' = SubSeq(wire, 1, n)
        /\ snapshot' \in {snapshot, 0}
        /\ UNCHANGED <<round, buffer, heard, last, garbled>>
    BY <1>4 DEF RestartServer, Lose
  <2> QED BY <2>1, StreamCut
<1>5. CASE Fetch \/ FetchFails \/ Done \/ NoFrameLeft \/ Backoff
  <2>1. clients' \subseteq clients
        /\ UNCHANGED <<round, snapshot, wire, connected, conn, buffer, heard, last, garbled>>
    BY <1>5 DEF Fetch, FetchFails, Done, NoFrameLeft, Backoff, serverVars
  <2> QED BY <2>1, StreamUntouched
<1>6. CASE Connect
  BY <1>6, ConnectStreamInv
<1>7. CASE Read
  BY <1>7, ReadStreamInv
<1>8. CASE NextFrame
  BY <1>8, NextFrameStreamInv
<1>9. CASE Close
  <2>1. /\ HangUp /\ snapshot' \in {snapshot, 0}
        /\ UNCHANGED <<round, buffer, heard, last, garbled>>
    BY <1>9 DEF Close, serverVars
  <2> QED BY <2>1, HangUpIsACut, StreamCut
<1>10. CASE UNCHANGED vars
  <2>1. clients' \subseteq clients
        /\ UNCHANGED <<round, snapshot, wire, connected, conn, buffer, heard, last, garbled>>
    BY <1>10 DEF vars, serverVars, readerVars
  <2> QED BY <2>1, StreamUntouched
<1> QED
  BY <1>1, <1>2, <1>3, <1>4, <1>5, <1>6, <1>7, <1>8, <1>9, <1>10 DEF Next

LEMMA StreamInvAlways == Spec => []StreamInv
BY InitStreamInv, NextStreamInv, PTL DEF Spec

-----------------------------------------------------------------------------
\* What follows.

\* The rounds a handler sees never go back: not over a reconnection, not over a
\* restart of the service, and not when close() or an exception leaves frames behind.
THEOREM UpdatesAdvance == Spec => UpdatesNeverRegress
<1> DEFINE Step == last' >= last
<1>1. StreamInv /\ [Next]_vars => Step
  <2> SUFFICES ASSUME StreamInv, [Next]_vars PROVE last' >= last
    OBVIOUS
  <2>1. last \in Nat
    BY DEF StreamInv
  <2>2. CASE NextFrame
    <3> DEFINE n == buffer[2].round
    <3>1. Min(Ends) = 2 /\ n \in 0..round /\ (n > 0 => last <= n)
      BY <2>2, NextFrameIs DEF NextFrame
    <3>2. last' = IF SubSeq(buffer, 1, 2) = Frame(n) /\ n > 0 THEN n ELSE last
      BY <2>2, <3>1, Zenon DEF NextFrame
    <3>3. n \in Nat
      <4>1. round \in Nat
        BY DEF StreamInv
      <4> QED BY <3>1, <4>1
    <3>4. (n > 0 /\ last' = n) \/ last' = last
      BY <3>2
    <3> HIDE DEF n
    <3> QED BY <2>1, <3>1, <3>3, <3>4
  <2>3. CASE ~NextFrame
    <3>1. last' = last
      BY <2>3 DEF Next, vars, readerVars, Poll, NoticeClose, DropConnection, RestartServer,
                  Fetch, FetchFails, Connect, Read, Done, NoFrameLeft, Backoff, Close
    <3> QED BY <2>1, <3>1
  <2> QED BY <2>2, <2>3
<1>2. Spec => [][Step]_vars
  BY <1>1, InitStreamInv, NextStreamInv, PTL DEF Spec
<1> QED BY <1>2, PTL DEF UpdatesNeverRegress

\* However the stream is cut into chunks and wherever a connection breaks, the reader
\* splits whole frames only.
THEOREM FramesStayWhole == Spec => []NeverGarbled
<1>1. StreamInv => NeverGarbled
  BY DEF StreamInv, NeverGarbled
<1> QED BY <1>1, StreamInvAlways, PTL

\* A subscriber whose connection holds gets every round: what it heard, buffered and
\* still has on its way goes up to the server's snapshot without a gap.
THEOREM NoRoundIsSkipped == Spec => []NoRoundSkipped
<1>1. StreamInv => NoRoundSkipped
  <2> DEFINE s == buffer \o wire
             h == heard
             a == IF h = -1 THEN <<>> ELSE <<h>>
             b == [i \in 1 .. Len(s) |-> s[i].round]
             rounds == a \o b
  <2> SUFFICES ASSUME StreamInv, Reached
               PROVE  /\ rounds # <<>>
                      /\ rounds[Len(rounds)] = snapshot
                      /\ \A i \in 1 .. Len(rounds) - 1 :
                           rounds[i] = 0 \/ rounds[i + 1] \in {rounds[i], rounds[i] + 1}
    BY DEF NoRoundSkipped
  <2>1. /\ s \in Seq(Piece) /\ InOrder(s, h, last, round) /\ UpToDate(s, h, snapshot)
        /\ h \in Int /\ snapshot \in Nat
    BY ConcatProperties DEF StreamInv
  <2> HIDE DEF s, h
  <2>2. Len(s) \in Nat /\ (s # <<>> <=> Len(s) > 0)
    BY <2>1
  <2>3. \A i \in 1 .. Len(s) : s[i].round \in Int
    <3>1. \A p \in Piece : p.round \in Int
      BY DEF Piece
    <3> QED BY <2>1, <3>1
  <2>4. b \in Seq(Int) /\ Len(b) = Len(s) /\ \A i \in 1 .. Len(s) : b[i] = s[i].round
    BY <2>2, <2>3
  <2> HIDE DEF b
  <2>5. \A i \in 1 .. Len(s) - 1 :
          /\ i \in 1 .. Len(s) /\ i + 1 \in 1 .. Len(s)
          /\ NoGap(s[i].round, s[i + 1].round)
    BY <2>1, <2>2 DEF InOrder
  <2>6. s # <<>> => s[Len(s)].round = snapshot /\ Len(s) \in 1 .. Len(s)
    BY <2>1, <2>2 DEF UpToDate, Newest
  <2>7. CASE h = -1
    <3>1. rounds = b
      BY <2>4, <2>7, ConcatEmptySeq
    <3>2. s # <<>>
      BY <2>1, <2>7 DEF UpToDate, Newest
    <3> HIDE DEF rounds
    <3>3. rounds # <<>> /\ rounds[Len(rounds)] = snapshot
      BY <2>2, <2>4, <2>6, <3>1, <3>2
    <3> QED BY <2>4, <2>5, <3>1, <3>3 DEF NoGap
  <2>8. CASE h # -1
    <3>1. a = <<h>> /\ a \in Seq(Int) /\ Len(a) = 1 /\ a[1] = h
      BY <2>1, <2>8
    <3> HIDE DEF a
    <3>2. /\ rounds \in Seq(Int) /\ Len(rounds) = Len(s) + 1
          /\ \A i \in 1 .. Len(a) + Len(b) :
               rounds[i] = IF i <= Len(a) THEN a[i] ELSE b[i - Len(a)]
      BY <2>2, <2>4, <3>1, ConcatProperties
    <3>3. /\ rounds[1] = h
          /\ \A i \in 1 .. Len(s) : rounds[i + 1] = s[i].round
      <4>1. rounds[1] = h
        BY <2>2, <2>4, <3>1, <3>2
      <4>2. \A i \in 1 .. Len(s) :
              i + 1 \in 1 .. Len(a) + Len(b) /\ ~(i + 1 <= Len(a)) /\ i + 1 - Len(a) = i
        BY <2>2, <2>4, <3>1
      <4> QED BY <2>4, <3>2, <4>1, <4>2
    <3> HIDE DEF rounds
    <3>4. rounds # <<>>
      BY <2>2, <3>2
    <3>5. rounds[Len(rounds)] = snapshot
      <4>1. CASE s = <<>>
        BY <2>1, <2>2, <3>2, <3>3, <4>1 DEF UpToDate, Newest
      <4>2. CASE s # <<>>
        BY <2>6, <3>2, <3>3, <4>2
      <4> QED BY <4>1, <4>2
    <3>6. ASSUME NEW i \in 1 .. Len(rounds) - 1
          PROVE  NoGap(rounds[i], rounds[i + 1])
      <4>1. i \in 1 .. Len(s)
        BY <2>2, <3>2
      <4>2. CASE i = 1
        <5>1. s # <<>>
          BY <2>2, <4>1
        <5> QED BY <2>1, <2>8, <3>3, <4>1, <4>2, <5>1 DEF InOrder
      <4>3. CASE i # 1
        <5>1. i - 1 \in 1 .. Len(s) - 1 /\ i - 1 \in 1 .. Len(s) /\ i - 1 + 1 = i
          BY <2>2, <4>1, <4>3
        <5>2. rounds[i] = s[i - 1].round /\ rounds[i + 1] = s[i].round
          BY <3>3, <4>1, <5>1
        <5> QED BY <2>5, <5>1, <5>2
      <4> QED BY <4>2, <4>3
    <3> QED BY <3>4, <3>5, <3>6 DEF NoGap
  <2> QED BY <2>7, <2>8
<1> QED BY <1>1, StreamInvAlways, PTL
=============================================================================
