------------------------------- MODULE Stream -------------------------------
(***************************************************************************)
(* A price subscription: subscribe() and the SSE reader of the SDK         *)
(* (sdk/src/client.ts, sdk/src/stream.ts) against the stream endpoint of   *)
(* the attestation service (scripts/keeper/server.mjs).                    *)
(*                                                                         *)
(* A frame travels as two pieces, so that a chunk may end inside it.  Both *)
(* ends are single-threaded: the code between two awaits is not interleaved*)
(* with other callbacks of its own end.  onError is assumed not to throw.  *)
(***************************************************************************)
EXTENDS Integers, Sequences, FiniteSets, FiniteSetsExt

CONSTANTS
  MaxRounds,   \* bound: rounds ever signed
  MaxDrops,    \* bound: lost connections, server restarts, throwing handlers
  MaxWire      \* bound: pieces in flight

ASSUME StreamAssumption == {MaxRounds, MaxDrops, MaxWire} \subseteq Nat

Connections == 1 .. MaxDrops + 1

VARIABLES
  round,      \* rounds signed with the key, by any server process
  snapshot,   \* round of keeper.getAll() in this process, 0 while it is empty
  clients,    \* sseClients
  wire,       \* pieces in flight on the subscriber's connection
  connected,  \* that connection still carries what the server writes
  pc,         \* where run() is: fetch, connect, read, deliver, backoff, ended
  conn,       \* the connection run() reads
  left,       \* connections it stopped reading without closing them
  buffer,     \* pieces read and not yet split into frames
  heard,      \* round of the last frame of this connection, -1 before it
  last,       \* round last passed to onUpdate, 0 before the first
  garbled,    \* onError was told of malformed data
  aborted,    \* close() was called
  drops       \* drops so far

serverVars == <<round, snapshot, clients>>
readerVars == <<pc, conn, left, buffer, heard, last, garbled, aborted>>
vars == <<serverVars, wire, connected, readerVars, drops>>

Frame(n) == <<[round |-> n, end |-> FALSE], [round |-> n, end |-> TRUE]>>

-----------------------------------------------------------------------------
\* The server.

\* Fault: a new client is sent the previous broadcast.
PreviousSnapshot == IF snapshot = 0 THEN 0 ELSE snapshot - 1

CurrentSnapshot == snapshot

\* Fault: a client that has not drained its socket is left out.
ReachedIfDrained == connected /\ conn \in clients /\ wire = <<>>

\* broadcast() writes to every client; of interest is the subscriber.
Reached == connected /\ conn \in clients

\* pollOnce() and the broadcast after it.  A poll that signs nothing broadcasts the
\* snapshot it found.
Poll ==
  /\ Reached => Len(wire) + 2 <= MaxWire
  /\ \/ UNCHANGED <<round, snapshot>>
     \/ round < MaxRounds /\ round' = round + 1 /\ snapshot' = round + 1
  /\ wire' = IF Reached THEN wire \o Frame(snapshot') ELSE wire
  /\ UNCHANGED <<clients, connected, readerVars, drops>>

\* Fault: the close event is not listened to.
KeptAfterClose(c) == clients

ClientsAfterClose(c) == clients \ {c}

\* req.on("close"): the other end closed the connection, or the network did.
NoticeClose(c) ==
  /\ c \in clients
  /\ \/ aborted
     \/ c \notin left /\ ~(c = conn /\ connected)
  /\ clients' = ClientsAfterClose(c)
  /\ UNCHANGED <<round, snapshot, wire, connected, readerVars, drops>>

-----------------------------------------------------------------------------
\* The network and the service's host.

\* Pieces in flight may be lost with their connection, from some point on.
Lose ==
  /\ drops < MaxDrops
  /\ drops' = drops + 1
  /\ connected' = FALSE
  /\ \E n \in 0 .. Len(wire) : wire' = SubSeq(wire, 1, n)

DropConnection ==
  /\ connected
  /\ Lose
  /\ UNCHANGED <<serverVars, readerVars>>

\* A new process has signed nothing and knows no client; its rounds are newer.
RestartServer ==
  /\ Lose
  /\ clients' = {}
  /\ left' = {}
  /\ snapshot' = 0
  /\ UNCHANGED <<round, pc, conn, buffer, heard, last, garbled, aborted>>

-----------------------------------------------------------------------------
\* The reader: run() of streamSse.

\* `while (!signal.aborted)`, both loops.
LoopTo(closed, label) == pc' = IF closed THEN "ended" ELSE label

Fetch ==
  /\ pc = "fetch"
  /\ LoopTo(aborted, "connect")
  /\ UNCHANGED <<serverVars, wire, connected, conn, left, buffer, heard, last,
                 garbled, aborted, drops>>

FetchFails ==
  /\ pc = "connect"
  /\ LoopTo(aborted, "backoff")
  /\ UNCHANGED <<serverVars, wire, connected, conn, left, buffer, heard, last,
                 garbled, aborted, drops>>

\* Fault: the buffer outlives its connection.
BufferKept == buffer

BufferOfNewConnection == <<>>

\* The server writes its snapshot and registers the client in one callback.
Connect ==
  /\ pc = "connect"
  /\ \E c \in Connections \ clients :
       /\ \A d \in Connections \ clients : c <= d
       /\ conn' = c
       /\ clients' = clients \cup {c}
  /\ wire' = Frame(CurrentSnapshot)
  /\ connected' = TRUE
  /\ buffer' = BufferOfNewConnection
  /\ heard' = -1
  /\ LoopTo(aborted, "read")
  /\ UNCHANGED <<round, snapshot, left, last, garbled, aborted, drops>>

\* reader.read() resolves with a chunk of any length.
Read ==
  /\ pc = "read"
  /\ \E n \in 1 .. Len(wire) :
       /\ buffer' = buffer \o SubSeq(wire, 1, n)
       /\ wire' = SubSeq(wire, n + 1, Len(wire))
  /\ pc' = "deliver"
  /\ UNCHANGED <<serverVars, connected, conn, left, heard, last, garbled, aborted,
                 drops>>

\* Fault: a stream that ends is taken for the end of the subscription.
EndedAtDone == "ended"

AfterDone == "backoff"

\* read() reports the end of the stream, or rejects.
Done ==
  /\ pc = "read"
  /\ ~connected /\ wire = <<>>
  /\ LoopTo(aborted, AfterDone)
  /\ UNCHANGED <<serverVars, wire, connected, conn, left, buffer, heard, last,
                 garbled, aborted, drops>>

Ends == {i \in DOMAIN buffer : buffer[i].end}

\* This end no longer listens.
HangUp == connected' = FALSE /\ wire' = <<>>

\* What onUpdate may do besides returning: call close(), or throw, which is caught
\* like an error of the stream and leaves the connection open.
HandlerReturns == UNCHANGED <<aborted, pc, left, connected, wire, drops>>

HandlerCloses == aborted' = TRUE /\ HangUp /\ UNCHANGED <<pc, left, drops>>

HandlerThrows ==
  /\ drops < MaxDrops
  /\ drops' = drops + 1
  /\ aborted' \in {aborted, TRUE}
  /\ LoopTo(aborted', "backoff")
  /\ left' = IF connected THEN left \cup {conn} ELSE left
  /\ HangUp

\* One turn of the loop over the complete frames of the buffer.
NextFrame ==
  LET text == SubSeq(buffer, 1, Min(Ends))
      n == buffer[Min(Ends)].round
      \* onUpdate is called when the snapshot holds one of the assets
      updates == text = Frame(n) /\ n > 0
  IN /\ pc = "deliver" /\ Ends # {}
     /\ buffer' = SubSeq(buffer, Min(Ends) + 1, Len(buffer))
     /\ heard' = n
     /\ garbled' = (garbled \/ text # Frame(n))
     /\ last' = IF updates THEN n ELSE last
     /\ \/ HandlerReturns
        \/ updates /\ (HandlerCloses \/ HandlerThrows)
     /\ UNCHANGED <<serverVars, conn>>

NoFrameLeft ==
  /\ pc = "deliver" /\ Ends = {}
  /\ LoopTo(aborted, "read")
  /\ UNCHANGED <<serverVars, wire, connected, conn, left, buffer, heard, last,
                 garbled, aborted, drops>>

Backoff ==
  /\ pc = "backoff"
  /\ LoopTo(aborted, "fetch")
  /\ UNCHANGED <<serverVars, wire, connected, conn, left, buffer, heard, last,
                 garbled, aborted, drops>>

\* close() from outside a handler: the signal aborts every connection, an awaited
\* fetch or read rejects, and a backoff timer runs on.
Close ==
  /\ ~aborted /\ pc # "deliver"
  /\ aborted' = TRUE
  /\ HangUp
  /\ pc' = IF pc \in {"connect", "read"} THEN "ended" ELSE pc
  /\ UNCHANGED <<serverVars, conn, left, buffer, heard, last, garbled, drops>>

-----------------------------------------------------------------------------
Init ==
  /\ round \in 0..1 /\ snapshot = round
  /\ clients = {} /\ wire = <<>> /\ connected = FALSE
  /\ pc = "fetch" /\ conn = 0 /\ left = {} /\ buffer = <<>>
  /\ heard = -1 /\ last = 0
  /\ garbled = FALSE /\ aborted = FALSE
  /\ drops = 0

Next ==
  \/ Poll
  \/ \E c \in Connections : NoticeClose(c)
  \/ DropConnection
  \/ RestartServer
  \/ Fetch \/ FetchFails \/ Connect
  \/ Read \/ Done \/ NextFrame \/ NoFrameLeft
  \/ Backoff
  \/ Close

\* The event loops of both ends run, and of endlessly many requests the service
\* accepts endlessly many.  Nothing obliges it to sign, or the user to close.
Fairness ==
  /\ WF_vars(Fetch) /\ SF_vars(Connect)
  /\ WF_vars(Read) /\ WF_vars(Done) /\ WF_vars(NextFrame) /\ WF_vars(NoFrameLeft)
  /\ WF_vars(Backoff)
  /\ \A c \in Connections : WF_vars(NoticeClose(c))

Spec == Init /\ [][Next]_vars /\ Fairness

-----------------------------------------------------------------------------
\* The rounds a handler sees never go back, over any number of reconnections and
\* of server processes.
UpdatesNeverRegress == [][last' >= last]_vars

\* Whatever the chunks, half a frame of a lost connection is never joined with
\* the frames of the next: the subscriber is not told of malformed data.
NeverGarbled == ~garbled

\* A subscriber that stays connected misses no round: what it has heard, buffered
\* and on the wire goes on round by round up to the snapshot of the server.
NoRoundSkipped ==
  LET pieces == buffer \o wire
      rounds == (IF heard = -1 THEN <<>> ELSE <<heard>>)
                  \o [i \in 1 .. Len(pieces) |-> pieces[i].round]
  IN pc \in {"read", "deliver"} /\ Reached =>
       /\ rounds # <<>>
       /\ rounds[Len(rounds)] = snapshot
       /\ \A i \in 1 .. Len(rounds) - 1 :
            rounds[i] = 0 \/ rounds[i + 1] \in {rounds[i], rounds[i] + 1}

\* An open subscription recovers: every round the service serves, or a later one,
\* reaches the handler in the end, unless the process that serves it ends first.
CatchesUp ==
  \A n \in 1 .. MaxRounds :
    snapshot = n ~> (last >= n \/ aborted \/ snapshot = 0)

\* After close(), wherever it was called from, the reader stops and no connection
\* is left on the server, not even one whose handler threw.
CloseReleasesAll == aborted ~> (pc = "ended" /\ clients = {})
=============================================================================
