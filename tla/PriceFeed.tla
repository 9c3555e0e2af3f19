----------------------------- MODULE PriceFeed -----------------------------
(***************************************************************************)
(* What a persistent price feed promises its readers, without publishers,  *)
(* signatures or storage: for every asset a latest entry and the last      *)
(* Depth entries, which advance together, a whole batch at a time, to      *)
(* newer rounds only, with entries stamped inside the acceptance window.   *)
(* Oracle.tla implements it whichever entrypoint writes, with the          *)
(* persistent storage and, for a history of one, with the temporary one.   *)
(***************************************************************************)
EXTENDS Integers, Sequences

CONSTANTS Assets, Prices, Depth, MaxAge, MaxAhead, None

VARIABLES latest, history, time

feedVars == <<latest, history, time>>

\* The last Depth elements of s.
Recent(s) ==
  SubSeq(s, (IF Len(s) > Depth THEN Len(s) - Depth ELSE 0) + 1, Len(s))

Entry == [price : Prices, timestamp : Nat, round_id : Nat]

Acceptable(e) ==
  time - MaxAge <= e.timestamp /\ e.timestamp <= time + MaxAhead

Supersedes(e, old) == old = None \/ old.round_id < e.round_id

Init ==
  /\ latest = [a \in Assets |-> None]
  /\ history = [a \in Assets |-> <<>>]
  /\ time \in Nat

\* One round becomes the latest entry of each asset of S.
Publish(S) ==
  /\ latest' \in [Assets -> Entry \cup {None}]
  /\ \A a \in S : /\ latest'[a] \in Entry
                 /\ Acceptable(latest'[a])
                 /\ Supersedes(latest'[a], latest[a])
  /\ \A a, b \in S : /\ latest'[a].timestamp = latest'[b].timestamp
                    /\ latest'[a].round_id = latest'[b].round_id
  /\ \A a \in Assets \ S : latest'[a] = latest[a]
  /\ history' = [a \in Assets |->
       IF a \in S THEN Recent(Append(history[a], latest'[a])) ELSE history[a]]
  /\ UNCHANGED time

\* Time passes.
Tick == time' \in Nat /\ time' > time /\ UNCHANGED <<latest, history>>

Next ==
  \/ \E S \in SUBSET Assets : Publish(S)
  \/ Tick

Spec == Init /\ [][Next]_feedVars
=============================================================================
