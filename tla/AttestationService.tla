------------------------- MODULE AttestationService -------------------------
(***************************************************************************)
(* What the service is to those who read it (GET /v1/latest, /v1/stream),  *)
(* without venues, polls or watchdog: a snapshot with at most one          *)
(* attestation per asset.  A round signs some of the assets, all of them   *)
(* with the stamp of that moment, and leaves the others as they were; the  *)
(* end of a process forgets them all.                                      *)
(*                                                                         *)
(* Keeper.tla implements it, and PullPath's clients read from it.          *)
(***************************************************************************)
EXTENDS Integers

CONSTANTS
  Assets, None,
  Second, Window,   \* the units of timestamp and round_id
  MostSources

VARIABLES latest, time

serviceVars == <<latest, time>>

Attested == [price : Nat \ {0}, sources : 1..MostSources, timestamp : Nat, round_id : Nat]

StampedNow(att) ==
  att.timestamp = time \div Second /\ att.round_id = time \div Window

Init ==
  /\ latest = [a \in Assets |-> None]
  /\ time = 0

\* The assets of S are signed.
Sign(S) ==
  /\ latest' \in [Assets -> Attested \cup {None}]
  /\ \A a \in S : latest'[a] \in Attested /\ StampedNow(latest'[a])
  /\ \A a \in Assets \ S : latest'[a] = latest[a]
  /\ UNCHANGED time

Forget ==
  /\ latest' = [a \in Assets |-> None]
  /\ UNCHANGED time

Tick ==
  /\ time' = time + 1
  /\ UNCHANGED latest

Next ==
  \/ \E S \in SUBSET Assets : Sign(S)
  \/ Forget
  \/ Tick

Spec == Init /\ [][Next]_serviceVars
=============================================================================
