---------------------------- MODULE WatchProofs ----------------------------
(***************************************************************************)
(* Theorems about the watchers of the service, for every order of crashes, *)
(* bans, restarts and lost probes, every schedule and every staleness      *)
(* bound that WatchAssumption admits.                                      *)
(***************************************************************************)
EXTENDS Watch, TLAPS

-----------------------------------------------------------------------------
\* The invariant.

Types ==
  /\ due \in Nat /\ attempt \in 0..ATTEMPTS /\ wait \in {0, 1}
  /\ age \in Nat \cup {Never} /\ quiet \in Nat /\ trouble \in Nat
  /\ offSla \in [Assets -> Nat \cup {Absent}]

\* What is served was signed by the running process, and its age is how long the
\* service has been silent, as far as the two are counted.
Ages ==
  /\ age # Never => /\ up /\ quiet >= age
                    /\ age <= SERVE_MAX_STALENESS => quiet = age
  /\ ~reborn => up /\ age # Never

\* Trouble ends with a tick and not in between.
TroubleLasts == trouble > 0 => ~(up /\ Status(age) = "ok")

\* The probes of a check are a tick apart, so a check ends before the next is due.
Schedule ==
  watcher = "monitor" =>
    /\ due <= ALERT_PERIOD
    /\ attempt > 0 => due = ALERT_PERIOD - (attempt - 1) + wait

\* Unreported trouble began after the last check did.
TroubleIsYoung ==
  watcher = "monitor" /\ "service" \notin reported =>
    IF attempt = 0 THEN trouble + due <= ALERT_PERIOD
                   ELSE trouble + wait <= ALERT_PERIOD + attempt - 1

\* The probes so far found the service silent, and ever longer.
SilentSoFar ==
  attempt > 0 /\ ~lost /\ ~reborn =>
    /\ wait > 0 => age > HEALTH_STALENESS
    /\ age > HEALTH_STALENESS => quiet >= HEALTH_STALENESS + attempt - wait

\* An unreported asset has not been off for longer than since the last SLA check.
BreachIsYoung ==
  watcher = "sla" =>
    /\ due <= SLA_PERIOD
    /\ \A a \in Assets :
         a \in Served /\ a \notin reported => offSla[a] + due <= SLA_PERIOD

WatchInv ==
  /\ Types /\ Ages /\ TroubleLasts /\ Schedule /\ TroubleIsYoung /\ SilentSoFar
  /\ BreachIsYoung

LEMMA Parameters ==
  /\ HEALTH_STALENESS \in Nat \ {0} /\ SERVE_MAX_STALENESS \in Nat \ {0}
  /\ ATTEMPTS \in Nat \ {0} /\ ALERT_PERIOD \in Nat \ {0} /\ SLA_PERIOD \in Nat \ {0}
  /\ HEALTH_STALENESS <= SERVE_MAX_STALENESS /\ ATTEMPTS < ALERT_PERIOD
BY WatchAssumption

\* A saturated counter stays a counter, and counts up to its bound.
LEMMA SaturatedCounts ==
  ASSUME NEW n \in Nat, NEW bound \in Nat
  PROVE  /\ Saturated(n, bound) \in Nat
         /\ n < bound => Saturated(n, bound) = n + 1
         /\ n >= bound => Saturated(n, bound) = bound + 1
         /\ Saturated(n, bound) <= n + 1 \/ n > bound
BY DEF Saturated

LEMMA InitWatchInv == WatchInit => WatchInv
<1> SUFFICES ASSUME WatchInit PROVE WatchInv
  OBVIOUS
<1>1. /\ up = TRUE /\ age = Never /\ offSla = [a \in Assets |-> Absent]
      /\ quiet = SERVE_MAX_STALENESS /\ trouble = 0
      /\ due \in 0 .. (IF watcher = "monitor" THEN ALERT_PERIOD ELSE SLA_PERIOD)
      /\ attempt = 0 /\ wait = 0 /\ reborn = TRUE
  BY DEF WatchInit
<1>2. due \in Nat
  BY <1>1, Parameters
<1>3. Types
  BY <1>1, <1>2, Parameters DEF Types
<1>4. Ages /\ TroubleLasts /\ SilentSoFar
  BY <1>1, Parameters DEF Ages, TroubleLasts, SilentSoFar
<1>5. Schedule /\ TroubleIsYoung
  BY <1>1, Parameters DEF Schedule, TroubleIsYoung
<1>6. BreachIsYoung
  BY <1>1, Parameters DEF BreachIsYoung, Served
<1> QED BY <1>3, <1>4, <1>5, <1>6 DEF WatchInv

\* The process ends: what it served is gone, and is nothing to report.
LEMMA ExitInv ==
  ASSUME WatchInv, Exit
  PROVE  WatchInv'
<1>1. /\ up' = FALSE /\ age' = Never /\ offSla' = [a \in Assets |-> Absent]
      /\ reborn' = TRUE
      /\ UNCHANGED <<quiet, trouble, watcher, due, attempt, wait, lost, reported>>
  BY DEF Exit, check
<1>2. Types'
  BY <1>1 DEF WatchInv, Types
<1>3. Ages' /\ TroubleLasts' /\ SilentSoFar'
  BY <1>1 DEF Ages, TroubleLasts, SilentSoFar
<1>4. Schedule' /\ TroubleIsYoung'
  BY <1>1 DEF WatchInv, Schedule, TroubleIsYoung
<1>5. BreachIsYoung'
  BY <1>1 DEF WatchInv, BreachIsYoung, Served
<1> QED BY <1>2, <1>3, <1>4, <1>5 DEF WatchInv

LEMMA RestartInv ==
  ASSUME WatchInv, Restart
  PROVE  WatchInv'
<1>1. /\ ~up /\ up' = TRUE
      /\ UNCHANGED <<age, offSla, quiet, trouble, watcher, due, attempt, wait, lost,
                     reborn, reported>>
  BY DEF Restart, check
<1>2. age = Never /\ reborn
  BY <1>1 DEF WatchInv, Ages
<1>3. Types' /\ Schedule' /\ TroubleIsYoung' /\ SilentSoFar'
  BY <1>1 DEF WatchInv, Types, Schedule, TroubleIsYoung, SilentSoFar
<1>4. Ages' /\ TroubleLasts'
  BY <1>1, <1>2 DEF Ages, TroubleLasts, Status
<1>5. BreachIsYoung'
  BY <1>1 DEF WatchInv, BreachIsYoung, Served
<1> QED BY <1>3, <1>4, <1>5 DEF WatchInv

\* Neither a ban nor a step that is none touches anything the invariant is about.
LEMMA SameWatchInv ==
  ASSUME WatchInv,
         UNCHANGED <<up, age, offSla, quiet, trouble, watcher, due, attempt, wait, lost,
                     reborn, reported>>
  PROVE  WatchInv'
<1>1. Types' /\ Schedule' /\ TroubleIsYoung' /\ SilentSoFar'
  BY DEF WatchInv, Types, Schedule, TroubleIsYoung, SilentSoFar
<1>2. Ages' /\ TroubleLasts'
  BY DEF WatchInv, Ages, TroubleLasts, Status
<1>3. BreachIsYoung'
  BY DEF WatchInv, BreachIsYoung, Served
<1> QED BY <1>1, <1>2, <1>3 DEF WatchInv

LEMMA StartCheckInv ==
  ASSUME WatchInv, StartCheck
  PROVE  WatchInv'
<1>1. /\ watcher = "monitor" /\ due = 0 /\ due' = ALERT_PERIOD
      /\ attempt' = 1 /\ wait' = 0 /\ lost' = FALSE
      /\ reborn' = (~up \/ age = Never)
      /\ UNCHANGED <<up, age, offSla, quiet, trouble, watcher, reported>>
  BY DEF StartCheck, service, machine
<1>2. Types'
  BY <1>1, Parameters DEF WatchInv, Types
<1>3. Ages' /\ TroubleLasts'
  BY <1>1 DEF WatchInv, Ages, TroubleLasts, Status
<1>4. Schedule'
  BY <1>1, Parameters DEF Schedule
<1>5. TroubleIsYoung'
  <2>1. attempt = 0
    BY <1>1, Parameters DEF WatchInv, Types, Schedule
  <2>2. "service" \notin reported => trouble <= ALERT_PERIOD
    BY <1>1, <2>1, Parameters DEF WatchInv, Types, TroubleIsYoung
  <2> QED BY <1>1, <2>2, Parameters DEF WatchInv, Types, TroubleIsYoung
<1>6. SilentSoFar'
  <2> SUFFICES ASSUME ~reborn', age > HEALTH_STALENESS
               PROVE  quiet >= HEALTH_STALENESS + 1
    BY <1>1, Parameters DEF SilentSoFar
  <2>1. age \in Nat /\ quiet >= age /\ quiet \in Nat
    BY <1>1 DEF WatchInv, Types, Ages
  <2> QED BY <2>1, Parameters
<1>7. BreachIsYoung'
  BY <1>1 DEF BreachIsYoung
<1> QED BY <1>2, <1>3, <1>4, <1>5, <1>6, <1>7 DEF WatchInv

\* What an answer tells of a service that has signed.
LEMMA AnswerMeans ==
  ASSUME WatchInv, NEW r \in Responses
  PROVE  /\ isHealthy(r) => /\ up /\ Status(age) = "ok" /\ trouble = 0
                            /\ quiet <= HEALTH_STALENESS
         /\ ~isHealthy(r) /\ r.reached /\ up /\ age # Never => age > HEALTH_STALENESS
         /\ Headline(r) = "DOWN" /\ r.reached /\ up /\ age # Never =>
              age > SERVE_MAX_STALENESS
<1>1. /\ age \in Nat \cup {Never} /\ quiet \in Nat /\ trouble \in Nat
      /\ age # Never => quiet >= age /\ (age <= SERVE_MAX_STALENESS => quiet = age)
      /\ trouble > 0 => ~(up /\ Status(age) = "ok")
  BY DEF WatchInv, Types, Ages, TroubleLasts
<1>2. CASE ~r.reached
  BY <1>2 DEF isHealthy
<1>3. CASE r.reached /\ ~up
  BY <1>3 DEF Responses, isHealthy
<1>4. CASE r.reached /\ up
  <2>1. r.http = (IF Serving THEN 200 ELSE 503) /\ r.status = Status(age)
    BY <1>4 DEF Responses
  <2>2. isHealthy(r) => Serving /\ Status(age) = "ok"
    BY <1>4, <2>1 DEF isHealthy
  <2>3. Serving /\ Status(age) = "ok" => quiet <= HEALTH_STALENESS
    BY <1>1, Parameters DEF Serving, Status
  <2>4. ~isHealthy(r) /\ age # Never => age > HEALTH_STALENESS
    BY <1>1, <1>4, <2>1, Parameters DEF isHealthy, Serving, Status
  <2>5. Headline(r) = "DOWN" /\ age # Never => age > SERVE_MAX_STALENESS
    BY <1>1, <1>4, <2>1, Parameters DEF Headline, Serving
  <2>6. isHealthy(r) => trouble = 0
    BY <1>1, <1>4, <2>2
  <2> QED BY <1>4, <2>2, <2>3, <2>4, <2>5, <2>6
<1> QED BY <1>2, <1>3, <1>4

LEMMA ProbeInv ==
  ASSUME WatchInv, Probe
  PROVE  WatchInv'
<1>1. PICK r \in Responses :
        /\ lost' = (lost \/ (up /\ ~r.reached))
        /\ IF ~isHealthy(r) /\ attempt < ATTEMPTS
           THEN /\ attempt' = attempt + 1
                /\ wait' = RetryDelay
                /\ UNCHANGED <<message, reported>>
           ELSE /\ attempt' = 0
                /\ Report(r)
                /\ UNCHANGED wait
  BY DEF Probe
<1>2. /\ attempt > 0 /\ wait = 0
      /\ UNCHANGED <<up, age, offSla, quiet, trouble, watcher, due, reborn>>
  BY DEF Probe, service, machine
<1>3. /\ attempt \in Nat /\ attempt <= ATTEMPTS /\ due \in Nat /\ trouble \in Nat
      /\ quiet \in Nat /\ age \in Nat \cup {Never}
  BY Parameters DEF WatchInv, Types
<1>4. reported \subseteq reported'
  BY <1>1 DEF Report
<1>5. Ages' /\ TroubleLasts'
  BY <1>2 DEF WatchInv, Ages, TroubleLasts, Status
<1>6. BreachIsYoung'
  BY <1>2, <1>4 DEF WatchInv, BreachIsYoung, Served
<1>7. CASE ~isHealthy(r) /\ attempt < ATTEMPTS
  <2>1. attempt' = attempt + 1 /\ wait' = 1 /\ reported' = reported
    BY <1>1, <1>7 DEF RetryDelay
  <2>2. Types'
    BY <1>2, <1>3, <1>7, <2>1, Parameters DEF WatchInv, Types
  <2>3. Schedule'
    BY <1>2, <1>3, <2>1, Parameters DEF WatchInv, Schedule
  <2>4. TroubleIsYoung'
    BY <1>2, <1>3, <2>1, Parameters DEF WatchInv, TroubleIsYoung
  <2>5. SilentSoFar'
    <3> SUFFICES ASSUME ~lost', ~reborn
                 PROVE  /\ age > HEALTH_STALENESS
                        /\ quiet >= HEALTH_STALENESS + (attempt + 1) - 1
      BY <1>2, <2>1 DEF SilentSoFar
    <3>1. ~lost /\ (up => r.reached) /\ up /\ age # Never
      BY <1>1 DEF WatchInv, Ages
    <3>2. age > HEALTH_STALENESS
      BY <1>7, <3>1, AnswerMeans
    <3>3. quiet >= HEALTH_STALENESS + attempt - 0
      BY <1>2, <3>1, <3>2 DEF WatchInv, SilentSoFar
    <3> QED BY <1>3, <3>2, <3>3, Parameters
  <2> QED BY <1>5, <1>6, <2>2, <2>3, <2>4, <2>5 DEF WatchInv
<1>8. CASE ~(~isHealthy(r) /\ attempt < ATTEMPTS)
  <2>1. attempt' = 0 /\ wait' = 0 /\ Report(r)
    BY <1>1, <1>2, <1>8
  <2>2. Types' /\ SilentSoFar'
    BY <1>2, <2>1, Parameters DEF WatchInv, Types, SilentSoFar
  <2>3. Schedule'
    BY <1>2, <2>1 DEF WatchInv, Schedule
  <2>4. TroubleIsYoung'
    <3>1. CASE isHealthy(r)
      <4>1. trouble = 0
        BY <3>1, AnswerMeans
      <4> QED BY <1>2, <1>3, <2>1, <2>3, <4>1, Parameters DEF TroubleIsYoung, Schedule
    <3>2. CASE ~isHealthy(r)
      BY <2>1, <3>2 DEF Report, TroubleIsYoung
    <3> QED BY <3>1, <3>2
  <2> QED BY <1>5, <1>6, <2>2, <2>3, <2>4 DEF WatchInv
<1> QED BY <1>7, <1>8

LEMMA SlaCheckInv ==
  ASSUME WatchInv, SlaCheck
  PROVE  WatchInv'
<1>1. /\ watcher = "sla" /\ due' = SLA_PERIOD
      /\ UNCHANGED <<up, age, offSla, quiet, trouble, watcher, attempt, wait, lost, reborn>>
  BY DEF SlaCheck, service, machine, check
<1>2. Types'
  BY <1>1, Parameters DEF WatchInv, Types
<1>3. Ages' /\ TroubleLasts' /\ SilentSoFar'
  BY <1>1 DEF WatchInv, Ages, TroubleLasts, SilentSoFar, Status
<1>4. Schedule' /\ TroubleIsYoung'
  BY <1>1 DEF Schedule, TroubleIsYoung
<1>5. BreachIsYoung'
  <2> SUFFICES ASSUME NEW a \in Assets, a \in Served, a \notin reported'
               PROVE  offSla[a] + SLA_PERIOD <= SLA_PERIOD
    BY <1>1, Parameters DEF BreachIsYoung, Served
  <2>1. a \notin Breaches
    BY DEF SlaCheck
  <2>2. offSla[a] \in Nat /\ ~(offSla[a] > 0)
    BY <2>1 DEF Breaches, Served, OffSla, WatchInv, Types
  <2> QED BY <2>2, Parameters
<1> QED BY <1>2, <1>3, <1>4, <1>5 DEF WatchInv

\* A tick ages what it does not renew.
LEMMA TickAges ==
  ASSUME WatchInv, Tick
  PROVE  /\ age' \in Nat \cup {Never} /\ quiet' \in Nat /\ trouble' \in Nat
         /\ Ages'
         /\ TroubleLasts'
         /\ trouble' = 0 \/ (trouble' <= trouble + 1 /\ ~(up /\ Status(age') = "ok"))
<1>1. /\ age \in Nat \cup {Never} /\ quiet \in Nat /\ trouble \in Nat
      /\ age # Never => /\ up /\ quiet >= age
                        /\ age <= SERVE_MAX_STALENESS => quiet = age
      /\ ~reborn => up /\ age # Never
  BY DEF WatchInv, Types, Ages
<1>2. up' = up /\ reborn' = reborn /\ 0 # Never
  BY WatchAssumption DEF Tick
<1>3. /\ age' \in Nat \cup {Never} /\ quiet' \in Nat /\ Ages'
  <2>1. CASE up /\ ~cutOff
    <3>1. age' = 0 /\ quiet' = 0
      BY <2>1 DEF Tick
    <3> QED BY <1>2, <2>1, <3>1 DEF Ages
  <2>2. CASE ~(up /\ ~cutOff)
    <3>1. /\ age' = IF age = Never THEN Never ELSE Saturated(age, SERVE_MAX_STALENESS)
          /\ quiet' = Saturated(quiet, SERVE_MAX_STALENESS + ATTEMPTS)
      BY <2>2 DEF Tick
    <3>2. SERVE_MAX_STALENESS + ATTEMPTS \in Nat /\ SERVE_MAX_STALENESS \in Nat
      BY Parameters
    <3>3. quiet' \in Nat
      BY <1>1, <3>1, <3>2, SaturatedCounts
    <3>4. CASE age = Never
      BY <1>1, <1>2, <3>1, <3>3, <3>4 DEF Ages
    <3>5. CASE age # Never
      <4>1. age' \in Nat /\ age' # Never
        BY <1>1, <3>1, <3>2, <3>5, SaturatedCounts, WatchAssumption
      <4>2. quiet' >= age' /\ (age' <= SERVE_MAX_STALENESS => quiet' = age')
        BY <1>1, <3>1, <3>2, <3>5, Parameters DEF Saturated
      <4> QED BY <1>1, <1>2, <3>3, <3>5, <4>1, <4>2 DEF Ages
    <3> QED BY <3>4, <3>5
  <2> QED BY <2>1, <2>2
<1>4. /\ trouble' \in Nat
      /\ trouble' = 0 \/ (trouble' <= trouble + 1 /\ ~(up /\ Status(age') = "ok"))
  <2>1. trouble' = IF up /\ Status(age') = "ok" THEN 0
                   ELSE Saturated(trouble, ALERT_PERIOD + ATTEMPTS)
    BY <1>2 DEF Tick
  <2> HIDE DEF Status
  <2>2. CASE up /\ Status(age') = "ok"
    BY <2>1, <2>2
  <2>3. CASE ~(up /\ Status(age') = "ok")
    <3>1. trouble' = Saturated(trouble, ALERT_PERIOD + ATTEMPTS)
      BY <2>1, <2>3
    <3>2. trouble' \in Nat
      BY <1>1, <3>1, Parameters DEF Saturated
    <3>3. trouble' <= trouble + 1 \/ trouble > ALERT_PERIOD + ATTEMPTS
      BY <1>1, <3>1, Parameters DEF Saturated
    <3>4. trouble > ALERT_PERIOD + ATTEMPTS => trouble' <= trouble
      BY <1>1, <3>1, Parameters DEF Saturated
    <3> QED BY <1>1, <2>3, <3>2, <3>3, <3>4
  <2> QED BY <2>2, <2>3
<1>5. TroubleLasts'
  <2>1. Status(age)' = Status(age')
    BY DEF Status
  <2> QED BY <1>2, <1>4, <2>1 DEF TroubleLasts
<1> QED BY <1>3, <1>4, <1>5

\* A served asset grows one tick older, or begins to break the SLA, or does not.
LEMMA OffSlaTick ==
  ASSUME WatchInv, Tick, NEW a \in Assets
  PROVE  /\ offSla' \in [Assets -> Nat \cup {Absent}]
         /\ offSla'[a] # Absent =>
              \/ offSla'[a] = 0
              \/ offSla[a] = Absent /\ offSla'[a] = 1
              \/ offSla[a] # Absent /\ offSla'[a] = Saturated(offSla[a], SLA_PERIOD)
<1>1. PICK supply \in [quoted : SUBSET Assets, ample : SUBSET Assets] :
        offSla' = OffSlaAfter(supply)
  <2>1. CASE up /\ ~cutOff
    <3>1. PICK supply \in Supplies : offSla' = OffSlaAfter(supply)
      BY <2>1 DEF Tick
    <3>2. supply \in [quoted : SUBSET Assets, ample : SUBSET Assets]
      BY DEF Supplies
    <3> QED BY <3>1, <3>2
  <2>2. CASE ~(up /\ ~cutOff)
    BY <2>2 DEF Tick
  <2> QED BY <2>1, <2>2
<1>2. \A b \in Assets : offSla[b] \in Nat \cup {Absent}
  BY DEF WatchInv, Types
<1>3. \A n \in Nat : Saturated(n, SLA_PERIOD) \in Nat
  BY SaturatedCounts, Parameters
<1> QED BY <1>1, <1>2, <1>3 DEF OffSlaAfter

\* What counts up by one while its allowance counts down stays within the bound.
LEMMA OneMoreOneLess ==
  ASSUME NEW m \in Nat, NEW n \in Nat, NEW d \in Int, NEW e \in Int, NEW bound \in Int,
         m <= n + 1, e = d - 1, n + d <= bound
  PROVE  m + e <= bound
OBVIOUS

LEMMA TickInv ==
  ASSUME WatchInv, Tick
  PROVE  WatchInv'
<1>1. /\ due > 0 /\ (attempt > 0 => wait > 0) /\ due' = due - 1
      /\ wait' = IF wait > 0 THEN wait - 1 ELSE 0
      /\ UNCHANGED <<watcher, attempt, lost, reborn, up>>
  BY DEF Tick, NothingDue
<1>2. /\ due \in Nat /\ attempt \in Nat /\ attempt <= ATTEMPTS /\ wait \in {0, 1}
      /\ trouble \in Nat
  BY Parameters DEF WatchInv, Types
<1>3. /\ due' \in Nat /\ wait' = 0
  BY <1>1, <1>2
<1>4. /\ age' \in Nat \cup {Never} /\ quiet' \in Nat /\ trouble' \in Nat
      /\ Ages' /\ TroubleLasts'
      /\ trouble' = 0 \/ (trouble' <= trouble + 1 /\ ~(up /\ Status(age') = "ok"))
  BY TickAges
<1>5. offSla' \in [Assets -> Nat \cup {Absent}]
  <2>1. CASE Assets = {}
    BY <2>1 DEF Tick, OffSlaAfter
  <2>2. CASE Assets # {}
    BY <2>2, OffSlaTick
  <2> QED BY <2>1, <2>2
<1>6. Types'
  BY <1>1, <1>3, <1>4, <1>5 DEF WatchInv, Types
<1>7. Schedule'
  BY <1>1, <1>2, <1>3, Parameters DEF WatchInv, Schedule
<1>8. reported' = reported \ ((IF up' /\ Status(age') = "ok" THEN {"service"} ELSE {})
                              \cup {a \in Assets : offSla'[a] = 0})
  BY <1>1 DEF Tick
<1>9. TroubleIsYoung'
  <2> SUFFICES ASSUME watcher = "monitor", "service" \notin reported'
               PROVE  IF attempt = 0 THEN trouble' + due' <= ALERT_PERIOD
                                     ELSE trouble' + 0 <= ALERT_PERIOD + attempt - 1
    BY <1>1, <1>3 DEF TroubleIsYoung
  <2>1. CASE trouble' = 0
    BY <1>1, <1>2, <1>3, <2>1, Parameters DEF WatchInv, Schedule
  <2>2. CASE trouble' <= trouble + 1 /\ ~(up /\ Status(age') = "ok")
    <3>1. "service" \notin reported
      BY <1>1, <1>8, <2>2, WatchAssumption
    <3>2. IF attempt = 0 THEN trouble + due <= ALERT_PERIOD
                         ELSE trouble + wait <= ALERT_PERIOD + attempt - 1
      BY <3>1 DEF WatchInv, TroubleIsYoung
    <3>3. trouble' \in Nat /\ trouble' <= trouble + 1
      BY <1>4, <2>2
    <3>4. CASE attempt = 0
      <4>1. trouble + due <= ALERT_PERIOD
        BY <3>2, <3>4
      <4>2. due \in Int /\ due' \in Int /\ due' = due - 1 /\ ALERT_PERIOD \in Int
        BY <1>1, <1>2, Parameters
      <4>3. trouble' + due' <= ALERT_PERIOD
        BY <1>2, <3>3, <4>1, <4>2, OneMoreOneLess
      <4> QED BY <3>4, <4>3
    <3>5. CASE attempt # 0
      <4>1. wait = 1 /\ trouble + wait <= ALERT_PERIOD + attempt - 1
        BY <1>1, <1>2, <3>2, <3>5
      <4>2. /\ wait \in Int /\ 0 \in Int /\ 0 = wait - 1
            /\ ALERT_PERIOD + attempt - 1 \in Int
        BY <1>2, <4>1, Parameters
      <4>3. trouble' + 0 <= ALERT_PERIOD + attempt - 1
        BY <1>2, <3>3, <4>1, <4>2, OneMoreOneLess
      <4> QED BY <3>5, <4>3
    <3> QED BY <3>4, <3>5
  <2> QED BY <1>4, <2>1, <2>2
<1>10. SilentSoFar'
  <2> SUFFICES ASSUME attempt > 0, ~lost, ~reborn, age' > HEALTH_STALENESS
               PROVE  quiet' >= HEALTH_STALENESS + attempt - 0
    BY <1>1, <1>3 DEF SilentSoFar
  <2>1. wait = 1 /\ age > HEALTH_STALENESS
    BY <1>1, <1>2 DEF WatchInv, SilentSoFar
  <2>2. quiet >= HEALTH_STALENESS + attempt - 1 /\ quiet \in Nat
    BY <2>1 DEF WatchInv, SilentSoFar, Types
  <2>3. ~(up /\ ~cutOff)
    <3> SUFFICES ASSUME up /\ ~cutOff PROVE FALSE
      OBVIOUS
    <3>1. age' = 0
      BY DEF Tick
    <3> QED BY <3>1, Parameters
  <2>4. quiet' = Saturated(quiet, SERVE_MAX_STALENESS + ATTEMPTS)
    BY <2>3 DEF Tick
  <2> QED BY <1>2, <2>2, <2>4, Parameters DEF Saturated
<1>11. BreachIsYoung'
  <2> SUFFICES ASSUME watcher = "sla"
               PROVE  /\ due' <= SLA_PERIOD
                      /\ \A a \in Assets : offSla'[a] # Absent /\ a \notin reported' =>
                           offSla'[a] + due' <= SLA_PERIOD
    BY <1>1 DEF BreachIsYoung, Served
  <2>1. due <= SLA_PERIOD /\ due' <= SLA_PERIOD
    BY <1>1, <1>2, Parameters DEF WatchInv, BreachIsYoung
  <2>2. ASSUME NEW a \in Assets, offSla'[a] # Absent, a \notin reported'
        PROVE  offSla'[a] + due' <= SLA_PERIOD
    <3>1. CASE offSla'[a] = 0
      BY <1>3, <2>1, <3>1
    <3>2. CASE offSla[a] = Absent /\ offSla'[a] = 1
      BY <1>1, <1>2, <2>1, <3>2, Parameters
    <3>3. CASE /\ offSla'[a] # 0 /\ offSla[a] # Absent
               /\ offSla'[a] = Saturated(offSla[a], SLA_PERIOD)
      <4>1. a \notin reported
        BY <1>8, <2>2, <3>3, WatchAssumption
      <4>2. offSla[a] \in Nat /\ offSla[a] + due <= SLA_PERIOD
        BY <3>3, <4>1 DEF WatchInv, Types, BreachIsYoung, Served
      <4> QED BY <1>1, <1>2, <3>3, <4>2, Parameters DEF Saturated
    <3> QED BY <2>2, <3>1, <3>2, <3>3, OffSlaTick
  <2> QED BY <2>1, <2>2
<1> QED BY <1>4, <1>6, <1>7, <1>9, <1>10, <1>11 DEF WatchInv

LEMMA NextWatchInv == WatchInv /\ [WatchNext]_watchVars => WatchInv'
<1> SUFFICES ASSUME WatchInv, [WatchNext]_watchVars PROVE WatchInv'
  OBVIOUS
<1>1. CASE Watchdog \/ Crash
  BY <1>1, ExitInv DEF Watchdog, Crash
<1>2. CASE Ban
  BY <1>2, SameWatchInv DEF Ban, check
<1>3. CASE UNCHANGED watchVars
  BY <1>3, SameWatchInv DEF watchVars, service, machine, check
<1> QED BY <1>1, <1>2, <1>3, RestartInv, StartCheckInv, ProbeInv, SlaCheckInv, TickInv
        DEF WatchNext

LEMMA WatchInvAlways == WatchSpec => []WatchInv
BY InitWatchInv, NextWatchInv, PTL DEF WatchSpec

-----------------------------------------------------------------------------
\* What follows.

\* However the process dies, hangs, is banned or restarts without being ok in
\* between, and whatever probes are lost, trouble is reported within one period of
\* the monitor's schedule and the retries.
THEOREM TroubleIsReported == WatchSpec => []AlertInTime
<1>1. WatchInv => AlertInTime
  <2> SUFFICES ASSUME WatchInv, watcher = "monitor", "service" \notin reported
               PROVE  ~(trouble > ALERT_PERIOD + (ATTEMPTS - 1) * 1)
    BY DEF AlertInTime, RetryDelay
  <2>1. /\ due \in Nat /\ attempt \in Nat /\ attempt <= ATTEMPTS /\ wait \in {0, 1}
        /\ trouble \in Nat
        /\ IF attempt = 0 THEN trouble + due <= ALERT_PERIOD
                          ELSE trouble + wait <= ALERT_PERIOD + attempt - 1
    BY Parameters DEF WatchInv, Types, TroubleIsYoung
  <2> QED BY <2>1, Parameters
<1> QED BY <1>1, WatchInvAlways, PTL

\* An asset that is served but has fallen behind, or rests on too few venues, is
\* reported within one period of the SLA check.
THEOREM BreachIsReported == WatchSpec => []AssetOffSlaIsReported
<1>1. WatchInv => AssetOffSlaIsReported
  <2> SUFFICES ASSUME WatchInv, watcher = "sla", NEW a \in Assets, a \in Served,
                      a \notin reported
               PROVE  ~(offSla[a] > SLA_PERIOD)
    BY DEF AssetOffSlaIsReported
  <2>1. /\ due \in Nat /\ offSla[a] \in Nat
        /\ offSla[a] + due <= SLA_PERIOD
    BY DEF WatchInv, Types, BreachIsYoung, Served
  <2> QED BY <2>1, Parameters
<1> QED BY <1>1, WatchInvAlways, PTL

\* When no probe of the check was lost and the process, having signed, did not end
\* during it, an alert means that the service had been silent since before the first
\* probe, and "DOWN" that it was past SERVE_MAX_STALENESS; no digest calls a silent
\* service healthy.
THEOREM AlertsAreTrue == WatchSpec => MessagesAreTrue
<1> DEFINE Step == message' # message =>
       /\ message' = "healthy" => quiet <= HEALTH_STALENESS
       /\ message' \in {"degraded", "DOWN"} /\ ~lost' /\ ~reborn =>
            /\ quiet > HEALTH_STALENESS + ATTEMPTS - 1
            /\ message' = "DOWN" => quiet > SERVE_MAX_STALENESS
<1>1. WatchInv /\ [WatchNext]_watchVars => Step
  <2> SUFFICES ASSUME WatchInv, [WatchNext]_watchVars, message' # message
               PROVE  /\ message' = "healthy" => quiet <= HEALTH_STALENESS
                      /\ message' \in {"degraded", "DOWN"} /\ ~lost' /\ ~reborn =>
                           /\ quiet > HEALTH_STALENESS + ATTEMPTS - 1
                           /\ message' = "DOWN" => quiet > SERVE_MAX_STALENESS
    OBVIOUS
  <2>1. CASE StartCheck
    BY <2>1 DEF StartCheck
  <2>2. CASE Probe
    <3>1. PICK r \in Responses :
            /\ lost' = (lost \/ (up /\ ~r.reached))
            /\ IF ~isHealthy(r) /\ attempt < ATTEMPTS
               THEN UNCHANGED message
               ELSE Report(r)
      BY <2>2 DEF Probe
    <3>2. Report(r) /\ ~(~isHealthy(r) /\ attempt < ATTEMPTS)
      BY <3>1
    <3>3. attempt > 0 /\ wait = 0
      BY <2>2 DEF Probe
    <3>4. /\ attempt \in Nat /\ attempt <= ATTEMPTS
          /\ quiet \in Nat /\ age \in Nat \cup {Never}
          /\ age # Never => quiet >= age
      BY Parameters DEF WatchInv, Types, Ages
    <3>5. message' = "healthy" => quiet <= HEALTH_STALENESS
      <4>1. CASE isHealthy(r)
        BY <4>1, AnswerMeans
      <4>2. CASE ~isHealthy(r)
        BY <3>2, <4>2 DEF Report, Headline
      <4> QED BY <4>1, <4>2
    <3>6. ASSUME message' \in {"degraded", "DOWN"}, ~lost', ~reborn
          PROVE  /\ quiet > HEALTH_STALENESS + ATTEMPTS - 1
                 /\ message' = "DOWN" => quiet > SERVE_MAX_STALENESS
      <4>1. ~isHealthy(r) /\ message' = Headline(r)
        BY <3>2, <3>6 DEF Report
      <4>2. attempt = ATTEMPTS
        BY <3>2, <3>4, <4>1, Parameters
      <4>3. ~lost /\ r.reached /\ up /\ age # Never
        BY <3>1, <3>6 DEF WatchInv, Ages
      <4>4. age > HEALTH_STALENESS
        BY <4>1, <4>3, AnswerMeans
      <4>5. quiet >= HEALTH_STALENESS + attempt - 0
        BY <3>3, <3>6, <4>3, <4>4 DEF WatchInv, SilentSoFar
      <4>6. message' = "DOWN" => age > SERVE_MAX_STALENESS
        BY <4>1, <4>3, AnswerMeans
      <4> QED BY <3>4, <4>2, <4>3, <4>5, <4>6, Parameters
    <3> QED BY <3>5, <3>6
  <2>3. CASE Watchdog \/ Crash \/ Restart \/ Ban \/ SlaCheck \/ Tick
    BY <2>3 DEF Watchdog, Crash, Exit, Restart, Ban, SlaCheck, Tick, check
  <2>4. CASE UNCHANGED watchVars
    BY <2>4 DEF watchVars, check
  <2> QED BY <2>1, <2>2, <2>3, <2>4 DEF WatchNext
<1>2. WatchSpec => [][Step]_watchVars
  BY <1>1, WatchInvAlways, PTL DEF WatchSpec
<1> QED BY <1>2, PTL DEF MessagesAreTrue
=============================================================================
