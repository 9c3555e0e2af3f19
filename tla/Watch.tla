-------------------------------- MODULE Watch --------------------------------
(***************************************************************************)
(* Who notices when the service fails, and what brings it back: the        *)
(* keeper's watchdog and the host's restarts (scripts/keeper/index.mjs,    *)
(* fly.toml), the monitor of /health (scripts/keeper-monitor.mjs) and the  *)
(* check of the served prices (scripts/sla_check.mjs), both run by a       *)
(* schedule outside the host.                                              *)
(*                                                                         *)
(* A tick is RETRY_DELAY_MS, ten seconds: a keeper whose venues answer     *)
(* signs several times in each, the watchdog looks twice, and a probe or a *)
(* Telegram message ends, by its timeout at the latest, in the tick it is  *)
(* sent.  Ages are counted in ticks instead of reading a clock.            *)
(*                                                                         *)
(* The two watchers read and do not touch the service or each other, so a  *)
(* behaviour is watched by one of them.                                    *)
(***************************************************************************)
EXTENDS Integers, FiniteSets, FiniteSetsExt

CONSTANTS
  Assets,
  HEALTH_STALENESS, SERVE_MAX_STALENESS, WATCHDOG_GRACE,   \* ticks
  MAX_RETRIES,            \* fly.toml: restarts after a failure
  ATTEMPTS,               \* probes of one check
  ALERT_PERIOD,           \* the monitor's schedule, in ticks
  SLA_PERIOD,             \* the SLA check's schedule, in ticks
  Never, Absent

ASSUME WatchAssumption ==
  /\ {HEALTH_STALENESS, SERVE_MAX_STALENESS, WATCHDOG_GRACE, MAX_RETRIES,
      ATTEMPTS, ALERT_PERIOD, SLA_PERIOD} \subseteq Nat \ {0}
  /\ HEALTH_STALENESS <= SERVE_MAX_STALENESS
  /\ ATTEMPTS < ALERT_PERIOD
  /\ Never \notin Nat /\ Absent \notin Nat
  /\ "service" \notin Assets   \* reported holds both

VARIABLES
  up, uptime,    \* the process, and for how long it has run (up to the grace)
  cutOff,        \* the venues do not answer this machine: a ban of its address
  restarts,      \* restarts the host has granted
  age,           \* age of the freshest attestation served, or Never
  offSla,        \* for how long each served asset has broken the SLA, or Absent
  quiet,         \* ticks since the service last signed anything
  trouble,       \* ticks since /health was last ok
  watcher,       \* "monitor" or "sla"
  due,           \* ticks to the next scheduled run
  attempt, wait, \* the probe the monitor makes next (0: none), ticks until then
  lost, reborn,  \* since this check began a probe was lost; the process had
                 \* not signed or ended
  heartbeat,     \* this check is the daily or a manual one
  message,       \* headline of the message it sent
  reported       \* what has been reported since it last was all right

machine == <<up, uptime, cutOff, restarts>>
service == <<machine, age, offSla, quiet, trouble>>
check   == <<attempt, wait, lost, heartbeat, message>>
watchVars == <<service, watcher, due, check, reborn, reported>>

\* Bounds: a counter stops one past the largest value anything compares it with.
Saturated(n, bound) == IF n < bound THEN n + 1 ELSE bound + 1

-----------------------------------------------------------------------------
\* The service.

Serving == up /\ age # Never /\ age <= SERVE_MAX_STALENESS

\* GET /health at age x.
Status(x) == IF x = Never                     THEN "stalled"
             ELSE IF x <= HEALTH_STALENESS    THEN "ok"
             ELSE IF x <= SERVE_MAX_STALENESS THEN "degraded"
             ELSE "stalled"

\* Fault: the watchdog waits for a first signature.
StalledSinceSigning == age # Never /\ age > SERVE_MAX_STALENESS

Stalled == age # Never => age > SERVE_MAX_STALENESS

WatchdogDue == up /\ uptime >= WATCHDOG_GRACE /\ Stalled

\* The process ends with an exit code the host restarts on; what it served is gone.
Exit ==
  /\ up
  /\ up' = FALSE
  /\ uptime' = 0
  /\ age' = Never
  /\ offSla' = [a \in Assets |-> Absent]
  /\ reborn' = TRUE
  /\ UNCHANGED <<cutOff, restarts, quiet, trouble, watcher, due, check, reported>>

Watchdog == WatchdogDue /\ Exit

\* A crash guard: uncaughtException or unhandledRejection, at any time.
Crash == Exit

\* A new machine, with a fresh address.
Restart ==
  /\ ~up
  /\ restarts < MAX_RETRIES
  /\ up' = TRUE
  /\ restarts' = restarts + 1
  /\ cutOff' = FALSE
  /\ UNCHANGED <<uptime, age, offSla, quiet, trouble, watcher, due, check, reborn, reported>>

\* The venues ban the machine's address, or let it back in.
Ban ==
  /\ up
  /\ cutOff' = ~cutOff
  /\ UNCHANGED <<up, uptime, restarts, age, offSla, quiet, trouble, watcher, due,
                 check, reborn, reported>>

-----------------------------------------------------------------------------
\* The monitor.

\* What one probe of /health may return.  Of a process that is down, the host's
\* proxy may answer instead; a request may also be lost on the way.
Responses ==
  {[reached |-> FALSE, http |-> 0, status |-> "none"]}
  \cup IF up THEN {[reached |-> TRUE, http |-> IF Serving THEN 200 ELSE 503,
                    status |-> Status(age)]}
             ELSE {[reached |-> TRUE, http |-> 502, status |-> "none"]}

\* Fault: a probe that does not get through is taken for a network blip.
HealthyOrUnreachable(r) == r.reached => r.http = 200 /\ r.status = "ok"

isHealthy(r) == r.reached /\ r.http = 200 /\ r.status = "ok"

\* Fault: the next probe follows at once.
NoDelay == 0

RetryDelay == 1

Headline(r) == IF r.reached /\ r.http = 200 THEN "degraded" ELSE "DOWN"

StartCheck ==
  /\ watcher = "monitor" /\ due = 0
  /\ due' = ALERT_PERIOD
  /\ attempt' = 1 /\ wait' = 0
  /\ lost' = FALSE
  /\ reborn' = (~up \/ age = Never)
  /\ heartbeat' \in BOOLEAN
  /\ message' = "none"
  /\ UNCHANGED <<service, watcher, reported>>

\* run(), with the result of the last probe.  A message Telegram does not take fails
\* the scheduled run instead, which its owner is told of as well.
Report(r) ==
  IF isHealthy(r)
  THEN /\ message' = IF heartbeat THEN "healthy" ELSE "none"
       /\ UNCHANGED reported
  ELSE /\ message' = Headline(r)
       /\ reported' = reported \cup {"service"}

\* One turn of checkHealth's loop.
Probe ==
  /\ attempt > 0 /\ wait = 0
  /\ \E r \in Responses :
       /\ lost' = (lost \/ (up /\ ~r.reached))
       /\ IF ~isHealthy(r) /\ attempt < ATTEMPTS
          THEN /\ attempt' = attempt + 1
               /\ wait' = RetryDelay
               /\ UNCHANGED <<message, reported>>
          ELSE /\ attempt' = 0
               /\ Report(r)
               /\ UNCHANGED wait
  /\ UNCHANGED <<service, watcher, due, heartbeat, reborn>>

-----------------------------------------------------------------------------
\* The SLA check.

\* The assets in the response of /v1/latest.
Served == {a \in Assets : offSla[a] # Absent}

\* checkAsset: too old, or from too few sources.
OffSla(a) == offSla[a] > 0

\* Fault: only the freshest asset is looked at, as /health does.
BreachOfFreshest == IF \E a \in Served : ~OffSla(a) THEN {} ELSE Assets

\* All of them if nothing is served.
Breaches == IF Served = {} THEN Assets ELSE {a \in Served : OffSla(a)}

\* One request; if it fails, the run reports the service unreachable.
SlaCheck ==
  /\ watcher = "sla" /\ due = 0
  /\ due' = SLA_PERIOD
  /\ \E found \in {Assets} \cup (IF up THEN {Breaches} ELSE {}) :
       reported' = reported \cup found
  /\ UNCHANGED <<service, watcher, check, reborn>>

-----------------------------------------------------------------------------
\* Time.

\* Which assets the venues quote in a tick, and which from enough sources.  Only the
\* SLA check can tell the assets apart.
Supplies ==
  IF watcher = "sla"
  THEN {s \in [quoted : SUBSET Assets \ {{}}, ample : SUBSET Assets] : s.ample \subseteq s.quoted}
  ELSE {[quoted |-> Assets, ample |-> Assets]}

NothingDue == ~WatchdogDue /\ due > 0 /\ (attempt > 0 => wait > 0)

\* An asset not quoted keeps its attestation, which grows old.
OffSlaAfter(supply) ==
  [a \in Assets |->
     IF a \in supply.ample THEN 0
     ELSE IF a \in supply.quoted
     THEN IF offSla[a] = Absent THEN 1 ELSE Saturated(offSla[a], SLA_PERIOD)
     ELSE IF offSla[a] = Absent THEN Absent ELSE Saturated(offSla[a], SLA_PERIOD)]

Tick ==
  /\ NothingDue
  /\ due' = due - 1
  /\ wait' = IF wait > 0 THEN wait - 1 ELSE 0
  /\ uptime' = IF up /\ uptime < WATCHDOG_GRACE THEN uptime + 1 ELSE uptime
  /\ IF up /\ ~cutOff
     THEN /\ age' = 0
          /\ quiet' = 0
          /\ \E supply \in Supplies : offSla' = OffSlaAfter(supply)
     ELSE /\ age' = IF age = Never THEN Never ELSE Saturated(age, SERVE_MAX_STALENESS)
          /\ quiet' = Saturated(quiet, SERVE_MAX_STALENESS + ATTEMPTS)
          /\ offSla' = OffSlaAfter([quoted |-> {}, ample |-> {}])
  /\ LET ok == up /\ Status(age') = "ok" IN
     /\ trouble' = IF ok THEN 0 ELSE Saturated(trouble, ALERT_PERIOD + ATTEMPTS)
     /\ reported' = reported \ ((IF ok THEN {"service"} ELSE {})
                                \cup {a \in Assets : offSla'[a] = 0})
  /\ UNCHANGED <<up, cutOff, restarts, watcher, attempt, lost, reborn, heartbeat, message>>

WatchInit ==
  /\ up = TRUE /\ uptime = 0 /\ cutOff = FALSE /\ restarts = 0
  /\ age = Never
  /\ offSla = [a \in Assets |-> Absent]
  /\ quiet = SERVE_MAX_STALENESS /\ trouble = 0
  /\ watcher \in {"monitor", "sla"}
  /\ due \in 0 .. (IF watcher = "monitor" THEN ALERT_PERIOD ELSE SLA_PERIOD)
  /\ attempt = 0 /\ wait = 0
  /\ lost = FALSE /\ reborn = TRUE
  /\ heartbeat = FALSE /\ message = "none" /\ reported = {}

WatchNext ==
  \/ Watchdog \/ Crash \/ Restart \/ Ban
  \/ StartCheck \/ Probe \/ SlaCheck
  \/ Tick

\* Timers fire and the host restarts what it has promised to; venues and the network
\* owe nothing.
WatchSpec ==
  WatchInit /\ [][WatchNext]_watchVars
  /\ WF_watchVars(Tick) /\ WF_watchVars(Watchdog) /\ WF_watchVars(Restart)
  /\ WF_watchVars(StartCheck) /\ WF_watchVars(Probe) /\ WF_watchVars(SlaCheck)

-----------------------------------------------------------------------------
\* What the watching is worth.

\* Trouble that lasts is reported: however the process dies, hangs, is banned or
\* restarts without ever being ok in between, and whatever probes are lost, the
\* monitor has alerted after one period of its schedule and the retries.
AlertInTime ==
  watcher = "monitor" /\ trouble > ALERT_PERIOD + (ATTEMPTS - 1) * RetryDelay =>
    "service" \in reported

\* keeper-monitor.mjs, "a single network blip never cries wolf": when no probe of the
\* check was lost and the process, having signed, did not end during it, an alert
\* means that the service had been silent since before the first probe, and "DOWN"
\* that it was past SERVE_MAX_STALENESS.  A keeper that signs between two probes
\* raises no alarm, and no digest calls a silent one healthy.
MessagesAreTrue ==
  [][message' # message =>
       /\ message' = "healthy" => quiet <= HEALTH_STALENESS
       /\ message' \in {"degraded", "DOWN"} /\ ~lost' /\ ~reborn =>
            /\ quiet > HEALTH_STALENESS + ATTEMPTS - 1
            /\ message' = "DOWN" => quiet > SERVE_MAX_STALENESS]_watchVars

\* An asset that is served but has fallen behind, or rests on too few venues, is
\* reported within one period of the SLA check, also while every other asset is
\* fresh and /health says ok.
AssetOffSlaIsReported ==
  watcher = "sla" =>
    \A a \in Assets :
      a \in Served /\ offSla[a] > SLA_PERIOD => a \in reported

\* index.mjs and fly.toml: a keeper that cannot sign ends itself and comes back on a
\* fresh address.  Whenever the service does not serve it will again, unless the
\* host's restarts are used up.
SelfHeals == ~Serving ~> (Serving \/ (~up /\ restarts = MAX_RETRIES))
=============================================================================
