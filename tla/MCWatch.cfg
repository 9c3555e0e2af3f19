SPECIFICATION WatchSpec
CONSTANTS
  x = x
  y = y
  Assets = {x, y}
  HEALTH_STALENESS = 1
  WATCHDOG_GRACE = 3
  SERVE_MAX_STALENESS = 6
  MAX_RETRIES = 3
  ATTEMPTS = 3
  ALERT_PERIOD = 9
  SLA_PERIOD = 12
  Never = Never
  Absent = Absent
INVARIANTS
  AlertInTime
  AssetOffSlaIsReported
PROPERTIES
  MessagesAreTrue
  SelfHeals
