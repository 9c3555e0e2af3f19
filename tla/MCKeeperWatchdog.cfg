SPECIFICATION Spec
CONSTANTS
  x = x
  y = y
  v1 = v1
  v2 = v2
  Assets = {x}
  Venues = {v1}
  Lists <- MCLists
  Weight <- MCWeight
  Quotes = {1}
  Fallback = {}
  Strict = {}
  NoSample = NoSample
  NoPrice = NoPrice
  NoAttestation = NoAttestation
  SECOND = 4
  POLL_INTERVAL_MS = 2
  ROUND_WINDOW_MS = 2
  FETCH_TIMEOUT_MS = 3
  STALENESS_MS = 4
  OUTLIER_STDDEV = 3
  SERVE_MAX_STALENESS_S = 1
  WATCHDOG_GRACE_MS = 6
  WATCHDOG_PERIOD_MS = 4
  MaxTime = 16
INVARIANTS
  StallEndsTheProcess
