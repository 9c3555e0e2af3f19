SPECIFICATION Spec
CONSTANTS
  x = x
  y = y
  v1 = v1
  v2 = v2
  Assets = {x, y}
  Venues = {v1, v2}
  Lists <- MCLists
  Weight <- MCWeight
  Quotes = {1}
  Fallback = {v1}
  Strict = {v2}
  NoSample = NoSample
  NoPrice = NoPrice
  NoAttestation = NoAttestation
  SECOND = 4
  POLL_INTERVAL_MS = 2
  ROUND_WINDOW_MS = 2
  FETCH_TIMEOUT_MS = 3
  STALENESS_MS = 4
  OUTLIER_STDDEV = 3
  SERVE_MAX_STALENESS_S = 1
  WATCHDOG_GRACE_MS = 4
  WATCHDOG_PERIOD_MS = 3
  MaxTime = 6
INVARIANTS
  TypeOK
  SigningIsCoherent
  QuotesAreSignedInTime
PROPERTIES
  SignedFromFreshQuotes
  ServiceSpec
