SPECIFICATION CallSpec
CONSTANTS
  Assets = {a, b}
  Keys = {k1, k2, kx}
  a = a
  b = b
  k1 = k1
  k2 = k2
  k3 = k3
  kx = kx
  NoEntry = NoEntry
  STALENESS_SECS = 1
  FUTURE_SKEW_SECS = 1
  MAX_PRICE = 8
  TEMP_THRESHOLD = 2
  TEMP_EXTEND = 3
  NewTempTtl = 1
  U64Max = 1000
  RING_CAP = 2
  Signatures <- CallSignatures
  BatchCalls <- CallBatches
  QuorumCalls <- CallQuorums
  PublisherLists <- CallLists
  QuorumArgs <- CallQuorumArgs
  MaxGap = 1
  MaxTime = 2
  Idle = Idle
INVARIANTS
  ReturnsFirstError
PROPERTY
  ImplementsOracle
