SPECIFICATION Spec
CONSTANTS
  Assets = {a}
  Keys = {k1, k2, k3, kx}
  a = a
  b = b
  k1 = k1
  k2 = k2
  k3 = k3
  kx = kx
  NoEntry = NoEntry
  STALENESS_SECS = 2
  FUTURE_SKEW_SECS = 1
  MAX_PRICE = 8
  TEMP_THRESHOLD = 3
  TEMP_EXTEND = 5
  NewTempTtl = 1
  U64Max = 1000
  RING_CAP = 2
  I128Max = 16
  Records <- MCRecords
  NoValue = NoValue
  Signatures <- QuorumSignatures
  BatchCalls <- QuorumBatches
  QuorumCalls <- MCQuorumCalls
  PublisherLists <- QuorumLists
  QuorumArgs <- MCQuorumArgs
  MaxGap = 2
  MaxTime = 4
INVARIANTS
  RingMatchesLatest
  PagesAgreeWithLatest
  TwapDefinedAndBetween
PROPERTIES
  MinorityCannotMovePrice
  PersistentPriceBacked
