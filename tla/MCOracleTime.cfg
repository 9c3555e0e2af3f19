SPECIFICATION Spec
CONSTANTS
  Assets = {a, b}
  Keys = {k1, kx}
  a = a
  b = b
  k1 = k1
  k2 = k2
  k3 = k3
  kx = kx
  NoEntry = NoEntry
  STALENESS_SECS = 2
  FUTURE_SKEW_SECS = 1
  MAX_PRICE = 8
  TEMP_THRESHOLD = 3
  TEMP_EXTEND = 5
  NewTempTtl = 1
  U64Max = 1000
  RING_CAP = 2
  Signatures <- TimeSignatures
  BatchCalls <- TimeCalls
  QuorumCalls <- TimeQuorumCalls
  PublisherLists <- TimeLists
  QuorumArgs <- NoQuorums
  MaxGap = 2
  MaxTime = 9
INVARIANTS
  TypeOK
  SilentNoOpReadsFresh
PROPERTIES
  TemporaryPriceBacked
  TemporaryPriceNeverRegresses
  FeedSpec
  TempFeedSpec
