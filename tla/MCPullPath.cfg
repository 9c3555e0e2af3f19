SPECIFICATION PullSpec
CONSTANTS
  a = a
  b = b
  k1 = k1
  k2 = k2
  trader1 = trader1
  trader2 = trader2
  oracle1 = oracle1
  other1 = other1
  Assets = {a, b}
  Keys = {k1, k2}
  ServiceKey = k1
  Account = trader1
  Trading = {"demo"}
  OracleAddress = oracle1
  NoEntry = NoEntry
  NoPosition = NoPosition
  NoReply = NoReply
  NoAddress = NoAddress
  MAX_PRICE = 8
  NewTempTtl = 1
  U64Max = 1000
  RING_CAP = 1
  RoundsPerSecond = 2
  FRESHNESS_LIMIT = 1
  POLLS <- MCPolls
  POLL_DELAY <- MCDelays
  MaxLag = 1
  PriceAt <- MCPriceAt
  QuorumCalls <- None
  PublisherLists <- MCLists
  QuorumArgs <- None
  Sizes = {1}
  Traders = {trader1, trader2}
  Addresses = {oracle1, other1}
  Obliging = {other1}
  STALENESS_SECS = 3
  FUTURE_SKEW_SECS = 1
  TEMP_THRESHOLD = 5
  TEMP_EXTEND = 6
  TX_TIMEOUT <- MCTimeouts
  MaxIngest = 1
  Skews <- MCSkews
  Asks <- Both
  Signatures <- TwoKeysSignatures
  BatchCalls <- AnyCalls
  MaxGap = 7
  MaxTime = 7
CHECK_DEADLOCK FALSE
INVARIANTS
  ClientAcceptsWhatContractAccepts
  GiveUpIsFinal
  ReadBackNotOlder
PROPERTIES
  PositionAgeBounded
  PositionPricedBySignedRound
