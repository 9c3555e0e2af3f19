SPECIFICATION PullSpec
CONSTANTS
  a = a
  b = b
  k1 = k1
  k2 = k2
  trader1 = trader1
  trader2 = trader2
  oracle1 = oracle1
  other1 = other1
  Assets = {a, b}
  Keys = {k1, k2}
  ServiceKey = k1
  Account = trader1
  Trading = {"demo"}
  OracleAddress = oracle1
  NoEntry = NoEntry
  NoPosition = NoPosition
  NoReply = NoReply
  NoAddress = NoAddress
  MAX_PRICE = 8
  NewTempTtl = 1
  U64Max = 1000
  RING_CAP = 1
  RoundsPerSecond = 2
  FRESHNESS_LIMIT = 1
  POLLS <- MCPolls
  POLL_DELAY <- MCDelays
  MaxLag = 1
  PriceAt <- MCPriceAt
  QuorumCalls <- None
  PublisherLists <- MCLists
  QuorumArgs <- None
  Sizes = {1}
  Traders = {trader1}
  Addresses = {oracle1}
  Obliging = {}
  STALENESS_SECS = 5
  FUTURE_SKEW_SECS = 2
  TEMP_THRESHOLD = 7
  TEMP_EXTEND = 8
  TX_TIMEOUT <- MCTimeouts
  MaxIngest = 1
  Skews <- MCSkews
  Asks <- OnlyDemo
  Signatures <- MCSignatures
  BatchCalls <- ServiceCalls
  MaxGap = 7
  MaxTime = 7
CHECK_DEADLOCK FALSE
PROPERTY
  LaggingRoundReverts
