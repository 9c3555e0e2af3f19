SPECIFICATION BoardSpec
CONSTANTS
  Venues <- EXCHANGES
  Weight <- WEIGHTS
  Tag <- MCTag
  Listing <- MCListing
  Quoted = {2, 3, 40}
  Moments = {0, 6}
  STALENESS_MS = 5
  OUTLIER_STDDEV = 3
  NoSample = NoSample
  NoPrice = NoPrice
  Base = 4
  TagWidth = 3
  PriceWidth = 3
  StampWidth = 2
INVARIANTS
  AggregateWithinFresh
  NoVenueOutweighsItsShare
  SignedBytesMeanThePrice
