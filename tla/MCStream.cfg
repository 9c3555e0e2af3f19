SPECIFICATION Spec
CONSTANTS
  MaxRounds = 3
  MaxDrops = 2
  MaxWire = 6
INVARIANTS
  NeverGarbled
  NoRoundSkipped
PROPERTIES
  UpdatesNeverRegress
  CatchesUp
  CloseReleasesAll
