SPECIFICATION FairSpec
CONSTANTS
  MaxName = 3
  Modes <- TwoModes
  NoMode = "none"
  MaxInFlight = 2
  MaxLate = 1
INVARIANTS TypeOK DiscoveryOrder SelectsTheScreen ExactWhenQuiet CaughtUpUnlessLate
PROPERTY Settles
