SPECIFICATION Spec
CONSTANTS
  MaxName = 2
  Modes <- TwoModes
  NoMode = "none"
  MaxInFlight = 2
  MaxLate = 2
INVARIANT RefreshIsCurrent
