SPECIFICATION FairSpec
CONSTANTS
  AdvertisedSets <- Each
  SourcePreference <- Preference
  Supported <- Xrgb
  Unsupported <- NoFormats
  Sizes = {1, 2}
  MaxAttempts = 2
  MaxChanges = 2
  Modes <- ThreeModes
  Usable = {g1, g2}
  UnknownFormat = {strange}
  TooLarge = {huge}
  None = None
INVARIANTS TypeOK DeliveredAsDrawn FailureJustified NoSequenceError OneSourceUnlessChanged
PROPERTIES LendsSafely NothingLeft
CHECK_DEADLOCK FALSE
