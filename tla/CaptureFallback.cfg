SPECIFICATION Spec
CONSTANTS
  AdvertisedSets <- WestonAndAgl
  SourcePreference <- Forced
  Supported <- Xrgb
  Unsupported <- NoFormats
  Sizes = {1, 2}
  MaxAttempts = 1
  MaxChanges = 0
  Modes <- ThreeModes
  Usable = {g1, g2}
  UnknownFormat = {strange}
  TooLarge = {huge}
  None = None
INVARIANT FallsBack
CHECK_DEADLOCK FALSE
