SPECIFICATION SilentSpec
CONSTANTS
  Requests = {r1, r2}
  Conns = {c1, c2}
  PoolSizes = {1, 2}
  AdvertisedSets <- OnlyWeston
  SpuriousErrors = FALSE
  NoConn = NoConn
  NoReq = NoReq
PROPERTY EveryRequestAnswered
