SPECIFICATION ServedSpec
CONSTANTS
  Requests = {r1, r2}
  Conns = {c1, c2}
  PoolSizes = {1, 2}
  AdvertisedSets <- AglOrNone
  SpuriousErrors = TRUE
  NoConn = NoConn
  NoReq = NoReq
INVARIANTS TypeOK LockDiscipline ConnectOnlyWhenEmpty ErrorEvicts
PROPERTIES DeadEvicted EveryRequestAnswered ShutdownEnds
