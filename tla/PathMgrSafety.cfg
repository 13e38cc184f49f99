CONSTANTS
  ga = ga  gb = gb  p1 = p1  p2 = p2  p3 = p3  h1 = h1
  queryError = queryError  noConn = noConn  nilHidden = nilHidden
  Gateways <- MCGateways
  Paths <- TwoPaths
  Hops <- MCHops
  HiddenPathSeq <- OneHidden
  PartialMayFail = TRUE
  NilHiddenPath = nilHidden
  Down <- FirstPathDown
  QueryResults <- ShrinkingOrEmptyQueries
  QueryError = queryError
  NoConn = noConn
  HiddenFailover = TRUE
  DialMayFail = TRUE
  MaxFailures = 1
  MaxRefreshes = 1
  KeepAliveTimeout = 1
  MigrateGraceTimeout = 1
  DataWriters <- NoWriters
SPECIFICATION Spec
INVARIANT PathIdxValid
SYMMETRY GatewaySymmetry
