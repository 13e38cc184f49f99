CONSTANTS
  ga = ga  gb = gb  p1 = p1  p2 = p2  p3 = p3  h1 = h1
  queryError = queryError  noConn = noConn  nilHidden = nilHidden
  Gateways <- MCGateways
  Paths <- MCPaths
  Hops <- MCHops
  HiddenPathSeq <- OneHidden
  PartialMayFail = TRUE
  NilHiddenPath = nilHidden
  Down <- FirstPathDown
  QueryResults <- StableQueries
  QueryError = queryError
  NoConn = noConn
  HiddenFailover = TRUE
  DialMayFail = FALSE
  MaxFailures = 0
  MaxRefreshes = 0
  KeepAliveTimeout = 2
  MigrateGraceTimeout = 3
  DataWriters <- NoWriters
SPECIFICATION Spec
INVARIANT NoPathMgrPanic
