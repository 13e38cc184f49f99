CONSTANTS
  ga = ga
  gb = gb
  gc = gc
  na = na
  nb = nb
  nc = nc
  a1 = a1
  a2 = a2
  a3 = a3
  noPeer = noPeer
  Gateways <- MCGateways
  Peers <- MCPeers
  Subnet <- MCSubnet
  Addrs <- MCAddrs
  Covers <- MCCovers
  NoPeer <- noPeer
  MaxLoss = 0
  RouteAddMayFail = FALSE
SPECIFICATION Spec
INVARIANT RoutesToFirstAnnouncer
