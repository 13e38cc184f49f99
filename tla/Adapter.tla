------------------------------ MODULE Adapter ------------------------------
(***************************************************************************)
(* The IP adapter's routing (gateway/adapters/ip/ipadapter.go, router.go)  *)
(* and the control-plane path that feeds it: once the handshake with a     *)
(* remote completes, completeHandshake (gateway/peer.go) starts            *)
(* HandshakeComplete in a goroutine, which sends ConfMsg{local subnet}     *)
(* once over the control egress connection; the remote's ingress control   *)
(* reader for that peer passes it to ProcessCtrlMsg, whose addNet appends  *)
(* (subnet, IA) to the router's netToClientList and adds a kernel route.   *)
(* The egress worker's ProcessEgressPkt looks the destination up, first    *)
(* match wins.                                                             *)
(*                                                                         *)
(* Each peer has its own ingress control reader goroutine and the router   *)
(* has no lock, so addNet's append is modelled as the Go statement runs:   *)
(* the slice is read, then the extended slice is written back.             *)
(* Subnets are model values and Covers gives the addresses in each.        *)
(***************************************************************************)
EXTENDS Integers, Sequences, FiniteSets

CONSTANTS
  Gateways,         \* the gateways, each identified by its IA
  Peers,            \* Gateways -> SUBSET Gateways: the Remotes of each conf
  Subnet,           \* Gateways -> the subnet of the adapter conf
  Addrs,            \* IPv4 destinations packets may carry
  Covers,           \* subnets -> SUBSET Addrs: net.Contains
  MaxLoss,          \* bound on lost ConfMsg datagrams
  RouteAddMayFail,  \* netlink.RouteAdd may return an error
  NoPeer            \* no remote IA (Lookup's error)

Nets == {Subnet[g] : g \in Gateways}

ASSUME \A g \in Gateways : Peers[g] \subseteq Gateways \ {g}
ASSUME \A g, h \in Gateways : h \in Peers[g] <=> g \in Peers[h]
ASSUME \A n \in Nets : Covers[n] \subseteq Addrs
ASSUME NoPeer \notin Gateways /\ MaxLoss \in Nat

VARIABLES
  completed,   \* completed[g]: the peers of g whose handshake completed
  confToSend,  \* confToSend[g]: HandshakeComplete goroutines yet to write
  inFlight,    \* ConfMsg datagrams in the network
  lost,        \* number of ConfMsg datagrams lost
  routes,      \* routes[g]: netToClientList of g's router
  kernel,      \* kernel[g]: the subnets g routes into its TUN
  ctrlPc,      \* ctrlPc[g][h]: "idle" or "append" (inside addNet)
  snapshot,    \* snapshot[g][h]: the slice addNet read
  announcer,   \* history: announcer[g][a], the first peer whose ConfMsg
               \*   covering a ProcessCtrlMsg of g finished handling
  lastEgress   \* history: the last packet ProcessEgressPkt of g handled

vars == <<completed, confToSend, inFlight, lost, routes, kernel, ctrlPc,
          snapshot, announcer, lastEgress>>

Entry == [net : Nets, ia : Gateways]
ConfMsg == [from : Gateways, to : Gateways, net : Nets]
Packets == [ver : {4, 6}, dst : Addrs]

TypeOK ==
  /\ completed \in [Gateways -> SUBSET Gateways]
  /\ confToSend \in [Gateways -> SUBSET Gateways]
  /\ inFlight \subseteq ConfMsg
  /\ lost \in 0..MaxLoss
  /\ routes \in [Gateways -> Seq(Entry)]
  /\ kernel \in [Gateways -> SUBSET Nets]
  /\ ctrlPc \in [Gateways -> [Gateways -> {"idle", "append"}]]
  /\ snapshot \in [Gateways -> [Gateways -> Seq(Entry)]]
  /\ announcer \in [Gateways -> [Addrs -> Gateways \cup {NoPeer}]]

(* Router.Lookup: the IA of the first entry whose net contains addr.       *)
RECURSIVE Lookup(_, _)
Lookup(list, addr) ==
  IF list = <<>> THEN NoPeer
  ELSE IF addr \in Covers[Head(list).net] THEN Head(list).ia
  ELSE Lookup(Tail(list), addr)

(* getDestIP and Lookup, as ProcessEgressPkt uses them: the outcome for a  *)
(* packet on g's egress path.                                              *)
EgressOutcome(g, pkt) ==
  IF pkt.ver # 4 THEN [kind |-> "unsupported", to |-> NoPeer]
  ELSE LET ia == Lookup(routes[g], pkt.dst)
       IN IF ia = NoPeer THEN [kind |-> "noroute", to |-> NoPeer]
                         ELSE [kind |-> "sent", to |-> ia]

Init ==
  /\ completed = [g \in Gateways |-> {}]
  /\ confToSend = [g \in Gateways |-> {}]
  /\ inFlight = {}
  /\ lost = 0
  /\ routes = [g \in Gateways |-> <<>>]
  /\ kernel = [g \in Gateways |-> {}]
  /\ ctrlPc = [g \in Gateways |-> [h \in Gateways |-> "idle"]]
  /\ snapshot = [g \in Gateways |-> [h \in Gateways |-> <<>>]]
  /\ announcer = [g \in Gateways |-> [a \in Addrs |-> NoPeer]]
  /\ lastEgress = [g \in Gateways |->
                    [dst |-> NoPeer, outcome |-> [kind |-> "none", to |-> NoPeer]]]

-----------------------------------------------------------------------------
(* completeHandshake of g's peer h, once both halves are done: the path    *)
(* manager starts (PathMgr) and `go adapter.HandshakeComplete(peer)`.      *)
CompleteHandshake(g, h) ==
  /\ h \in Peers[g] \ completed[g]
  /\ completed' = [completed EXCEPT ![g] = @ \cup {h}]
  /\ confToSend' = [confToSend EXCEPT ![g] = @ \cup {h}]
  /\ UNCHANGED <<inFlight, lost, routes, kernel, ctrlPc, snapshot,
                 announcer, lastEgress>>

(* HandshakeComplete: WriteMsg(ConfMsg{Net: conf.Subnet}, CtrlWriter());   *)
(* an error is only logged and the message is not sent again.              *)
HandshakeComplete(g, h) ==
  /\ h \in confToSend[g]
  /\ confToSend' = [confToSend EXCEPT ![g] = @ \ {h}]
  /\ inFlight' = inFlight \cup {[from |-> g, to |-> h, net |-> Subnet[g]]}
  /\ UNCHANGED <<completed, lost, routes, kernel, ctrlPc, snapshot,
                 announcer, lastEgress>>

(* The network drops a ConfMsg datagram.                                   *)
Lose(m) ==
  /\ lost < MaxLoss
  /\ inFlight' = inFlight \ {m}
  /\ lost' = lost + 1
  /\ UNCHANGED <<completed, confToSend, routes, kernel, ctrlPc, snapshot,
                 announcer, lastEgress>>

(* g's ingress control reader for peer m.from reads the ConfMsg (its IA    *)
(* matches the peer's), ProcessCtrlMsg calls addNet, whose append reads    *)
(* r.netToClientList.                                                      *)
ReceiveConf(m) ==
  LET g == m.to
      h == m.from
  IN /\ ctrlPc[g][h] = "idle"
     /\ inFlight' = inFlight \ {m}
     /\ ctrlPc' = [ctrlPc EXCEPT ![g][h] = "append"]
     /\ snapshot' = [snapshot EXCEPT ![g][h] = routes[g]]
     /\ UNCHANGED <<completed, confToSend, lost, routes, kernel, announcer,
                    lastEgress>>

(* addNet, continued: the extended slice is stored, then netlink.RouteAdd, *)
(* whose error ProcessCtrlMsg only logs.                                   *)
AddNet(g, h) ==
  /\ ctrlPc[g][h] = "append"
  /\ routes' = [routes EXCEPT ![g] =
                  Append(snapshot[g][h], [net |-> Subnet[h], ia |-> h])]
  /\ \/ kernel' = [kernel EXCEPT ![g] = @ \cup {Subnet[h]}]
     \/ RouteAddMayFail /\ UNCHANGED kernel
  /\ ctrlPc' = [ctrlPc EXCEPT ![g][h] = "idle"]
  /\ snapshot' = [snapshot EXCEPT ![g][h] = <<>>]
  /\ announcer' = [announcer EXCEPT ![g] =
                     [a \in Addrs |->
                        IF @[a] = NoPeer /\ a \in Covers[Subnet[h]]
                        THEN h ELSE @[a]]]
  /\ UNCHANGED <<completed, confToSend, inFlight, lost, lastEgress>>

(* The egress worker's ProcessEgressPkt for a packet read from g's TUN.    *)
ProcessEgressPkt(g, pkt) ==
  /\ lastEgress' = [lastEgress EXCEPT ![g] =
                      [dst |-> pkt.dst, outcome |-> EgressOutcome(g, pkt)]]
  /\ UNCHANGED <<completed, confToSend, inFlight, lost, routes, kernel,
                 ctrlPc, snapshot, announcer>>

Next ==
  \/ \E g \in Gateways, h \in Gateways :
       \/ CompleteHandshake(g, h)
       \/ HandshakeComplete(g, h)
       \/ AddNet(g, h)
  \/ \E m \in inFlight : ReceiveConf(m) \/ Lose(m)
  \/ \E g \in Gateways, pkt \in Packets : ProcessEgressPkt(g, pkt)

Spec == Init /\ [][Next]_vars

-----------------------------------------------------------------------------
(* Router.Lookup returns the IA of the first installed entry whose subnet  *)
(* contains the destination, insertion order preserved (the spec's         *)
(* invariant): a packet ProcessEgressPkt sends goes to the peer whose      *)
(* ConfMsg covering the destination was handled first, and a packet is     *)
(* dropped for want of a route only when no handled ConfMsg covers it.     *)
RoutesToFirstAnnouncer ==
  \A g \in Gateways, a \in Addrs :
    Lookup(routes[g], a) = announcer[g][a]

====
