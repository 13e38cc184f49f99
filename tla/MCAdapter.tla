----------------------------- MODULE MCAdapter -----------------------------
(* Three gateways: ga has two remotes, gb and gc, whose ConfMsgs its two   *)
(* ingress control readers handle concurrently; gb and gc have ga only.    *)
(* gb's subnet lies inside gc's, so the order of arrival decides routes.   *)
EXTENDS Adapter, TLC

CONSTANTS ga, gb, gc, nb, nc, na, a1, a2, a3, noPeer

MCGateways == {ga, gb, gc}
MCPeers == (ga :> {gb, gc}) @@ (gb :> {ga}) @@ (gc :> {ga})
MCSubnet == (ga :> na) @@ (gb :> nb) @@ (gc :> nc)
MCAddrs == {a1, a2, a3}
MCCovers == (na :> {a3}) @@ (nb :> {a1}) @@ (nc :> {a1, a2})
====
