---------------------------- MODULE MCHandshake ----------------------------
(* Instantiates Handshake for TLC: two gateways and one forged key as      *)
(* model values; the failure kinds of each run are defined here.           *)
EXTENDS Handshake

CONSTANTS ga, gb, forged

MCGateways == {ga, gb}

(* Every kind of failure, for the safety run.                              *)
AllFaults == FaultKinds

(* Failures a single handshake attempt recovers from by design: the       *)
(* responder's calls fail and the initiator's next request retries them.   *)
RetriedFaults == {"drkeyServer", "paths", "egress"}

(* A response that never arrives: lost in the network, or its one-off     *)
(* write failed.                                                           *)
LostResponse == {"lose", "sendResp"}
NoFailure == {}
ForgedRequest == {"forge"}
=============================================================================
