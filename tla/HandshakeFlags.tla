--------------------------- MODULE HandshakeFlags ---------------------------
(***************************************************************************)
(* What the specification promises of a peer's handshake flags            *)
(* (spec.md section 3, "Handshake flags", and section 4.7): crypto_done is *)
(* set once, by the responder side when it installs the session key;       *)
(* ack_received is set when a HandshakeResponse arrives, and a response   *)
(* only exists once the remote has set its own crypto_done; completed is   *)
(* set by complete_handshake when both flags hold, and never cleared.      *)
(*                                                                         *)
(* Handshake implements this specification under the mapping              *)
(* cryptoDone <- cryptoHandshakeComplete, ackReceived <-                   *)
(* checkHandshakeComplete, completed <- handshakeCompleted.               *)
(***************************************************************************)
CONSTANT Gateways

VARIABLES cryptoDone, ackReceived, completed

flagVars == <<cryptoDone, ackReceived, completed>>

Remote(g) == CHOOSE h \in Gateways : h # g

Init ==
  /\ cryptoDone = [g \in Gateways |-> FALSE]
  /\ ackReceived = [g \in Gateways |-> FALSE]
  /\ completed = [g \in Gateways |-> FALSE]

(* Responder side, steps 1-7: the session key is installed once.          *)
SetCryptoDone(g) ==
  /\ ~cryptoDone[g]
  /\ cryptoDone' = [cryptoDone EXCEPT ![g] = TRUE]
  /\ UNCHANGED <<ackReceived, completed>>

(* Initiator side on HandshakeResponse receipt: set ack_received and call  *)
(* complete_handshake.  The remote sent the response after crypto_done.    *)
ReceiveAck(g) ==
  /\ cryptoDone[Remote(g)]
  /\ ackReceived' = [ackReceived EXCEPT ![g] = TRUE]
  /\ completed' = [completed EXCEPT ![g] = @ \/ cryptoDone[g]]
  /\ UNCHANGED cryptoDone

(* Responder side, step 9: complete_handshake once both flags hold.        *)
CompleteHandshake(g) ==
  /\ cryptoDone[g] /\ ackReceived[g]
  /\ completed' = [completed EXCEPT ![g] = TRUE]
  /\ UNCHANGED <<cryptoDone, ackReceived>>

Next ==
  \E g \in Gateways :
    SetCryptoDone(g) \/ ReceiveAck(g) \/ CompleteHandshake(g)

Spec == Init /\ [][Next]_flagVars

====
