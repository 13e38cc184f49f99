----------------------------- MODULE Handshake -----------------------------
(***************************************************************************)
(* The peer handshake of gateway/peer.go between two gateways.             *)
(*                                                                         *)
(* Every gateway keeps one peer object for every remote gateway of its     *)
(* configuration; here there are two gateways, each the other's remote.    *)
(* A peer runs three things concurrently:                                  *)
(*   - the initiator goroutine initHandshaking, which fetches the client   *)
(*     DRKey once and then re-sends a HandshakeRequest every second until  *)
(*     handshakeCompleted;                                                 *)
(*   - handleHandshakeRequest goroutines, spawned by the accept loop of    *)
(*     gateway.go for every request received, serialised by               *)
(*     handshakeRequestHandlerMutex;                                       *)
(*   - handleHandshakeResponse goroutines, spawned for every response.     *)
(* completeHandshake, called by both handlers, starts the path manager     *)
(* once cryptoHandshakeComplete and checkHandshakeComplete both hold.      *)
(*                                                                         *)
(* The public key a gateway sends is abstracted to the gateway's own name; *)
(* a key injected by an attacker is the model value Forged.  A request's   *)
(* CMAC tag is abstracted to whether it verifies (tagOk): without the      *)
(* DRKey an attacker cannot produce a verifying tag.                       *)
(*                                                                         *)
(* Failures of the calls the handlers make (DRKey lookups, path queries,   *)
(* dialing, one-off writes) and losses of datagrams are the kinds listed   *)
(* in Faults; at most MaxFaults of them happen in a behaviour.             *)
(***************************************************************************)
EXTENDS Naturals, FiniteSets

CONSTANTS
  Gateways,   \* the two gateways, each configured with the other as remote
  Forged,     \* a public key that no gateway generated
  Faults,     \* the kinds of failure that may happen, a subset of FaultKinds
  MaxFaults   \* bound on the number of failures in a behaviour

FaultKinds ==
  { "drkeyClient",  \* drkeyMgr.clientHostKey returns an error
    "drkeyServer",  \* drkeyMgr.serverHostKey returns an error
    "paths",        \* pathMgr.updatePathsToRemote returns an error
    "noPaths",      \* the path service answers with no path at all
    "egress",       \* peer.setupEgressConnections returns an error
    "sendReq",      \* WriteMsgOneOff of a HandshakeRequest returns an error
    "sendResp",     \* WriteMsgOneOff of a HandshakeResponse returns an error
    "lose",         \* the network drops a datagram
    "forge" }       \* an attacker injects a request with a key of its own

ASSUME Cardinality(Gateways) = 2
ASSUME Forged \notin Gateways
ASSUME Faults \subseteq FaultKinds
ASSUME MaxFaults \in Nat

Other(g) == CHOOSE h \in Gateways : h # g

(* The public keys: the pair keyMgr.computePriPubPair generates for a      *)
(* gateway's peer is identified by the gateway, and an attacker's.         *)
Keys == Gateways \cup {Forged}
NoKey == "none"

VARIABLES
  initPc,                  \* "start" until Gateway.Start registers the
                           \*   peer; then initHandshaking: "key", "send"
                           \*   or "exit"
  reqPc,                   \* the request handler holding the mutex:
                           \*   "free", "sendResp" or "complete"
  pending,                 \* requests whose handler goroutine waits on
                           \*   handshakeRequestHandlerMutex
  cryptoHandshakeComplete,
  checkHandshakeComplete,
  handshakeCompleted,
  sharedKeyWith,           \* the remote public key initDataCrypto used
  egressReady,             \* setupEgressConnections has succeeded
  net,                     \* datagrams in flight between accept addresses
  faults,                  \* failures so far
  keyPair,                 \* keyMgr.group and priKey are set (getPubKey)
  crashed                  \* a goroutine of the gateway panicked, which
                           \*   ends the gateway process

vars == <<initPc, reqPc, pending, cryptoHandshakeComplete,
          checkHandshakeComplete, handshakeCompleted, sharedKeyWith,
          egressReady, net, faults, keyPair, crashed>>

(* The key pair and the process state, which only InitFetchKey and         *)
(* HandleRequest change.                                                   *)
procVars == <<keyPair, crashed>>

(* No goroutine of a gateway runs once the gateway has crashed.            *)
Alive(g) == ~crashed[g]

(* The two kinds of datagram sent to a gateway's accept address.  A        *)
(* request carries the public key and tag of getAuthdPubKey; tagOk is what *)
(* verifyRemotePubKey finds with the receiver's server host key.           *)
Request(src, dst, pub, tagOk) ==
  [type |-> "req", src |-> src, dst |-> dst, pub |-> pub, tagOk |-> tagOk]
Response(src, dst) ==
  [type |-> "resp", src |-> src, dst |-> dst, pub |-> NoKey, tagOk |-> TRUE]

Messages ==
  { Request(s, d, k, t) : s, d \in Gateways, k \in Keys, t \in BOOLEAN }
  \cup { Response(s, d) : s, d \in Gateways }

TypeOK ==
  /\ initPc \in [Gateways -> {"start", "key", "send", "exit"}]
  /\ reqPc \in [Gateways -> {"free", "sendResp", "complete"}]
  /\ pending \in [Gateways -> SUBSET Messages]
  /\ cryptoHandshakeComplete \in [Gateways -> BOOLEAN]
  /\ checkHandshakeComplete \in [Gateways -> BOOLEAN]
  /\ handshakeCompleted \in [Gateways -> BOOLEAN]
  /\ sharedKeyWith \in [Gateways -> Keys \cup {NoKey}]
  /\ egressReady \in [Gateways -> BOOLEAN]
  /\ net \subseteq Messages
  /\ faults \in 0..MaxFaults
  /\ keyPair \in [Gateways -> BOOLEAN]
  /\ crashed \in [Gateways -> BOOLEAN]

-----------------------------------------------------------------------------
(* Failures of the calls the handlers make.  Each is a possible outcome    *)
(* of the call, taken only when its kind is enabled and the budget allows. *)
Fails(kind) == kind \in Faults /\ faults < MaxFaults

CountFault == faults' = faults + 1

ClientHostKeyFails == Fails("drkeyClient")
ServerHostKeyFails == Fails("drkeyServer")
UpdatePathsFails == Fails("paths")
(* An empty answer is installed and m.paths[0] panics.                     *)
UpdatePathsPanics == Fails("noPaths")
SetupEgressFails == Fails("egress")
WriteMsgOneOffFails(kind) == Fails(kind)

(* keyMgr.initDataCrypto: the session key is the DH secret of the own     *)
(* private key and the request's public key, whatever verifyRemotePubKey  *)
(* answered (the handler only logs a tag mismatch).                        *)
InitDataCrypto(m) == m.pub

(* Mutant: completeHandshake that checks cryptoHandshakeComplete only.    *)
CompleteHandshakeCryptoOnly(g, crypto, check) ==
  handshakeCompleted' = [handshakeCompleted EXCEPT ![g] = @ \/ crypto]

(* peer.completeHandshake, under handshakeCompletionMutex: sets            *)
(* handshakeCompleted (and starts the path manager) once both flags hold;  *)
(* a peer already completed stays completed.                               *)
CompleteHandshake(g, crypto, check) ==
  handshakeCompleted' =
    [handshakeCompleted EXCEPT ![g] = @ \/ (crypto /\ check)]

-----------------------------------------------------------------------------
Init ==
  /\ initPc = [g \in Gateways |-> "start"]
  /\ reqPc = [g \in Gateways |-> "free"]
  /\ pending = [g \in Gateways |-> {}]
  /\ cryptoHandshakeComplete = [g \in Gateways |-> FALSE]
  /\ checkHandshakeComplete = [g \in Gateways |-> FALSE]
  /\ handshakeCompleted = [g \in Gateways |-> FALSE]
  /\ sharedKeyWith = [g \in Gateways |-> NoKey]
  /\ egressReady = [g \in Gateways |-> FALSE]
  /\ net = {}
  /\ faults = 0
  /\ keyPair = [g \in Gateways |-> FALSE]
  /\ crashed = [g \in Gateways |-> FALSE]

(* Gateway.Start, loop body for the remote: newPeer, the store into       *)
(* asClientMap, and `go peer.initHandshaking()`.  The accept goroutine is  *)
(* already running.                                                        *)
StartPeer(g) ==
  /\ Alive(g)
  /\ initPc[g] = "start"
  /\ initPc' = [initPc EXCEPT ![g] = "key"]
  /\ UNCHANGED <<reqPc, pending, cryptoHandshakeComplete,
                 checkHandshakeComplete, handshakeCompleted, sharedKeyWith,
                 egressReady, net, faults, procVars>>

(* Gateway.getPeer: the remote's peer is in asClientMap.                  *)
Registered(g) == initPc[g] # "start"

(* initHandshaking, first part: fetch the client DRKey, then              *)
(* getAuthdPubKey, whose getPubKey creates the key pair on first use      *)
(* (computePriPubPair).  A DRKey error returns from the goroutine for     *)
(* good, before the key pair exists.                                       *)
InitFetchKey(g) ==
  /\ Alive(g)
  /\ initPc[g] = "key"
  /\ \/ /\ initPc' = [initPc EXCEPT ![g] = "send"]
        /\ keyPair' = [keyPair EXCEPT ![g] = TRUE]
        /\ UNCHANGED faults
     \/ /\ ClientHostKeyFails
        /\ initPc' = [initPc EXCEPT ![g] = "exit"]
        /\ CountFault
        /\ UNCHANGED keyPair
  /\ UNCHANGED <<reqPc, pending, cryptoHandshakeComplete,
                 checkHandshakeComplete, handshakeCompleted, sharedKeyWith,
                 egressReady, net, crashed>>

(* initHandshaking, loop body: while not handshakeCompleted, send the      *)
(* request one-off; a write error returns from the goroutine.              *)
InitSend(g) ==
  /\ Alive(g)
  /\ initPc[g] = "send"
  /\ ~handshakeCompleted[g]
  /\ \/ /\ net' = net \cup {Request(g, Other(g), g, TRUE)}
        /\ UNCHANGED <<initPc, faults>>
     \/ /\ WriteMsgOneOffFails("sendReq")
        /\ initPc' = [initPc EXCEPT ![g] = "exit"]
        /\ UNCHANGED net
        /\ CountFault
  /\ UNCHANGED <<reqPc, pending, cryptoHandshakeComplete,
                 checkHandshakeComplete, handshakeCompleted, sharedKeyWith,
                 egressReady, procVars>>

(* Mutant: the loop stops once this side's crypto is set up.             *)
InitStopOnCrypto(g) ==
  /\ Alive(g)
  /\ initPc[g] = "send"
  /\ cryptoHandshakeComplete[g]
  /\ initPc' = [initPc EXCEPT ![g] = "exit"]
  /\ UNCHANGED <<reqPc, pending, cryptoHandshakeComplete,
                 checkHandshakeComplete, handshakeCompleted, sharedKeyWith,
                 egressReady, net, faults, procVars>>

(* initHandshaking, loop exit once handshakeCompleted.                     *)
InitStop(g) ==
  /\ Alive(g)
  /\ initPc[g] = "send"
  /\ handshakeCompleted[g]
  /\ initPc' = [initPc EXCEPT ![g] = "exit"]
  /\ UNCHANGED <<reqPc, pending, cryptoHandshakeComplete,
                 checkHandshakeComplete, handshakeCompleted, sharedKeyWith,
                 egressReady, net, faults, procVars>>

(* Gateway.accept: a request spawns a handleHandshakeRequest goroutine;  *)
(* its body runs in HandleRequest once it holds the handler mutex.  A      *)
(* request read before Start registered the peer fails getPeer and is      *)
(* dropped ("Error retrieving peer").                                      *)
AcceptRequest(g, m) ==
  /\ Alive(g)
  /\ m \in net
  /\ m.dst = g /\ m.type = "req"
  /\ net' = net \ {m}
  /\ \/ Registered(g) /\ pending' = [pending EXCEPT ![g] = @ \cup {m}]
     \/ ~Registered(g) /\ UNCHANGED pending
  /\ UNCHANGED <<initPc, reqPc, cryptoHandshakeComplete,
                 checkHandshakeComplete, handshakeCompleted, sharedKeyWith,
                 egressReady, faults, procVars>>

(* Gateway.accept on a response, running handleHandshakeResponse: set      *)
(* checkHandshakeComplete and call completeHandshake.                      *)
HandleResponse(g, m) ==
  /\ Alive(g)
  /\ m \in net
  /\ m.dst = g /\ m.type = "resp"
  /\ net' = net \ {m}
  /\ checkHandshakeComplete' = [checkHandshakeComplete EXCEPT ![g] = TRUE]
  /\ CompleteHandshake(g, cryptoHandshakeComplete[g], TRUE)
  /\ UNCHANGED <<initPc, reqPc, pending, cryptoHandshakeComplete,
                 sharedKeyWith, egressReady, faults, procVars>>

(* handleHandshakeRequest up to cryptoHandshakeComplete = true, holding    *)
(* the handler mutex.  Ignored once cryptoHandshakeComplete.  Otherwise:   *)
(* serverHostKey, verifyRemotePubKey (whose outcome is only logged),       *)
(* updatePathsToRemote, setupEgressConnections, initDataCrypto with the    *)
(* request's key; an error of any of them returns and frees the mutex.     *)
(* initDataCrypto's computeSharedKey calls k.group.ComputeKey with the     *)
(* group and private key that only getPubKey sets: without them the nil   *)
(* group is dereferenced, and the panic, which nothing recovers, ends the  *)
(* gateway process.  So does updatePathsToRemote on an empty answer.      *)
HandleRequest(g, m) ==
  /\ Alive(g)
  /\ reqPc[g] = "free"
  /\ m \in pending[g]
  /\ pending' = [pending EXCEPT ![g] = @ \ {m}]
  /\ \/ /\ cryptoHandshakeComplete[g]
        /\ UNCHANGED <<reqPc, cryptoHandshakeComplete, sharedKeyWith,
                       egressReady, faults, crashed>>
     \/ /\ ~cryptoHandshakeComplete[g]
        /\ \/ ServerHostKeyFails \/ UpdatePathsFails \/ SetupEgressFails
        /\ CountFault
        /\ UNCHANGED <<reqPc, cryptoHandshakeComplete, sharedKeyWith,
                       egressReady, crashed>>
     \/ /\ ~cryptoHandshakeComplete[g]
        /\ UpdatePathsPanics
        /\ CountFault
        /\ crashed' = [crashed EXCEPT ![g] = TRUE]
        /\ UNCHANGED <<reqPc, cryptoHandshakeComplete, sharedKeyWith,
                       egressReady>>
     \/ /\ ~cryptoHandshakeComplete[g]
        /\ egressReady' = [egressReady EXCEPT ![g] = TRUE]
        /\ ~keyPair[g]
        /\ crashed' = [crashed EXCEPT ![g] = TRUE]
        /\ UNCHANGED <<reqPc, cryptoHandshakeComplete, sharedKeyWith,
                       faults>>
     \/ /\ ~cryptoHandshakeComplete[g]
        /\ egressReady' = [egressReady EXCEPT ![g] = TRUE]
        /\ keyPair[g]
        /\ sharedKeyWith' = [sharedKeyWith EXCEPT ![g] = InitDataCrypto(m)]
        /\ cryptoHandshakeComplete' =
             [cryptoHandshakeComplete EXCEPT ![g] = TRUE]
        /\ reqPc' = [reqPc EXCEPT ![g] = "sendResp"]
        /\ UNCHANGED <<faults, crashed>>
  /\ UNCHANGED <<initPc, checkHandshakeComplete, handshakeCompleted, net,
                 keyPair>>

(* handleHandshakeRequest: send the response one-off; a write error        *)
(* returns without calling completeHandshake.                              *)
SendResponse(g) ==
  /\ Alive(g)
  /\ reqPc[g] = "sendResp"
  /\ \/ /\ net' = net \cup {Response(g, Other(g))}
        /\ reqPc' = [reqPc EXCEPT ![g] = "complete"]
        /\ UNCHANGED faults
     \/ /\ WriteMsgOneOffFails("sendResp")
        /\ reqPc' = [reqPc EXCEPT ![g] = "free"]
        /\ UNCHANGED net
        /\ CountFault
  /\ UNCHANGED <<initPc, pending, cryptoHandshakeComplete,
                 checkHandshakeComplete, handshakeCompleted, sharedKeyWith,
                 egressReady, procVars>>

(* handleHandshakeRequest: call completeHandshake and release the mutex.  *)
RequestComplete(g) ==
  /\ Alive(g)
  /\ reqPc[g] = "complete"
  /\ reqPc' = [reqPc EXCEPT ![g] = "free"]
  /\ CompleteHandshake(g, cryptoHandshakeComplete[g],
                       checkHandshakeComplete[g])
  /\ UNCHANGED <<initPc, pending, cryptoHandshakeComplete,
                 checkHandshakeComplete, sharedKeyWith, egressReady, net,
                 faults, procVars>>

(* The network drops a datagram.                                           *)
Lose(m) ==
  /\ m \in net
  /\ Fails("lose")
  /\ net' = net \ {m}
  /\ CountFault
  /\ UNCHANGED <<initPc, reqPc, pending, cryptoHandshakeComplete,
                 checkHandshakeComplete, handshakeCompleted, sharedKeyWith,
                 egressReady, procVars>>

(* An attacker sends g a request in the name of its remote, carrying a     *)
(* key of its own; lacking the DRKey, its tag does not verify.             *)
Forge(g) ==
  /\ Fails("forge")
  /\ net' = net \cup {Request(Other(g), g, Forged, FALSE)}
  /\ CountFault
  /\ UNCHANGED <<initPc, reqPc, pending, cryptoHandshakeComplete,
                 checkHandshakeComplete, handshakeCompleted, sharedKeyWith,
                 egressReady, procVars>>

Next ==
  \/ \E g \in Gateways :
       \/ StartPeer(g) \/ InitFetchKey(g) \/ InitSend(g) \/ InitStop(g)
       \/ SendResponse(g) \/ RequestComplete(g) \/ Forge(g)
       \/ \E m \in net : AcceptRequest(g, m) \/ HandleResponse(g, m)
       \/ \E m \in pending[g] : HandleRequest(g, m)
  \/ \E m \in net : Lose(m)

(* Goroutines are scheduled by the Go runtime, so a step that stays        *)
(* enabled is eventually taken; a datagram that is not lost is delivered.  *)
(* Failures and forgeries get no fairness.                                 *)
Fairness ==
  \A g \in Gateways :
    /\ WF_vars(StartPeer(g))
    /\ WF_vars(InitFetchKey(g) /\ faults' = faults)
    /\ WF_vars(InitSend(g) /\ net' # net)
    /\ WF_vars(InitStop(g))
    /\ WF_vars(SendResponse(g) /\ faults' = faults)
    /\ WF_vars(RequestComplete(g))
    /\ \A m \in Messages :
         /\ WF_vars(AcceptRequest(g, m))
         /\ WF_vars(HandleResponse(g, m))
         /\ WF_vars(HandleRequest(g, m) /\ faults' = faults)

Spec == Init /\ [][Next]_vars
FairSpec == Spec /\ Fairness

-----------------------------------------------------------------------------
(* The handshake flags, as the specification states them (HandshakeFlags) *)
(* under the refinement mapping of the peer's three booleans.              *)
Flags == INSTANCE HandshakeFlags
           WITH cryptoDone <- cryptoHandshakeComplete,
                ackReceived <- checkHandshakeComplete,
                completed <- handshakeCompleted

(* The peer's flags behave as spec section 3 requires, whatever faults,    *)
(* losses and handler interleavings occur: cryptoHandshakeComplete is set  *)
(* once, checkHandshakeComplete only after the remote has set its own      *)
(* crypto flag, and completeHandshake sets handshakeCompleted only with    *)
(* both flags and never clears it.  The request handler and the response   *)
(* handler both call completeHandshake, from different goroutines.         *)
ImplementsHandshakeFlags == Flags!Spec

(* The session key a gateway installs is derived from its remote's own     *)
(* public key: handleHandshakeRequest aborts on a request whose CMAC tag   *)
(* does not verify (spec section 4.7, step 2, and scenario 5).             *)
KeyAuthentic ==
  \A g \in Gateways :
    cryptoHandshakeComplete[g] => sharedKeyWith[g] = Other(g)

(* Unless a gateway has crashed, every handshake eventually completes on  *)
(* both gateways: failures of a single attempt are retried by the         *)
(* initiator's loop (spec section 4.7, failure semantics).  A crash is a   *)
(* permanent state, so this is <>(all completed) \/ <>(some crashed).      *)
BothCompleteUnlessCrashed ==
  <>((\A g \in Gateways : handshakeCompleted[g]) \/ (\E g \in Gateways : crashed[g]))

(* No handshake handler panics: handleHandshakeRequest reaches             *)
(* initDataCrypto only with the key pair that its own gateway's            *)
(* initHandshaking creates, whatever the order in which the initiator and  *)
(* the accept loop's handlers run.                                         *)
NoHandlerPanic == \A g \in Gateways : ~crashed[g]

=============================================================================
