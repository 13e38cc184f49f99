----------------------------- MODULE Pipelines -----------------------------
(***************************************************************************)
(* The two packet pipelines of a gateway (gateway/worker.go, pool.go):     *)
(*  - ingress: the reader goroutine startIngressDataHandler                *)
(*    (gateway/peer.go) runs for every peer calls eConn.ReadFrom           *)
(*    (gateway/econn.go), takes a free buffer from the ingress worker's    *)
(*    memPool and queues the filled one with ProcessIngressPkt;            *)
(*  - egress: Gateway.listen (gateway/gateway.go) reads from the adapter,  *)
(*    takes a free buffer from the egress worker's memPool and queues the  *)
(*    filled one with ProcessEgressPkt.                                    *)
(* Each worker's Run loop hands the buffer to the adapter and puts it back *)
(* into its own pool.                                                      *)
(*                                                                         *)
(* Buffers are model values.  Each pool starts with its own buffers and    *)
(* every reader goroutine with one it allocated (make([]byte, MaxMTU)).    *)
(* A datagram is abstracted to its length n and the last byte of its CBC   *)
(* decryption; one of the peer was produced by eConn.writeTo from a        *)
(* payload, one of anybody else decrypts to an arbitrary last byte.  After *)
(* the handshake, which this module does not model, every ReadFrom finds   *)
(* cryptoHandshakeComplete set.                                            *)
(***************************************************************************)
EXTENDS Integers, FiniteSets, Sequences, SequencesExt

CONSTANTS
  Readers,        \* the ingress data readers, one per configured peer
  Listener,       \* the Gateway.listen goroutine
  PoolBuffers,    \* Workers -> the buffers newMemPool allocates
  ReaderBuffers,  \* the buffer each reader goroutine allocates itself
  ChanLength,     \* capacity of pktsChannel (chanLength)
  BlockSize,      \* aes.BlockSize
  Payloads,       \* lengths of the payloads the peer writes
  ForgedLens,     \* lengths of datagrams sent by others
  ForgedLast,     \* last decrypted byte of such datagrams
  None            \* the nil slice memPool.get returns on an empty pool

Workers == {"ingress", "egress"}
AllReaders == Readers \cup {Listener}

(* The worker whose pool and channel a reader goroutine uses.              *)
WorkerOf(r) == IF r = Listener THEN "egress" ELSE "ingress"

Buffers == PoolBuffers["ingress"] \cup PoolBuffers["egress"]
             \cup Range(ReaderBuffers)

ASSUME Listener \notin Readers
ASSUME ReaderBuffers \in [AllReaders -> Buffers]
ASSUME Cardinality(Range(ReaderBuffers)) = Cardinality(AllReaders)
ASSUME PoolBuffers["ingress"] \cap PoolBuffers["egress"] = {}
ASSUME \A w \in Workers : PoolBuffers[w] \cap Range(ReaderBuffers) = {}
ASSUME ChanLength \in Nat \ {0} /\ BlockSize \in Nat \ {0}
ASSUME None \notin Buffers

VARIABLES
  pool,        \* pool[w]: memPool.pool of worker w, a stack
  chan,        \* chan[w]: pktsChannel of worker w, a FIFO
  workerBuf,   \* workerBuf[w]: the buffer worker w processes, or None
  buf,         \* buf of each reader goroutine
  freeBuf,     \* the buffer a reader got from the pool, or None
  readerPc,    \* "read", "get", "send" or "crashed"
  lastRead     \* history: the last datagram each data reader read and
               \*   the result ReadFrom returned

vars == <<pool, chan, workerBuf, buf, freeBuf, readerPc, lastRead>>

(* A padding length taken as the remainder of the length, the form         *)
(* getCBCMAC uses.                                                         *)
PadLenRemainder(len) == len % BlockSize

(* eConn.writeTo: the padding length for a payload of len bytes.          *)
PadLen(len) == BlockSize - (len % BlockSize)

(* The datagrams a data reader may receive: those writeTo produced from a  *)
(* payload, with the pad length as last byte, and forged ones.             *)
Genuine == { [n |-> p + PadLen(p), last |-> PadLen(p), genuine |-> TRUE,
              payload |-> p] : p \in Payloads }
Forged == { [n |-> l, last |-> b, genuine |-> FALSE, payload |-> 0] :
              l \in ForgedLens, b \in ForgedLast }
Datagrams == Genuine \cup Forged

(* eConn.ReadFrom: the outcome for a datagram of length n whose last       *)
(* decrypted byte is last: an error for a bad ciphertext length;           *)
(* otherwise dataLen = n - padLen, and ciphertext[:dataLen] panics when it *)
(* is negative.                                                            *)
ReadResult(n, last) ==
  IF n < BlockSize \/ n % BlockSize # 0 THEN [kind |-> "error", len |-> -1]
  ELSE IF n - last < 0 THEN [kind |-> "panic", len |-> -1]
  ELSE [kind |-> "ok", len |-> n - last]

TypeOK ==
  /\ pool \in [Workers -> Seq(Buffers)]
  /\ chan \in [Workers -> Seq(Buffers)]
  /\ workerBuf \in [Workers -> Buffers \cup {None}]
  /\ buf \in [AllReaders -> Buffers]
  /\ freeBuf \in [AllReaders -> Buffers \cup {None}]
  /\ readerPc \in [AllReaders -> {"read", "get", "send", "crashed"}]

Init ==
  /\ pool \in [ingress : SetToSeqs(PoolBuffers["ingress"]),
               egress : SetToSeqs(PoolBuffers["egress"])]
  /\ chan = [w \in Workers |-> <<>>]
  /\ workerBuf = [w \in Workers |-> None]
  /\ buf = ReaderBuffers
  /\ freeBuf = [r \in AllReaders |-> None]
  /\ readerPc = [r \in AllReaders |-> "read"]
  /\ lastRead = [r \in Readers |->
                   [genuine |-> FALSE, payload |-> 0,
                    result |-> [kind |-> "none", len |-> -1]]]

-----------------------------------------------------------------------------
(* Gateway.ProcessIngressPkt / ProcessEgressPkt: `pktsChannel <- b` on    *)
(* the worker's buffered channel, enabled only while it is not full.       *)
PktsChannelSend(w, b) ==
  /\ Len(chan[w]) < ChanLength
  /\ chan' = [chan EXCEPT ![w] = Append(@, b)]

(* Reader goroutine of startIngressDataHandler, econn.ReadFrom(buf): a      *)
(* read error (bad length) continues the loop, a negative dataLen panics   *)
(* and takes the reader down, anything else goes on to the pool.           *)
ReaderRead(r) ==
  /\ readerPc[r] = "read"
  /\ \E d \in Datagrams :
       LET res == ReadResult(d.n, d.last)
       IN /\ lastRead' = [lastRead EXCEPT ![r] =
                          [genuine |-> d.genuine, payload |-> d.payload,
                           result |-> res]]
          /\ readerPc' = [readerPc EXCEPT ![r] =
                            CASE res.kind = "error" -> "read"
                              [] res.kind = "panic" -> "crashed"
                              [] res.kind = "ok"    -> "get"]
  /\ UNCHANGED <<pool, chan, workerBuf, buf, freeBuf>>

(* Gateway.listen: adapter.Read(buf) returns a packet (an error only       *)
(* continues the loop, a step that changes nothing).                       *)
ListenRead ==
  /\ readerPc[Listener] = "read"
  /\ readerPc' = [readerPc EXCEPT ![Listener] = "get"]
  /\ UNCHANGED <<pool, chan, workerBuf, buf, freeBuf, lastRead>>

(* The reader sends buf to the channel before taking a free buffer, and    *)
(* keeps buf when the pool is empty.                                       *)
ReaderSendThenGet(r) ==
  LET w == WorkerOf(r)
  IN /\ readerPc[r] = "get"
     /\ PktsChannelSend(w, buf[r])
     /\ IF pool[w] = <<>>
        THEN UNCHANGED <<pool, buf>>
        ELSE /\ buf' = [buf EXCEPT ![r] = Last(pool[w])]
             /\ pool' = [pool EXCEPT ![w] = Front(@)]
     /\ readerPc' = [readerPc EXCEPT ![r] = "read"]
     /\ UNCHANGED <<workerBuf, freeBuf, lastRead>>

(* The reader calls pktsPool.get() of its worker: under the pool's mutex,  *)
(* nil when the pool is empty (the packet is skipped and buf reused),      *)
(* otherwise the last buffer of the pool.                                  *)
ReaderGet(r) ==
  LET w == WorkerOf(r)
  IN /\ readerPc[r] = "get"
     /\ \/ /\ pool[w] = <<>>
           /\ readerPc' = [readerPc EXCEPT ![r] = "read"]
           /\ UNCHANGED <<pool, freeBuf>>
        \/ /\ pool[w] # <<>>
           /\ freeBuf' = [freeBuf EXCEPT ![r] = Last(pool[w])]
           /\ pool' = [pool EXCEPT ![w] = Front(@)]
           /\ readerPc' = [readerPc EXCEPT ![r] = "send"]
     /\ UNCHANGED <<chan, workerBuf, buf, lastRead>>

(* ProcessIngressPkt / ProcessEgressPkt(buf[:n]) sends buf on the worker's *)
(* pktsChannel, blocking while it is full; then buf = freeBuf.             *)
ReaderSend(r) ==
  LET w == WorkerOf(r)
  IN /\ readerPc[r] = "send"
     /\ PktsChannelSend(w, buf[r])
     /\ buf' = [buf EXCEPT ![r] = freeBuf[r]]
     /\ freeBuf' = [freeBuf EXCEPT ![r] = None]
     /\ readerPc' = [readerPc EXCEPT ![r] = "read"]
     /\ UNCHANGED <<pool, workerBuf, lastRead>>

(* The Run loop of worker w: range over pktsChannel receives a buffer.     *)
WorkerReceive(w) ==
  /\ workerBuf[w] = None
  /\ chan[w] # <<>>
  /\ workerBuf' = [workerBuf EXCEPT ![w] = Head(chan[w])]
  /\ chan' = [chan EXCEPT ![w] = Tail(@)]
  /\ UNCHANGED <<pool, buf, freeBuf, readerPc, lastRead>>

(* The Run loop of worker w: the adapter's ProcessIngressPkt or            *)
(* ProcessEgressPkt handles the packet (Adapter models the routing), then  *)
(* pktsPool.put(buf[:cap(buf)]) appends the buffer to w's pool.            *)
WorkerPut(w) ==
  /\ workerBuf[w] # None
  /\ pool' = [pool EXCEPT ![w] = Append(@, workerBuf[w])]
  /\ workerBuf' = [workerBuf EXCEPT ![w] = None]
  /\ UNCHANGED <<chan, buf, freeBuf, readerPc, lastRead>>

Next ==
  \/ ListenRead
  \/ \E w \in Workers : WorkerReceive(w) \/ WorkerPut(w)
  \/ \E r \in Readers : ReaderRead(r)
  \/ \E r \in AllReaders : ReaderGet(r) \/ ReaderSend(r)

Spec == Init /\ [][Next]_vars

-----------------------------------------------------------------------------
(* Number of places a buffer is held in: a pool, a channel, a worker, a    *)
(* reader's buf or freeBuf.                                                *)
Holders(b) ==
  LET InSeq(s) == Cardinality({i \in DOMAIN s : s[i] = b})
  IN
     InSeq(pool["ingress"]) + InSeq(pool["egress"])
     + InSeq(chan["ingress"]) + InSeq(chan["egress"])
     + Cardinality({w \in Workers : workerBuf[w] = b})
     + Cardinality({r \in AllReaders : buf[r] = b})
     + Cardinality({r \in AllReaders : freeBuf[r] = b})

(* Every buffer, those of the two pools and those the reader goroutines    *)
(* allocated, is held in exactly one place: no reader reads a packet into  *)
(* a buffer a worker has yet to process, and no pool hands out one that is *)
(* still queued, whatever the interleaving of the peers' readers, the      *)
(* listen loop, the two workers and empty pools.                           *)
BuffersConserved == \A b \in Buffers : Holders(b) = 1

(* A datagram the peer's eConn.writeTo produced is returned by ReadFrom    *)
(* with the length of the payload that was written.                        *)
GenuineDelivered ==
  \A r \in Readers :
    lastRead[r].genuine =>
      lastRead[r].result = [kind |-> "ok", len |-> lastRead[r].payload]

(* No datagram makes a reader goroutine panic: ReadFrom drops one whose    *)
(* padding is invalid (the spec's treatment of bad padding).               *)
NoReaderPanic == \A r \in Readers : readerPc[r] # "crashed"

=============================================================================
