---------------------------- MODULE MCPipelines ----------------------------
(* Instances of Pipelines for TLC: two peers' data readers sharing the     *)
(* ingress worker's pool, and the listen loop with the egress worker's.    *)
(* newWorker sizes the pool and the channel alike (chanLength); here the   *)
(* channels hold 2, the ingress pool 2 and the egress pool 1 buffer.       *)
EXTENDS Pipelines

CONSTANTS r1, r2, listener, b1, b2, b3, b4, e1, e2

MCReaders == {r1, r2}
MCPoolBuffers == ("ingress" :> {b1, b2}) @@ ("egress" :> {e1})
MCReaderBuffers == (r1 :> b3) @@ (r2 :> b4) @@ (listener :> e2)

(* Payload lengths below, at and above a block boundary.                   *)
MCPayloads == {0, 5, 16}
(* Datagrams of others: a short one, one and two blocks.                   *)
MCForgedLens == {8, 16, 32}
(* Last decrypted bytes that keep dataLen non-negative ...                 *)
InRangeLast == {0, 16}
(* ... and one past the length of a one-block datagram.                    *)
OutOfRangeLast == {17}

PoolSymmetry == Permutations({b1, b2})
=============================================================================
