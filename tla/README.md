# TLA+ models of the SCION site-to-site gateway

These modules model the concurrent core of the gateway under `src/gateway`:
- the handshake between two gateways;
- the path manager that keeps a peer connection alive across path failures;
- the ingress and egress packet pipelines with their buffer pools;
- the IP adapter's routing table, which the control plane fills.

Each module translates the Go code named in `PROJECT.json` ("map").
Data is abstracted to model values; goroutines, error returns and their order are kept.

## The system and how its parts interact

A gateway has one `peer` per configured remote. The parts interact as follows:

1. **Handshake** (`peer.go`, `gateway.go`, `keymgr.go`). `Gateway.Start` starts the accept
   goroutine, then registers a peer per remote in `asClientMap` and starts its
   `initHandshaking`, which creates the gateway's key pair on first use and sends
   `HandshakeRequest`s through `WriteMsgOneOff` until the handshake completes.
   - The accept loop of the remote looks the sender up with `getPeer` (a request from a peer not yet registered is dropped) and hands each request to `handleHandshakeRequest`.
   - That handler verifies the key's tag, refreshes paths and sets up the egress connections.
   - It then calls `initDataCrypto`, sets `cryptoHandshakeComplete` and sends a `HandshakeResponse`.
   - `completeHandshake` finishes once a gateway has both its own crypto and the remote's response.
     It starts the path manager and the adapter's `HandshakeComplete`.
2. **Path manager** (`pathmgr.go`, `hiddenpath.go`). Three goroutines run per peer:
   - a keepalive sender;
   - a keepalive checker, which calls `migrate` when keepalives stop arriving;
   - a 15 s path refresher.

   `migrate` takes `isMigrating` with a CAS and picks `nextPath`, hidden paths
   first when `hiddenFailover` is set. It then redials both egress connections
   and schedules a cleanup, which sleeps `KeepAliveTimeout`, clears `isMigrating`
   and resets the keepalive timer.
3. **Packet pipelines** (`peer.go`, `econn.go`, `pool.go`, `worker.go`, `gateway.go`). Ingress:
   - Each peer's data reader calls `eConn.ReadFrom`, which decrypts and strips the padding.
   - It takes a free buffer from the ingress worker's `memPool` and queues the filled one on `pktsChannel`.
   - The worker hands the packet to the adapter and returns the buffer to the pool.
   - Egress follows the same pattern: `Gateway.listen` reads from the adapter into buffers of the egress worker's pool, and the egress worker calls `ProcessEgressPkt`.
4. **IP adapter** (`adapters/ip`).
   - `HandshakeComplete` sends `ConfMsg{local subnet}` once.
   - The remote's control reader for that peer calls `ProcessCtrlMsg`.
   - `ProcessCtrlMsg` calls `Router.addNet`, which appends to `netToClientList` and adds a kernel route.
   - `ProcessEgressPkt` routes TUN packets by the first subnet that matches.

## Modules

| Module | Models | State ↔ code |
|---|---|---|
| `HandshakeFlags` | spec.md §3 "Handshake flags", §4.7 | the abstract promise: `cryptoDone` set once, `ackReceived` only after the remote's `cryptoDone`, `completed` once both hold |
| `Handshake` | peer.go 77-99, 176-316; gateway.go accept, Start, getPeer, WriteMsgOneOff; keymgr `newKeyMgr`, `getPubKey`, `initDataCrypto`; drkey host keys | `initPc` ↔ `"start"` until Start registers the peer, then the initiator goroutine; `pending` ↔ `go handleHandshakeRequest` goroutines queued on the handler mutex; `cryptoHandshakeComplete`, `checkHandshakeComplete`, `handshakeCompleted` ↔ the peer's flags; `net` ↔ datagrams in flight; `sharedKeyWith` ↔ whose public key `initDataCrypto` used; `keyPair` ↔ `k.group`/`k.priKey` set by `computePriPubPair`; `crashed` ↔ the process ended by an unrecovered panic |
| `PathMgr` | pathmgr.go (all goroutines), hiddenpath.go `handleHiddenPathRequest`, peer.go `setupEgressConnections`/`getNewEConn`, econn.go `writeTo`'s check and send | `paths`, `pathIdx`, `hiddenPaths`, `hiddenPathsIdx`, `currPath`, `isMigrating` ↔ the pathMgr fields; `egressCtrl`, `egressData` ↔ the path each egress eConn was dialled on, or `NoConn` for nil; `elapsed` ↔ `now - lastKeepAlive` in ticks; `migPc`, `migNext` ↔ where `migrate` is; `sleepLeft`, `resetPending` ↔ the cleanup goroutine; `writeChecked` ↔ an egress worker of a gateway in `DataWriters` between `writeTo`'s `isMigrating` check and its `WriteTo`; `crashed` ↔ the gateway process ended by a panic of one of these goroutines; `NilHiddenPath` ↔ the nil `*partialHiddenPath` |
| `Pipelines` | peer.go `startIngressDataHandler`, gateway.go `listen`, econn.go `writeTo`/`ReadFrom`, pool.go, worker.go | per worker (ingress, egress): `pool` (a stack), `chan` (a FIFO that `PktsChannelSend`, i.e. `ProcessIngressPkt`/`ProcessEgressPkt`, appends to while it holds fewer than `ChanLength` buffers), `workerBuf`; per reader goroutine (the peers' data readers and the listen loop): `buf`, `freeBuf`, pc; `lastRead` is a history variable |
| `Adapter` | ipadapter.go `HandshakeComplete`, `ProcessCtrlMsg`, `ProcessEgressPkt`, `getDestIP`; router.go | `routes` ↔ `netToClientList`; `kernel` ↔ kernel routes into the TUN; `ctrlPc`/`snapshot` ↔ a control reader inside `append`; `announcer` is a history variable |

Each `MC*.tla` module gives the model values and the sets that the `.cfg` files use.

### Modelling choices

- **Handshake.**
  - Every error return of the handlers is a nondeterministic failure, bounded by `MaxFaults`: DRKey, path query, egress dial, and the request or response send.
  - A lost datagram is the `Lose` action.
  - A forged request carries a key that is not the remote's and a tag that does not verify.
  - The key pair exists only once `initHandshaking` has called `getPubKey`. A request handled before that reaches `computeSharedKey` with a nil group: the panic, which nothing recovers, sets `crashed`, and every action of that gateway is guarded by `Alive`.
  - Handshake refines HandshakeFlags: the property `ImplementsHandshakeFlags` is `HandshakeFlags!Spec` under `cryptoDone <- cryptoHandshakeComplete`, `ackReceived <- checkHandshakeComplete`, `completed <- handshakeCompleted`.
- **Time.** `PathMgr` counts time in ticks of the keepalive check.
  - `Tick` may happen only when no goroutine is due to run (`Due`). The checker's 30 ms interval is far below the 300 ms timeout, so a due goroutine runs before the next tick.
  - `elapsed` is capped at `KeepAliveTimeout + 1`. A keepalive resets it to 0; `resetTimeouts` sets it to `-MigrateGraceTimeout`.
  - `Tick` does not happen while a gateway that sends keepalives over a working path would let the other gateway time out. A keepalive is sent every 50 ms, well within the timeout.
- **Panics.** Nothing in the gateway calls `recover`, so a panicking goroutine ends the process: the gateway's `crashed` flag is set, and every action of it is guarded by `Alive`. The path manager panics
  - when `updatePathsToRemote` installs an empty answer and reads `m.paths[0]` (also during `handleHandshakeRequest`, the `noPaths` fault of `Handshake`);
  - when `keepAliveSender` or the egress worker writes on the nil eConn a failed dial left;
  - when `migrate` picks the nil partial hidden path that `combineHiddenSegments` appended after `newPartialHiddenPath` failed.
  The invariants of the passing runs are checked in every state, including those after a panic.
- **Goroutine steps in migrate.**
  - `migrate` is split where another goroutine can interleave: the checker's call with the CAS (one step: the checker goroutine is `migrate`'s only caller and calls it synchronously, so two migrations never overlap and no property is spent on it), `nextPath` under the mutex, the `currPath` store outside it, and the redial.
  - The cleanup is split the same way: the sleep, clearing `isMigrating`, and `resetTimeouts`.
- **Pipelines.** Datagrams are their length and the last decrypted byte:
  - a datagram of the peer was produced by `writeTo` from a payload;
  - a datagram of anybody else decrypts to an arbitrary last byte.
- **Adapter.** `addNet`'s `append` to a shared slice, which has no lock, is a read step followed by a write step. That is how two goroutines executing it can interleave.

## Runs

| Run | Checks | Result |
|---|---|---|
| handshake_safety | `ImplementsHandshakeFlags` (refinement of the spec's flag protocol) under every fault kind (3 faults) | holds (about 158 k states) |
| handshake_liveness | `BothCompleteUnlessCrashed` under the faults the retry loop recovers from, requests dropped before registration included | holds |
| handshake_lost_response | `BothCompleteUnlessCrashed` with lost responses | violated: a lost response is never resent, because requests are ignored once crypto is set (peer.go:209) |
| handshake_early_request | `NoHandlerPanic` with no faults | violated: the remote's request is handled before this gateway's `initHandshaking` created its key pair, and `computeSharedKey` dereferences the nil group (keymgr.go:104) |
| handshake_forged_key | `KeyAuthentic` with one forged request | violated: a tag mismatch is only logged (peer.go:222) |
| pathmgr_safety | `PathIdxValid`: refreshes that shrink the list or come back empty, hidden paths that may be nil, dial failures, two gateways | holds (about 10 M states, under 2 minutes) |
| pathmgr_liveness | `FailedPathEventuallyLeft` (unless the gateway panicked), with three paths of which two are down, one dial failure and one gateway writing data | holds |
| pathmgr_grace_race | `NoMigrationBeforeGrace` | violated: the cleanup clears `isMigrating` before `resetTimeouts` (pathmgr.go:195-196) |
| pathmgr_dial_failure | `NoPathMgrPanic` | violated: a failed dial leaves a nil control eConn (peer.go:301), and the next keepalive writes on it and panics (econn.go:71) |
| pipelines_safety | `BuffersConserved`, `GenuineDelivered` with two data readers and the listen loop, 2-slot channels, 2 ingress and 1 egress pool buffers | holds (about 234 k states) |
| pipelines_bad_padding | `NoReaderPanic` | violated: a padding byte above the length panics the reader (econn.go:92) |
| adapter_route_race | `RoutesToFirstAnnouncer` with ga peered to gb and gc | violated: two control readers append concurrently and one route is lost (router.go:52) |

Each property of a passing run has a mutant in `PROJECT.json`: the same
definition with a plausible bug (a dropped guard or reset, a swapped order, a
wrong formula), which TLC finds violating the property.

`PathMgrWriteRace.cfg` is an extra configuration outside the run list. It checks
`NoWriteWhileMigrating` with one data writer and finds it violated in 10 states:
the worker passes `writeTo`'s `isMigrating` check, `migrate` takes the CAS, and the
datagram is sent during the migration (econn.go:58, against spec §3, §5 and §8).
It is recorded as a hazard in `PROJECT.json`. Two more configurations outside the
run list find `NoPathMgrPanic` violated by the other causes:
- `PathMgrEmptyQuery.cfg`: a refresh that gets no path panics at once (pathmgr.go:155), where spec §4.6 says *NO_PATHS*;
- `PathMgrNilHiddenPath.cfg`: a migration onto the nil hidden path stores it as `currPath` and panics on the next line, where the log call runs `Interfaces()` on the nil receiver (`pathmgr.go:183`).

### Bounds

- **Two gateways** are enough for the handshake and the path manager: each peer
  relation is a pair, and both directions run at once.
- **Adapter.** Its race needs one gateway with two remotes, hence three gateways.
- **PathMgr safety.**
  - Two public paths, one hidden path, and queries that return a shorter list or an error.
  - The first path is down.
  - Timeout and grace of one tick make a migration, its cleanup and a refresh overlap in every order.
- **PathMgr liveness.** Three paths, two of them down, so a migration must skip a failed path. One dial may fail, so a migration must be retried. The refresher is left out of this run (it is in the safety run); with it, the state space does not fit in five minutes.
- **Pipelines.**
  - Payload lengths 0, 5 and 16 cover the full-block padding edge.
  - Forged lengths 8, 16 and 32 cover the invalid-length branch.
  - Two ingress pool buffers, one egress buffer and channels of two let a pool run empty and a channel fill.

### Fairness

- Goroutines get weak fairness (in `PathMgr`, `keepAliveSender`'s write on a nil eConn included): the Go scheduler runs a runnable goroutine eventually, and tickers keep firing.
- A datagram that is not lost is delivered.
- No fairness for failures, losses, forgeries, the 15 s refresher or the one-off hidden path request. The code does not wait on any of them.
- `PathMgr` gives `Tick` strong fairness: an egress worker that writes over and over must not stop time, and the keepalive checker's ticker fires regardless of the writers. An egress write in progress gets weak fairness.
- `Gateway.Start`'s registration of each peer gets weak fairness: the loop runs right after the accept goroutine starts.
- The handshake runs disable deadlock checking: once both gateways complete, the initiators stop and the model has nothing left to do.

## Not modelled

- Gob encoding (`message.go`) and AES/CMAC arithmetic (`crypto.go`, key derivation in `keymgr.go`, `drkey.go`).
  Messages are records and keys are identities.
- Configuration and TUN set-up: `conf.go`, `utils.go`, `main.go`, `adapters/ip/utils.go`, and `newIPAdapter`. Of startup, only `Start`'s per-remote loop is modelled.
- The LaNeCa policy adapter (`src/laneca`), which the specification leaves out of scope. It imports another `gateway` package with a different `Adapter` interface and `main.go` does not use it.
- The unsynchronised `cryptoHandshakeComplete` reads, and the `asClientMap` write in `Start` racing `getPeer` in `accept`: each map or flag access is atomic in the model.
  They are listed as hazards.
- The unlocked `Router.Lookup` of the egress worker racing `addNet`'s append (`router.go:43`, `:52`). `Adapter` reads `routes[g]` atomically, so a lookup either sees the new entry or drops the packet with the outcome `"noroute"`. A torn read of the slice header is a data race with no outcome that can be enumerated.
- `getPeerWriter`'s error path (`ipadapter.go:207`), which uses a nil writer. It cannot be reached: the router learns an IA only from a peer that is registered in `asClientMap`, and peers are never removed.
- The `ConfMsg` that is never resent (`ipadapter.go:158`).
  `Adapter` has a `Lose` action for it, bounded by `MaxLoss`, which the checked configuration sets to 0.
