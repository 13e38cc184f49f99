------------------------------ MODULE PathMgr ------------------------------
(***************************************************************************)
(* The path managers of gateway/pathmgr.go on two gateways that completed  *)
(* their handshake with each other, from the moment completeHandshake      *)
(* calls start().  Each gateway's timeout is driven by the keepalives the  *)
(* OTHER one sends, so the two managers are modelled together.             *)
(*                                                                         *)
(* Goroutines of a path manager, each by the steps it takes between points *)
(* where another goroutine can run:                                        *)
(*   - keepAliveSender: a keepalive on egressCtrlEConn unless isMigrating; *)
(*   - keepAliveChecker, which calls migrate() synchronously: the CAS of   *)
(*     isMigrating, nextPath under pathsUpdateMutex, the assignment of     *)
(*     currPath after the unlock, setupEgressConnections on getCurrPath(); *)
(*   - the cleanup goroutine migrate() spawns: it sleeps KeepAliveTimeout, *)
(*     stores isMigrating = 0, then calls resetTimeouts;                   *)
(*   - pathRefresher (updatePathsToRemote);                                *)
(*   - the ingress control reader, handling KeepAlive and                  *)
(*     HiddenPathRequest messages.                                         *)
(*                                                                         *)
(* Time is discrete.  elapsed[g] is now - lastKeepAlive in ticks, capped at *)
(* KeepAliveTimeout + 1 (the checker only asks whether it exceeds the      *)
(* timeout); resetTimeouts makes it -MigrateGraceTimeout.  The keepalive   *)
(* interval and the checker interval are far below the timeout and are     *)
(* not counted in ticks.  Paths are model values standing for              *)
(* fingerprints, the same in both directions; Hops gives their hop counts; *)
(* a path in Down drops every datagram.  NoConn is the nil *eConn that      *)
(* setupEgressConnections stores when getNewEConn fails.                   *)
(***************************************************************************)
EXTENDS Integers, FiniteSets, Sequences, SequencesExt

CONSTANTS
  Gateways,         \* the two gateways, each the other's remote
  Paths,            \* public paths between them (by fingerprint)
  Hops,             \* Hops[p]: number of interfaces of path p
  HiddenPathSeq,    \* the hidden paths handleHiddenPathRequest builds,
                    \*   <<>> when no rendezvous is configured
  PartialMayFail,   \* newPartialHiddenPath may return an error
  NilHiddenPath,    \* the nil *partialHiddenPath appended on that error
  Down,             \* the paths on which no datagram gets through
  QueryResults,     \* possible answers of the path service: a set of
                    \*   paths (possibly empty), or QueryError
  QueryError,
  NoConn,
  HiddenFailover,   \* the -hiddenFailover flag
  DialMayFail,      \* network.Dial in getNewEConn may return an error
  MaxFailures,      \* bound on the number of dial failures
  MaxRefreshes,     \* bound on pathRefresher ticks per gateway
  KeepAliveTimeout, \* in ticks
  MigrateGraceTimeout,
  DataWriters       \* the gateways whose egress worker writes data packets

AllPaths == Paths \cup ToSet(HiddenPathSeq)
PathValues == AllPaths \cup {NilHiddenPath}

ASSUME Cardinality(Gateways) = 2
ASSUME \A p \in AllPaths : p \in DOMAIN Hops /\ Hops[p] \in Nat
ASSUME Down \subseteq AllPaths /\ NoConn \notin AllPaths
ASSUME NilHiddenPath \notin AllPaths \cup {NoConn}
ASSUME \A q \in QueryResults : q = QueryError \/ q \subseteq Paths
ASSUME KeepAliveTimeout \in Nat \ {0} /\ MigrateGraceTimeout \in Nat
ASSUME DataWriters \subseteq Gateways

Other(g) == CHOOSE h \in Gateways : h # g

NoSleeper == -1

(* The value of migrate()'s result while no migration is between nextPath  *)
(* and the assignment of currPath (a dead local variable of the code).     *)
NoNext == CHOOSE p \in AllPaths : TRUE

VARIABLES
  paths, pathIdx, currPath,     \* pathMgr fields guarded by pathsUpdateMutex
  hiddenPaths, hiddenPathsIdx,
  egressCtrl, egressData,       \* the paths the egress eConns were dialled
                                \*   on, or NoConn
  isMigrating,
  elapsed,                      \* now - lastKeepAlive
  migPc,                        \* keepAliveChecker inside migrate():
                                \*   "idle", "next", "assign" or "setup"
  migNext,                      \* the path nextPath returned
  sleepLeft,                    \* ticks the cleanup goroutine still sleeps
  resetPending,                 \* a cleanup goroutine has cleared
                                \*   isMigrating, resetTimeouts not yet run
  hiddenRecv,                   \* the remote's HiddenPathRequest arrived
  graceGiven,                   \* history: since the last migration
                                \*   installed a path, the timeouts were
                                \*   reset or a keepalive arrived
  refreshes,
  failures,
  writeChecked,                 \* the egress worker is inside writeTo, past
                                \*   its isMigrating check
  crashed                       \* a goroutine of g panicked: nothing
                                \*   recovers, the gateway process is gone

vars == <<paths, pathIdx, currPath, hiddenPaths, hiddenPathsIdx, egressCtrl,
          egressData, isMigrating, elapsed, migPc, migNext, sleepLeft,
          resetPending, hiddenRecv, graceGiven, refreshes, failures,
          writeChecked, crashed>>

TypeOK ==
  /\ paths \in [Gateways -> Seq(Paths) \ {<<>>}]
  /\ pathIdx \in [Gateways -> Nat] /\ hiddenPathsIdx \in [Gateways -> Nat]
  /\ currPath \in [Gateways -> PathValues]
  /\ migNext \in [Gateways -> PathValues]
  /\ egressCtrl \in [Gateways -> AllPaths \cup {NoConn}]
  /\ egressData \in [Gateways -> AllPaths \cup {NoConn}]
  /\ hiddenPaths \in [Gateways -> Seq(PathValues)]
  /\ isMigrating \in [Gateways -> {0, 1}]
  /\ elapsed \in [Gateways -> -MigrateGraceTimeout..(KeepAliveTimeout + 1)]
  /\ migPc \in [Gateways -> {"idle", "next", "assign", "setup"}]
  /\ sleepLeft \in [Gateways -> {NoSleeper} \cup 0..KeepAliveTimeout]
  /\ resetPending \in [Gateways -> BOOLEAN]
  /\ hiddenRecv \in [Gateways -> BOOLEAN]
  /\ graceGiven \in [Gateways -> BOOLEAN]
  /\ refreshes \in [Gateways -> 0..MaxRefreshes]
  /\ failures \in 0..MaxFailures
  /\ writeChecked \in [Gateways -> BOOLEAN]
  /\ crashed \in [Gateways -> BOOLEAN]

-----------------------------------------------------------------------------
(* updatePathsToRemote: the answer de-duplicated by fingerprint through a  *)
(* map (whose iteration order Go leaves unspecified) and sorted by         *)
(* leastHopsPathSorter with the unstable sort.Slice: any ordering of the   *)
(* distinct paths by non-decreasing hop count.                             *)
SortPaths(q) ==
  { s \in SetToSeqs(q) : IsSorted(s, LAMBDA a, b : Hops[a] <= Hops[b]) }

(* nextPath with the public cursor not advanced.                          *)
NextPathStay(g, hidden) ==
  [pathIdx |-> pathIdx[g], hiddenPathsIdx |-> hiddenPathsIdx[g],
   path |-> paths[g][pathIdx[g] + 1]]

(* pathMgr.nextPath(hidden) on gateway g, under pathsUpdateMutex: the new  *)
(* cursors and the path it returns.  Indices are 0-based as in the code.   *)
NextPath(g, hidden) ==
  LET hp == hiddenPaths[g]
      hi == hiddenPathsIdx[g]
  IN IF hidden /\ Len(hp) > 0
     THEN IF currPath[g] = hp[hi + 1] /\ hi = Len(hp) - 1
          THEN [pathIdx |-> pathIdx[g], hiddenPathsIdx |-> 0,
                path |-> paths[g][pathIdx[g] + 1]]
          ELSE LET h == (hi + 1) % Len(hp)
               IN [pathIdx |-> pathIdx[g], hiddenPathsIdx |-> h,
                   path |-> hp[h + 1]]
     ELSE LET i == (pathIdx[g] + 1) % Len(paths[g])
          IN [pathIdx |-> i, hiddenPathsIdx |-> hi, path |-> paths[g][i + 1]]

(* pathMgr.resetTimeouts: lastKeepAlive = now + MigrateGraceTimeout.       *)
ResetTimeouts(g) == elapsed' = [elapsed EXCEPT ![g] = -MigrateGraceTimeout]

Alive(g) == ~crashed[g]

(* A datagram sent on an eConn dialled on p gets through.                  *)
Working(p) == p \in AllPaths \ Down

(* keepAliveSender of g writes a keepalive that reaches the other gateway. *)
SendsKeepAlives(g) ==
  Alive(g) /\ isMigrating[g] = 0 /\ Working(egressCtrl[g])

DialFails == DialMayFail /\ failures < MaxFailures

-----------------------------------------------------------------------------
(* State after completeHandshake on both gateways: handleHandshakeRequest  *)
(* ran updatePathsToRemote and setupEgressConnections on currPath, and     *)
(* start() called resetTimeouts.                                           *)
Init ==
  /\ paths \in [Gateways ->
                  UNION {SortPaths(q) : q \in QueryResults \ {QueryError, {}}}]
  /\ pathIdx = [g \in Gateways |-> 0]
  /\ currPath = [g \in Gateways |-> paths[g][1]]
  /\ hiddenPaths = [g \in Gateways |-> <<>>]
  /\ hiddenPathsIdx = [g \in Gateways |-> 0]
  /\ egressCtrl = currPath /\ egressData = currPath
  /\ isMigrating = [g \in Gateways |-> 0]
  /\ elapsed = [g \in Gateways |-> -MigrateGraceTimeout]
  /\ migPc = [g \in Gateways |-> "idle"]
  /\ migNext = [g \in Gateways |-> NoNext]
  /\ sleepLeft = [g \in Gateways |-> NoSleeper]
  /\ resetPending = [g \in Gateways |-> FALSE]
  /\ hiddenRecv = [g \in Gateways |-> FALSE]
  /\ graceGiven = [g \in Gateways |-> TRUE]
  /\ refreshes = [g \in Gateways |-> 0]
  /\ failures = 0
  /\ writeChecked = [g \in Gateways |-> FALSE]
  /\ crashed = [g \in Gateways |-> FALSE]

(* Steps of g that are due now and take far less than a tick: the checker *)
(* (every 30 ms) seeing an expired timeout, migrate() once started, and    *)
(* the cleanup goroutine once its sleep is over, a writeTo under way, and  *)
(* keepAliveSender's next write (every 50 ms) on a nil control eConn.      *)
Due(g) ==
  /\ Alive(g)
  /\ \/ isMigrating[g] = 0 /\ elapsed[g] > KeepAliveTimeout
     \/ isMigrating[g] = 0 /\ egressCtrl[g] = NoConn
     \/ migPc[g] # "idle"
     \/ sleepLeft[g] = 0
     \/ resetPending[g]
     \/ writeChecked[g]

(* Time passes.  keepAliveSender writes every KeepAliveInterval, far     *)
(* below KeepAliveTimeout: while g sends keepalives on a working path, the *)
(* other gateway's timeout does not expire.  Due steps happen first.       *)
Tick ==
  /\ \A g \in Gateways :
       /\ SendsKeepAlives(g) => elapsed[Other(g)] < KeepAliveTimeout
       /\ ~Due(g)
  /\ elapsed' = [g \in Gateways |->
                   IF elapsed[g] > KeepAliveTimeout THEN elapsed[g]
                                                    ELSE elapsed[g] + 1]
  /\ sleepLeft' = [g \in Gateways |->
                     IF sleepLeft[g] > 0 THEN sleepLeft[g] - 1
                                         ELSE sleepLeft[g]]
  /\ UNCHANGED <<paths, pathIdx, currPath, hiddenPaths, hiddenPathsIdx,
                 egressCtrl, egressData, isMigrating, migPc, migNext,
                 resetPending, hiddenRecv, graceGiven, refreshes, failures,
                 writeChecked, crashed>>

(* keepAliveSender of g writes a keepalive on egressCtrlEConn, and the     *)
(* ingress control reader of the other gateway calls                       *)
(* handleKeepAliveRequest: lastKeepAlive = now.                            *)
DeliverKeepAlive(g) ==
  /\ SendsKeepAlives(g)
  /\ elapsed' = [elapsed EXCEPT ![Other(g)] = 0]
  /\ graceGiven' = [graceGiven EXCEPT ![Other(g)] = TRUE]
  /\ UNCHANGED <<paths, pathIdx, currPath, hiddenPaths, hiddenPathsIdx,
                 egressCtrl, egressData, isMigrating, migPc, migNext,
                 sleepLeft, resetPending, hiddenRecv, refreshes, failures,
                 writeChecked, crashed>>

(* keepAliveSender of g, isMigrating = 0, when the last migrate() left      *)
(* egressCtrlEConn nil: WriteMsg's Write reads e.conn of the nil eConn and *)
(* the goroutine panics.                                                   *)
KeepAliveSendNil(g) ==
  /\ Alive(g)
  /\ isMigrating[g] = 0
  /\ egressCtrl[g] = NoConn
  /\ crashed' = [crashed EXCEPT ![g] = TRUE]
  /\ UNCHANGED <<paths, pathIdx, currPath, hiddenPaths, hiddenPathsIdx,
                 egressCtrl, egressData, isMigrating, elapsed, migPc, migNext,
                 sleepLeft, resetPending, hiddenRecv, graceGiven, refreshes,
                 failures, writeChecked>>

(* keepAliveChecker tick on g: skipped while isMigrating = 1; on a timeout *)
(* it calls migrate(), whose CompareAndSwap(0, 1) then succeeds (only this *)
(* goroutine sets isMigrating to 1).                                       *)
KeepAliveChecker(g) ==
  /\ Alive(g)
  /\ migPc[g] = "idle"
  /\ isMigrating[g] = 0
  /\ elapsed[g] > KeepAliveTimeout
  /\ isMigrating' = [isMigrating EXCEPT ![g] = 1]
  /\ migPc' = [migPc EXCEPT ![g] = "next"]
  /\ UNCHANGED <<paths, pathIdx, currPath, hiddenPaths, hiddenPathsIdx,
                 egressCtrl, egressData, elapsed, migNext, sleepLeft,
                 resetPending, hiddenRecv, graceGiven, refreshes, failures,
                 writeChecked, crashed>>

(* migrate: nextPath with the hiddenFailover flag, under the mutex.        *)
MigrateNextPath(g) ==
  /\ Alive(g)
  /\ migPc[g] = "next"
  /\ LET r == NextPath(g, HiddenFailover)
     IN /\ pathIdx' = [pathIdx EXCEPT ![g] = r.pathIdx]
        /\ hiddenPathsIdx' = [hiddenPathsIdx EXCEPT ![g] = r.hiddenPathsIdx]
        /\ migNext' = [migNext EXCEPT ![g] = r.path]
  /\ migPc' = [migPc EXCEPT ![g] = "assign"]
  /\ UNCHANGED <<paths, currPath, hiddenPaths, egressCtrl, egressData,
                 isMigrating, elapsed, sleepLeft, resetPending, hiddenRecv,
                 graceGiven, refreshes, failures,
                 writeChecked, crashed>>

(* migrate: m.currPath = <what nextPath returned>, outside the mutex,     *)
(* then the log line calls m.currPath.Interfaces(), which reads p.ifaces   *)
(* of a nil *partialHiddenPath and panics.                                 *)
MigrateAssign(g) ==
  /\ Alive(g)
  /\ migPc[g] = "assign"
  /\ currPath' = [currPath EXCEPT ![g] = migNext[g]]
  /\ migNext' = [migNext EXCEPT ![g] = NoNext]
  /\ \/ /\ migNext[g] = NilHiddenPath
        /\ crashed' = [crashed EXCEPT ![g] = TRUE]
        /\ UNCHANGED migPc
     \/ /\ migNext[g] # NilHiddenPath
        /\ migPc' = [migPc EXCEPT ![g] = "setup"]
        /\ UNCHANGED crashed
  /\ UNCHANGED <<paths, pathIdx, hiddenPaths, hiddenPathsIdx, egressCtrl,
                 egressData, isMigrating, elapsed, sleepLeft,
                 resetPending, hiddenRecv, graceGiven, refreshes, failures,
                 writeChecked>>

(* migrate: setupEgressConnections dials the control eConn, then the data  *)
(* eConn, on getCurrPath(), assigning each result, nil on error, to the    *)
(* peer's field.  On success migrate spawns the cleanup goroutine; on an   *)
(* error it stores isMigrating = 0 and returns.                            *)
MigrateSetup(g) ==
  /\ Alive(g)
  /\ migPc[g] = "setup"
  /\ migPc' = [migPc EXCEPT ![g] = "idle"]
  /\ \/ /\ egressCtrl' = [egressCtrl EXCEPT ![g] = currPath[g]]
        /\ egressData' = [egressData EXCEPT ![g] = currPath[g]]
        /\ sleepLeft' = [sleepLeft EXCEPT ![g] = KeepAliveTimeout]
        /\ graceGiven' = [graceGiven EXCEPT ![g] = FALSE]
        /\ UNCHANGED <<isMigrating, failures>>
     \/ /\ DialFails
        /\ \/ /\ egressCtrl' = [egressCtrl EXCEPT ![g] = NoConn]
              /\ UNCHANGED egressData
           \/ /\ egressCtrl' = [egressCtrl EXCEPT ![g] = currPath[g]]
              /\ egressData' = [egressData EXCEPT ![g] = NoConn]
        /\ isMigrating' = [isMigrating EXCEPT ![g] = 0]
        /\ failures' = failures + 1
        /\ UNCHANGED <<sleepLeft, graceGiven>>
  /\ UNCHANGED <<paths, pathIdx, currPath, hiddenPaths, hiddenPathsIdx,
                 elapsed, migNext, resetPending, hiddenRecv, refreshes,
                 writeChecked, crashed>>

(* Cleanup goroutine of migrate, after time.Sleep(KeepAliveTimeout):       *)
(* m.isMigrating = 0.                                                      *)
CleanupClear(g) ==
  /\ Alive(g)
  /\ sleepLeft[g] = 0
  /\ isMigrating' = [isMigrating EXCEPT ![g] = 0]
  /\ sleepLeft' = [sleepLeft EXCEPT ![g] = NoSleeper]
  /\ resetPending' = [resetPending EXCEPT ![g] = TRUE]
  /\ UNCHANGED <<paths, pathIdx, currPath, hiddenPaths, hiddenPathsIdx,
                 egressCtrl, egressData, elapsed, migPc, migNext, hiddenRecv,
                 graceGiven, refreshes, failures,
                 writeChecked, crashed>>

(* Cleanup goroutine of migrate, last statement: m.resetTimeouts().        *)
CleanupReset(g) ==
  /\ Alive(g)
  /\ resetPending[g]
  /\ ResetTimeouts(g)
  /\ graceGiven' = [graceGiven EXCEPT ![g] = TRUE]
  /\ resetPending' = [resetPending EXCEPT ![g] = FALSE]
  /\ UNCHANGED <<paths, pathIdx, currPath, hiddenPaths, hiddenPathsIdx,
                 egressCtrl, egressData, isMigrating, migPc, migNext,
                 sleepLeft, hiddenRecv, refreshes, failures,
                 writeChecked, crashed>>

(* updatePathsToRemote on g with the reset of pathIdx dropped.             *)
UpdatePathsKeepIdx(g) ==
  /\ Alive(g)
  /\ refreshes[g] < MaxRefreshes
  /\ refreshes' = [refreshes EXCEPT ![g] = @ + 1]
  /\ \E q \in QueryResults :
       \/ /\ q = QueryError
          /\ UNCHANGED <<paths, pathIdx, currPath, crashed>>
       \/ /\ q = {}
          /\ crashed' = [crashed EXCEPT ![g] = TRUE]
          /\ UNCHANGED <<paths, pathIdx, currPath>>
       \/ /\ q \notin {QueryError, {}}
          /\ UNCHANGED crashed
          /\ \E s \in SortPaths(q) :
               /\ paths' = [paths EXCEPT ![g] = s]
               /\ currPath' = [currPath EXCEPT ![g] = s[1]]
               /\ UNCHANGED pathIdx
  /\ UNCHANGED <<hiddenPaths, hiddenPathsIdx, egressCtrl, egressData,
                 isMigrating, elapsed, migPc, migNext, sleepLeft,
                 resetPending, hiddenRecv, graceGiven, failures, writeChecked>>

(* pathRefresher tick on g, updatePathsToRemote: a query error leaves      *)
(* everything as it is; otherwise, under the mutex, the new list is        *)
(* installed, pathIdx = 0 and currPath = paths[0].  The egress eConns are  *)
(* not re-dialled.  An empty answer is installed too, and m.paths[0]       *)
(* panics (there is no NO_PATHS error).                                    *)
UpdatePathsToRemote(g) ==
  /\ Alive(g)
  /\ refreshes[g] < MaxRefreshes
  /\ refreshes' = [refreshes EXCEPT ![g] = @ + 1]
  /\ \E q \in QueryResults :
       \/ /\ q = QueryError
          /\ UNCHANGED <<paths, pathIdx, currPath, crashed>>
       \/ /\ q = {}
          /\ crashed' = [crashed EXCEPT ![g] = TRUE]
          /\ UNCHANGED <<paths, pathIdx, currPath>>
       \/ /\ q \notin {QueryError, {}}
          /\ UNCHANGED crashed
          /\ \E s \in SortPaths(q) :
               /\ paths' = [paths EXCEPT ![g] = s]
               /\ pathIdx' = [pathIdx EXCEPT ![g] = 0]
               /\ currPath' = [currPath EXCEPT ![g] = s[1]]
  /\ UNCHANGED <<hiddenPaths, hiddenPathsIdx, egressCtrl, egressData,
                 isMigrating, elapsed, migPc, migNext, sleepLeft,
                 resetPending, hiddenRecv, graceGiven, failures, writeChecked>>

(* combineHiddenSegments: every combined path through the rendezvous is    *)
(* appended, and the nil *partialHiddenPath in its place when               *)
(* newPartialHiddenPath fails (the error is only logged).                  *)
BuiltHiddenPaths ==
  LET Entry(i) == {HiddenPathSeq[i]} \cup
                  (IF PartialMayFail THEN {NilHiddenPath} ELSE {})
  IN {t \in [1..Len(HiddenPathSeq) -> PathValues] :
        \A i \in 1..Len(HiddenPathSeq) : t[i] \in Entry(i)}

(* The ingress control reader of g receives the HiddenPathRequest the      *)
(* other gateway's start() sent once, when a rendezvous is configured, and *)
(* calls handleHiddenPathRequest: buildHiddenPaths, then storeHiddenPaths, *)
(* which appends under the mutex and sets hiddenPathsIdx = 0.  The request *)
(* may have been lost, or the lookup of the local segment to the           *)
(* rendezvous may fail; then nothing is stored.                            *)
HandleHiddenPathRequest(g) ==
  /\ Alive(g)
  /\ HiddenPathSeq # <<>>
  /\ ~hiddenRecv[g]
  /\ hiddenRecv' = [hiddenRecv EXCEPT ![g] = TRUE]
  /\ \/ \E built \in BuiltHiddenPaths :
          /\ hiddenPaths' = [hiddenPaths EXCEPT ![g] = @ \o built]
          /\ hiddenPathsIdx' = [hiddenPathsIdx EXCEPT ![g] = 0]
     \/ UNCHANGED <<hiddenPaths, hiddenPathsIdx>>
  /\ UNCHANGED <<paths, pathIdx, currPath, egressCtrl, egressData,
                 isMigrating, elapsed, migPc, migNext, sleepLeft,
                 resetPending, graceGiven, refreshes, failures,
                 writeChecked, crashed>>

(* The egress worker of g in ProcessEgressPkt: DataWriter() returns       *)
(* egressDataEConn and writeTo finds cryptoHandshakeComplete (set before   *)
(* the path manager starts) and isMigrating = 0; with isMigrating = 1     *)
(* writeTo returns PeerIsMigratingError and nothing changes.  Write on a   *)
(* nil egressDataEConn reads e.conn and panics.                            *)
WriteCheck(g) ==
  /\ Alive(g)
  /\ g \in DataWriters
  /\ ~writeChecked[g]
  /\ \/ /\ egressData[g] # NoConn
        /\ isMigrating[g] = 0
        /\ writeChecked' = [writeChecked EXCEPT ![g] = TRUE]
        /\ UNCHANGED crashed
     \/ /\ egressData[g] = NoConn
        /\ crashed' = [crashed EXCEPT ![g] = TRUE]
        /\ UNCHANGED writeChecked
  /\ UNCHANGED <<paths, pathIdx, currPath, hiddenPaths, hiddenPathsIdx,
                 egressCtrl, egressData, isMigrating, elapsed, migPc,
                 migNext, sleepLeft, resetPending, hiddenRecv, graceGiven,
                 refreshes, failures>>

(* writeTo, continued: pad, CBC-encrypt and e.conn.WriteTo, without        *)
(* looking at isMigrating again.                                           *)
WriteSend(g) ==
  /\ Alive(g)
  /\ writeChecked[g]
  /\ writeChecked' = [writeChecked EXCEPT ![g] = FALSE]
  /\ UNCHANGED <<paths, pathIdx, currPath, hiddenPaths, hiddenPathsIdx,
                 egressCtrl, egressData, isMigrating, elapsed, migPc,
                 migNext, sleepLeft, resetPending, hiddenRecv, graceGiven,
                 refreshes, failures, crashed>>

Next ==
  \/ Tick
  \/ \E g \in Gateways :
       \/ DeliverKeepAlive(g)
       \/ KeepAliveSendNil(g)
       \/ KeepAliveChecker(g)
       \/ MigrateNextPath(g)
       \/ MigrateAssign(g)
       \/ MigrateSetup(g)
       \/ CleanupClear(g)
       \/ CleanupReset(g)
       \/ UpdatePathsToRemote(g)
       \/ HandleHiddenPathRequest(g)
       \/ WriteCheck(g)
       \/ WriteSend(g)

(* Every goroutine of a path manager is driven by a ticker or is runnable; *)
(* the Go scheduler eventually runs each of them.  pathRefresher (every    *)
(* 15 s) and the single HiddenPathRequest get no fairness: nothing waits   *)
(* on them.  Time passes however busily the egress worker writes: Tick,   *)
(* which an ongoing write disables for a moment, is strongly fair.  A     *)
(* write under way completes; new writes get no fairness.                  *)
Fairness ==
  /\ SF_vars(Tick)
  /\ \A g \in Gateways :
       /\ WF_vars(DeliverKeepAlive(g))
       /\ WF_vars(KeepAliveSendNil(g))
       /\ WF_vars(KeepAliveChecker(g))
       /\ WF_vars(MigrateNextPath(g))
       /\ WF_vars(MigrateAssign(g))
       /\ WF_vars(MigrateSetup(g))
       /\ WF_vars(CleanupClear(g))
       /\ WF_vars(CleanupReset(g))
       /\ WF_vars(WriteSend(g))

Spec == Init /\ [][Next]_vars
FairSpec == Spec /\ Fairness

-----------------------------------------------------------------------------
(* nextPath indexes paths[pathIdx] and hiddenPaths[hiddenPathsIdx]: the    *)
(* cursors stay inside the lists although updatePathsToRemote replaces the *)
(* list by one of another length and storeHiddenPaths grows the hidden     *)
(* list, between migrations of either gateway.                             *)
PathIdxValid ==
  \A g \in Gateways :
    /\ pathIdx[g] < Len(paths[g])
    /\ hiddenPaths[g] # <<>> => hiddenPathsIdx[g] < Len(hiddenPaths[g])

(* A gateway whose control eConn is on a path that drops its keepalives,  *)
(* or is nil after a failed dial, eventually has it on a working path      *)
(* again unless the gateway panicked: the other gateway times out and goes *)
(* silent, this one times out, and the migrations walk the path list, both *)
(* gateways migrating concurrently, a failed dial retried by the next      *)
(* timeout.                                                                *)
FailedPathEventuallyLeft ==
  \A g \in Gateways :
    ~Working(egressCtrl[g]) ~> (Working(egressCtrl[g]) \/ crashed[g])

(* No goroutine of the path manager panics, which would end the gateway   *)
(* process: a keepalive or data write on the nil eConn a failed dial left, *)
(* an empty answer of the path service installed by updatePathsToRemote,   *)
(* or a migration onto the nil partial hidden path combineHiddenSegments   *)
(* appended.                                                               *)
NoPathMgrPanic == \A g \in Gateways : ~crashed[g]

(* After a migration installs a path, keepAliveChecker starts no new        *)
(* migration before the cleanup goroutine's resetTimeouts (or a keepalive) *)
(* gave the new path its grace period.                                     *)
NoMigrationBeforeGrace ==
  [][\A g \in Gateways :
       isMigrating[g] = 0 /\ isMigrating'[g] = 1 => graceGiven[g]]_vars

(* While isMigrating = 1 no write on the data egress endpoint succeeds     *)
(* (spec sections 3, 5 and 8): a write that completes was not overtaken   *)
(* by keepAliveChecker's CompareAndSwap after writeTo's check of         *)
(* isMigrating.                                                            *)
NoWriteWhileMigrating ==
  [][\A g \in Gateways :
       writeChecked[g] /\ ~writeChecked'[g] => isMigrating[g] = 0]_vars

=============================================================================
