----------------------------- MODULE MCPathMgr -----------------------------
(* Instances of PathMgr for TLC: two gateways, three public paths p1..p3   *)
(* and one hidden path h1.  p2 and p3 have the same hop count, so the      *)
(* unstable sort of updatePathsToRemote may order them either way.  With   *)
(* KeepAliveTimeout 2 and MigrateGraceTimeout 3 a tick stands for about    *)
(* 150 ms, the ratio of the defaults (300 ms and 500 ms).                  *)
EXTENDS PathMgr

CONSTANTS ga, gb, p1, p2, p3, h1, queryError, noConn, nilHidden

MCGateways == {ga, gb}
MCPaths == {p1, p2, p3}
TwoPaths == {p1, p2}
MCHops == (p1 :> 2) @@ (p2 :> 3) @@ (p3 :> 3) @@ (h1 :> 4)
NoHidden == <<>>
OneHidden == <<h1>>

(* The path service answers with all paths, with p1 only, or fails.        *)
ChangingQueries == {{p1, p2, p3}, {p1}, queryError}
StableQueries == {{p1, p2, p3}}
StableOrEmptyQueries == StableQueries \cup {{}}
ShrinkingQueries == {{p1, p2}, {p1}, queryError}
(* ... and, as sciond may when no path is left, an empty answer.           *)
ShrinkingOrEmptyQueries == ShrinkingQueries \cup {{}}

FirstPathDown == {p1}
FirstTwoDown == {p1, p2}
NoneDown == {}

(* Which egress workers write data packets.                               *)
NoWriters == {}
OneWriter == {ga}
BothWriters == {ga, gb}

(* Gateways are interchangeable, and so are p2 and p3 (same hop count,    *)
(* same answers, both up).                                                *)
Symmetry == Permutations(MCGateways) \cup Permutations({p2, p3})
GatewaySymmetry == Permutations(MCGateways)
=============================================================================
