--------------------------- MODULE MCWorkerDeploy ---------------------------
(***************************************************************************)
(* Two accounts, each of which may be pointed at either of two Cloudflare  *)
(* accounts, two deployers, and three releases: two that differ in what    *)
(* the hash covers, and one that differs from the first in the prefix and  *)
(* the stub only.                                                          *)
(***************************************************************************)
EXTENDS WorkerDeploy, TLC

CONSTANTS a1, a2, d1, d2, i1, i2

FirstRelease == [values |-> "v1", prefix |-> "p1", stub |-> "t1"]
Releases == {
    FirstRelease,
    [FirstRelease EXCEPT !.values = "v2"],
    [FirstRelease EXCEPT !.prefix = "p2", !.stub = "t2"]}

Symmetries ==
    Permutations(Deployers) \cup Permutations(Accounts) \cup Permutations(AccountIds)
=============================================================================
