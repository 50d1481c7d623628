---------------------------- MODULE MCRoutingSync ----------------------------
(***************************************************************************)
(* Two rules, one address and the catch-all, two requests at once, three   *)
(* operations in all, and changes at the dashboard.                        *)
(***************************************************************************)
EXTENDS RoutingSync

CONSTANTS p1, p2, r1, r2, d1, a1, a2

\* The hypothesis of SyncMends.
ASSUME MCRoutingSyncAssumption == OnePage

Symmetries == Permutations(Requests) \cup Permutations(Actions) \cup Permutations(Rules)
=============================================================================
