--------------------------- MODULE MCCoordination ---------------------------
(* Two replicas of one deployment, for TLC. *)
EXTENDS Coordination, TLC

CONSTANTS r1, r2

BothCombined == (r1 :> "combined") @@ (r2 :> "combined")
BothWorkers == (r1 :> "worker") @@ (r2 :> "worker")
OneOrBoth == (r1 :> 1) @@ (r2 :> 2)

=============================================================================
