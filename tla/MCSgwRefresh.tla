---------------------------- MODULE MCSgwRefresh ----------------------------
(* Small instances of SgwRefresh. *)
EXTENDS SgwRefresh, TLC

CONSTANTS g1, g2

Symmetric == Permutations({g1, g2})

=============================================================================
