------------------------- MODULE MCOperationRunner -------------------------
(* Small instances of OperationRunner. *)
EXTENDS OperationRunner, TLC

CONSTANTS m1, m2, c1

=============================================================================
