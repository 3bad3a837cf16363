---------------------------- MODULE MCFileLease ----------------------------
(* Small instances of FileLease. *)
EXTENDS FileLease, TLC

CONSTANTS p1, p2, o1, o2

\* Each process has an id of its own.
Distinct == (p1 :> o1) @@ (p2 :> o2)

=============================================================================
