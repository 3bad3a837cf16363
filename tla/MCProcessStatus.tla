-------------------------- MODULE MCProcessStatus --------------------------
(***************************************************************************)
(* Three pids, interchangeable: two controllers over one pid file and a    *)
(* worker, or a runner that crashes and a process that gets its pid.       *)
(***************************************************************************)
EXTENDS ProcessStatus, TLC

Symmetry == Permutations(Pids)
=============================================================================
