------------------------------ MODULE MCRelease ------------------------------
(***************************************************************************)
(* Two releasers, interchangeable, and three runs between them: two that   *)
(* overlap and one more after a failure.                                   *)
(***************************************************************************)
EXTENDS Release, TLC

\* The version of the first tree, and one that is two releases on.
MCExplicit == {[maint |-> 1, build |-> 0], [maint |-> 3, build |-> 0]}

\* A release candidate of the first version.
MCFirstDocs == Tag([maint |-> 1, build |-> 0], 1)

Symmetry == Permutations(Releasers)
==============================================================================
