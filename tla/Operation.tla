----------------------------- MODULE Operation -----------------------------
(***************************************************************************)
(* What an SG operation promises the client that polls it: a state, and    *)
(* one outcome for each modem.                                             *)
(***************************************************************************)
CONSTANT Modem

VARIABLES scope, grouped, state, requested, outcome

Terminal == {"COMPLETED", "FAILED", "CANCELLED"}

\* The modems that get an outcome.  A request that names modems and no group gets none: it
\* is COMPLETED without a capture.
Asked == IF grouped THEN scope ELSE {}

Init ==
    /\ scope \in SUBSET Modem
    /\ grouped \in BOOLEAN
    /\ state = "QUEUED"
    /\ requested = FALSE
    /\ outcome = [m \in Modem |-> "none"]

Run == state' = "RUNNING" /\ UNCHANGED <<scope, grouped, requested, outcome>>

Request == requested' = TRUE /\ UNCHANGED <<scope, grouped, state, outcome>>

Cancelling == requested /\ state' = "CANCELLING" /\ UNCHANGED <<scope, grouped, requested, outcome>>

\* A modem's outcome is final.
Answer(m) ==
    /\ outcome[m] = "none"
    /\ \E o \in {"ok", "bad"} : outcome' = [outcome EXCEPT ![m] = o]
    /\ UNCHANGED <<scope, grouped, state, requested>>

\* COMPLETED only when all of them were captured, CANCELLED only on request.
End ==
    /\ \/ state' = "COMPLETED" /\ \A m \in Asked : outcome[m] = "ok"
       \/ state' = "CANCELLED" /\ requested
       \/ state' = "FAILED"
    /\ UNCHANGED <<scope, grouped, requested, outcome>>

\* Nothing but a late cancel request's flag follows the end.
Next ==
    \/ state \notin Terminal /\ (Run \/ Cancelling \/ End)
    \/ state \notin Terminal /\ (\E m \in Asked : Answer(m))
    \/ Request

Spec == Init /\ [][Next]_<<scope, grouped, state, requested, outcome>>

=============================================================================
