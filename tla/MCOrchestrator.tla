--------------------------- MODULE MCOrchestrator ---------------------------
\* Two nodes over one state directory, in seven deployments.
EXTENDS Orchestrator, TLC

CONSTANTS k, w

\* A server with its runner, and an unbound worker; the leader discovers.
Discovering == [mode |-> (k :> "combined" @@ w :> "worker"), bound |-> [n \in Node |-> Unbound],
                reports |-> {w}, once |-> {}, configured |-> {}, enabled |-> {}, discovers |-> TRUE,
                inventories |-> {{1, 2}}, requested |-> 2, cap |-> 0]

\* Groups that are configured, shared by a combined process and a worker.
Static == [Discovering EXCEPT !.discovers = FALSE, !.configured = {1, 2}, !.enabled = {1, 2},
                              !.reports = {k, w}, !.requested = 1]

\* A worker that is bound to a group and one that takes what it can.
Bounded == [Static EXCEPT !.mode = [n \in Node |-> "worker"], !.bound = (k :> 1 @@ w :> Unbound), !.requested = 2]

\* A controller and a standalone node, each with a discovery of its own.
Separate == [Discovering EXCEPT !.mode = (k :> "controller" @@ w :> "standalone"), !.reports = {k, w},
                                !.inventories = {{1}, {1, 2}}, !.cap = 1]

\* Controllers of which one leads at a time; every group by itself, or as many workers as groups.
Controllers == [Separate EXCEPT !.mode = [n \in Node |-> "controller"], !.inventories = {{1, 2}},
                                 !.cap = 0, !.requested = 0]

\* A server with its runner, and a worker that is started for one turn, again and again.
OneTurn == [Static EXCEPT !.once = {w}, !.mode = (k :> "combined" @@ w :> "worker")]

\* A controller that is started for one turn beside one with a loop.
OneLook == [Controllers EXCEPT !.once = {w}, !.cap = 1]

AllDeployments == {Discovering, Static, Bounded, Separate, Controllers, OneTurn, OneLook}
=============================================================================
