---------------------------- MODULE Orchestrator ----------------------------
(***************************************************************************)
(* The orchestrator processes of a deployment over one state directory:    *)
(* each builds an inventory and a plan, runs coordination ticks, lets the  *)
(* leader discover the service groups into inventory/discovery.json, tests *)
(* the groups it holds, and leaves when it is stopped.                     *)
(*                                                                         *)
(* A tick of the manager is one step here; module Coordination has its     *)
(* calls and shows that renewals come in time.  So a lease expires only    *)
(* when its owner has died or spends the time in a discovery.              *)
(***************************************************************************)
EXTENDS Integers, FiniteSets

CONSTANTS
    Node,        \* processes, each with an owner id of its own
    None,        \* no owner
    SG,          \* service groups
    Deployments, \* the settings that are tried, see Deployment
    MaxFaults    \* bound on deaths, failed discoveries, writes and releases, and restarts

Unbound == 0
Modes == {"controller", "worker", "combined", "standalone"}

\* How a deployment is configured.
Deployment ==
    [mode : [Node -> Modes],               \* the OrchestratorMode of each node
     bound : [Node -> SG \cup {Unbound}],  \* its --sg-id
     reports : SUBSET Node,                \* those with an on_tick callback, which serve --with-runner has not
     once : SUBSET Node,                   \* those that make one turn and return, without a loop
     configured : SUBSET SG,               \* sg_ids in settings.service_groups
     enabled : SUBSET SG,                  \* those that are enabled
     discovers : BOOLEAN,                  \* auto_discover
     inventories : SUBSET SUBSET SG,       \* what the CMTS may answer with
     requested : Nat,                      \* target_service_groups
     cap : Nat]                            \* worker_cap

ASSUME NodeAssumption == None \notin Node
ASSUME GroupAssumption == SG \subseteq Nat \ {Unbound} /\ IsFiniteSet(SG)
ASSUME DeploymentAssumption ==
    \A d \in Deployments : d \in Deployment /\ d.enabled \subseteq d.configured
ASSUME BoundAssumption == MaxFaults \in Nat

VARIABLES
    cfg,       \* the deployment
    pc,        \* where each node is
    groups,    \* its inventory, which the next tick uses
    desired,   \* the groups its plan asks for
    workers,   \* the plan's worker_count
    target,    \* target_service_groups of its manager, set once
    held,      \* _held_leases of its manager
    kept,      \* leases that its release_all did not give back: failed_sg_ids, and those it skipped
    acquired,  \* what this tick acquired
    ready,     \* controller_inventory_initialized
    probed,    \* this tick ran a discovery
    stop,      \* _stop_requested of its runtime
    tested,    \* the group that this tick tested, or Unbound
    owner,     \* owner of each group's lease
    leader,    \* owner of the leader's record
    snapshot,  \* inventory/discovery.json: whether it is whole, and its groups
    pidfile,   \* who wrote each file under pids/
    faults     \* faults so far

memory == <<groups, desired, workers, target, held, kept, acquired, ready, probed, tested>>
leases == <<owner, leader>>
files == <<snapshot, pidfile>>
vars == <<cfg, pc, memory, stop, leases, files, faults>>

Mode == cfg.mode
Bound == cfg.bound
Configured == cfg.configured
Enabled == cfg.enabled
Requested == cfg.requested

PCs == {"off", "probing_start", "writing_start", "built", "published", "ready", "ticked", "probing",
        "writing", "emitting", "sleeping", "leaving", "ended", "gone", "dead"}

NoSnapshot == [state |-> "none", groups |-> {}]
Torn == [state |-> "torn", groups |-> {}]
Whole(g) == [state |-> "whole", groups |-> g]

\* The file under pids/ that a node writes: controller.pid, worker_unbound.pid or worker_<sg>.pid.
ControllerFile == -1
PidFiles == {ControllerFile, Unbound} \cup SG

\* Mutation: a bound worker writes the unbound worker's file.
PidFileBug(n) == IF Mode[n] = "worker" THEN Unbound ELSE ControllerFile

PidFile(n) == IF Mode[n] = "worker" THEN Bound[n] ELSE ControllerFile

Controls(n) == Mode[n] \in {"controller", "combined"}
Works(n) == Mode[n] \in {"worker", "combined"}

Init ==
    /\ cfg \in Deployments
    /\ pc = [n \in Node |-> "off"]
    /\ groups = [n \in Node |-> {}] /\ desired = [n \in Node |-> {}]
    /\ workers = [n \in Node |-> 0] /\ target = [n \in Node |-> 0]
    /\ held = [n \in Node |-> {}] /\ kept = [n \in Node |-> {}]
    /\ acquired = [n \in Node |-> {}]
    /\ ready = [n \in Node |-> FALSE] /\ probed = [n \in Node |-> FALSE]
    /\ stop = [n \in Node |-> FALSE]
    /\ tested = [n \in Node |-> Unbound]
    /\ owner = [g \in SG |-> None] /\ leader = None
    /\ snapshot = NoSnapshot
    /\ pidfile = [f \in PidFiles |-> None]
    /\ faults = 0

Goto(n, l) == pc' = [pc EXCEPT ![n] = l]
Fault == faults < MaxFaults /\ faults' = faults + 1

-----------------------------------------------------------------------------
(* Inventory and plan *)

\* The plan takes its groups from the settings when they name any, whatever was discovered.
Desired(n, g) ==
    IF ~Controls(n) THEN g ELSE IF Configured # {} THEN Enabled ELSE g

\* Mutation: rounded down.
WorkerCountBug(n, g) ==
    LET count == Cardinality(Desired(n, g))
    IN  IF ~Controls(n) \/ count = 0 THEN 0
        ELSE IF Requested = 0 THEN count ELSE count \div Requested

\* ServiceGroupShardPlanner: a worker for every Requested groups, at most cap.
WorkerCount(n, g) ==
    LET count == Cardinality(Desired(n, g))
        needed == IF Requested = 0 THEN count ELSE (count + Requested - 1) \div Requested
    IN  IF ~Controls(n) \/ count = 0 THEN 0
        ELSE IF cfg.cap > 0 /\ cfg.cap < needed THEN cfg.cap ELSE needed

\* _effective_target_service_groups, and all that is desired for a controller without a target.
EffectiveTarget(n, g) ==
    LET requested == IF Works(n) /\ Bound[n] # Unbound THEN 1 ELSE Requested
    IN  IF Controls(n) /\ Requested = 0 THEN Cardinality(Desired(n, g))
        ELSE IF requested < Cardinality(g) THEN requested ELSE Cardinality(g)

Adopt(n, g) ==
    /\ groups' = [groups EXCEPT ![n] = g]
    /\ desired' = [desired EXCEPT ![n] = Desired(n, g)]
    /\ workers' = [workers EXCEPT ![n] = WorkerCount(n, g)]

Readable == snapshot.state # "torn"
Present == snapshot.state = "whole"

\* A controller that does not lead, and a worker without --sg-id, prefer the snapshot.
FromSnapshot(n) == Controls(n) \/ (Mode[n] = "worker" /\ Bound[n] = Unbound)

\* What a node starts with, unless it has to discover.
StartGroups(n) ==
    CASE FromSnapshot(n) -> IF Present THEN snapshot.groups ELSE Enabled
      [] Mode[n] = "worker" /\ Bound[n] # Unbound -> {Bound[n]}
      [] OTHER -> Enabled

StartRaises(n) ==
    \/ FromSnapshot(n) /\ ~Readable
    \/ FromSnapshot(n) /\ ~Present /\ Mode[n] = "worker" /\ Configured = {} /\ cfg.discovers
    \/ Mode[n] = "worker" /\ Bound[n] # Unbound /\ Configured # {} /\ Bound[n] \notin Enabled

\* A fresh process: its inventory, its plan and its manager, with a target that stays.
Begin(n, g) ==
    /\ Adopt(n, g)
    /\ target' = [target EXCEPT ![n] = EffectiveTarget(n, g)]
    /\ Goto(n, "built")
    /\ UNCHANGED <<held, kept, acquired, ready, probed, tested, stop>>

Start(n) ==
    /\ pc[n] = "off"
    /\ ~(Mode[n] = "standalone" /\ cfg.discovers)
    /\ ~StartRaises(n)
    /\ Begin(n, StartGroups(n))
    /\ UNCHANGED <<leases, files, faults>>

\* The inventory cannot be built: the process ends, or the combined runner's thread.
StartFails(n) ==
    /\ pc[n] = "off" /\ StartRaises(n)
    /\ Goto(n, "ended")
    /\ UNCHANGED <<memory, stop, leases, files, faults>>

\* A standalone node discovers for itself.
StartProbe(n) ==
    /\ pc[n] = "off" /\ Mode[n] = "standalone" /\ cfg.discovers
    /\ Goto(n, "probing_start")
    /\ UNCHANGED <<memory, stop, leases, files, faults>>

-----------------------------------------------------------------------------
(* Discovery: the walk of the CMTS, and the snapshot, truncated and then written *)

Probing(n) == pc[n] \in {"probing", "probing_start"}
Writing(n) == pc[n] \in {"writing", "writing_start"}

Truncate(n) ==
    /\ Probing(n)
    /\ snapshot' = Torn
    /\ \E g \in cfg.inventories : groups' = [groups EXCEPT ![n] = g]
    /\ Goto(n, IF pc[n] = "probing" THEN "writing" ELSE "writing_start")
    /\ UNCHANGED <<desired, workers, target, held, kept, acquired, ready, probed, tested>>
    /\ UNCHANGED <<stop, leases, pidfile, faults>>

\* Mutation: without the finally clause.
AfterErrorBug(n) == IF n \in cfg.once THEN "gone" ELSE "ended"

\* Where an exception in a turn leads: a loop gives its leases back, a single turn does not.
AfterError(n) == IF n \in cfg.once THEN "gone" ELSE "leaving"

\* The walk raises: the loop ends, and so does a process that was starting.
ProbeFails(n) ==
    /\ Probing(n) /\ Fault
    /\ Goto(n, IF pc[n] = "probing" THEN AfterError(n) ELSE "ended")
    /\ UNCHANGED <<memory, stop, leases, files>>

\* The rest of the write, which may fail: a discovery logs the error and leaves the file torn.
Persist(n) ==
    /\ Writing(n)
    /\ \/ snapshot' = Whole(groups[n]) /\ UNCHANGED faults
       \/ cfg.discovers /\ Fault /\ UNCHANGED snapshot
    /\ IF pc[n] = "writing"
       THEN /\ Adopt(n, groups[n])
            /\ ready' = [ready EXCEPT ![n] = TRUE]
            /\ Goto(n, "emitting")
            /\ UNCHANGED <<target, held, kept, acquired, probed, tested, stop>>
       ELSE Begin(n, groups[n])
    /\ UNCHANGED <<leases, pidfile>>

\* A leader that writes what was configured does not catch the error.
PersistFails(n) ==
    /\ Writing(n) /\ ~cfg.discovers /\ Fault
    /\ Goto(n, AfterError(n))
    /\ UNCHANGED <<memory, stop, leases, files>>

-----------------------------------------------------------------------------
(* The runtime *)

\* launcher._runtime is assigned: from here on stop_runtime finds it.
Publish(n) ==
    /\ pc[n] = "built" /\ n \notin cfg.once
    /\ Goto(n, "published")
    /\ UNCHANGED <<memory, stop, leases, files, faults>>

\* The pid file is written; a runtime that was stopped already only gives back.
Enter(n) ==
    /\ pc[n] = "published"
    /\ pidfile' = [pidfile EXCEPT ![PidFile(n)] = n]
    /\ Goto(n, IF stop[n] THEN "leaving" ELSE "ready")
    /\ UNCHANGED <<memory, stop, leases, snapshot, faults>>

Elect(n) == leader' = IF Controls(n) /\ leader = None THEN n ELSE leader

\* Groups that a manager with these held acquires: as many as are free, up to its target
\* (its own records of an earlier life among them).
FreeFor(n) == {g \in groups[n] \ held[n] : owner[g] \in {None, n}}

\* Mutation: off by one.
RoomBug(n, renewed) == target[n] - Cardinality(renewed) - 1

Room(n, renewed) == target[n] - Cardinality(renewed)

\* A tick of the manager; a controller only elects.
Coordinate(n) ==
    /\ Elect(n)
    /\ IF Mode[n] = "controller"
       THEN UNCHANGED <<owner, held, acquired>>
       ELSE LET renewed == {g \in held[n] : owner[g] = n}
                room == Room(n, renewed)
            IN  \E a \in SUBSET FreeFor(n) :
                  /\ Cardinality(a) <= room
                  /\ Cardinality(a) = room \/ a = FreeFor(n)
                  /\ owner' = [g \in SG |-> IF g \in a THEN n ELSE owner[g]]
                  /\ held' = [held EXCEPT ![n] = renewed \cup a]
                  /\ acquired' = [acquired EXCEPT ![n] = a]
    /\ Goto(n, "ticked")
    /\ UNCHANGED <<groups, desired, workers, target, kept, ready, probed, tested, stop, files, faults>>

Tick(n) == pc[n] = "ready" /\ Coordinate(n)

\* run_once: the one tick, of a manager that no runtime and no pid file knows of.
TickOnce(n) == pc[n] = "built" /\ n \in cfg.once /\ Coordinate(n)

\* A leader refreshes the inventory once in its life; a combined node that makes one turn does not.
RefreshDue(n) ==
    /\ Controls(n) /\ leader = n /\ ~ready[n]
    /\ n \in cfg.once => Mode[n] = "controller"

\* A controller that makes one turn looks at the inventory again, also when it does not lead.
LooksAgain(n) == n \in cfg.once /\ Mode[n] = "controller" /\ ~RefreshDue(n)

EmitRefreshes(n) ==
    /\ pc[n] = "ticked" /\ RefreshDue(n) /\ cfg.discovers
    /\ probed' = [probed EXCEPT ![n] = TRUE]
    /\ Goto(n, "probing")
    /\ UNCHANGED <<groups, desired, workers, target, held, kept, acquired, ready, tested>>
    /\ UNCHANGED <<stop, leases, files, faults>>

\* A leader that does not discover publishes what it was configured with, unless there is a
\* snapshot; one that cannot be read ends the loop.
EmitPublishes(n) ==
    /\ pc[n] = "ticked" /\ RefreshDue(n) /\ ~cfg.discovers /\ Readable
    /\ LET g == IF Present THEN snapshot.groups ELSE Enabled
       IN  IF Present \/ Enabled = {}
           THEN /\ Adopt(n, g)
                /\ ready' = [ready EXCEPT ![n] = TRUE]
                /\ Goto(n, "emitting")
                /\ UNCHANGED snapshot
           ELSE /\ snapshot' = Torn
                /\ groups' = [groups EXCEPT ![n] = g]
                /\ Goto(n, "writing")
                /\ UNCHANGED <<desired, workers, ready>>
    /\ UNCHANGED <<target, held, kept, acquired, probed, tested, stop, leases, pidfile, faults>>

EmitFails(n) ==
    /\ pc[n] = "ticked" /\ ~Readable
    /\ (RefreshDue(n) /\ ~cfg.discovers) \/ LooksAgain(n)
    /\ Goto(n, AfterError(n))
    /\ UNCHANGED <<memory, stop, leases, files, faults>>

EmitAgain(n) ==
    /\ pc[n] = "ticked" /\ LooksAgain(n) /\ Readable
    /\ Adopt(n, StartGroups(n))
    /\ Goto(n, "emitting")
    /\ UNCHANGED <<target, held, kept, acquired, ready, probed, tested, stop, leases, files, faults>>

EmitAsIs(n) ==
    /\ pc[n] = "ticked" /\ ~RefreshDue(n) /\ ~LooksAgain(n)
    /\ Goto(n, "emitting")
    /\ UNCHANGED <<memory, stop, leases, files, faults>>

\* The lowest of what the tick acquired, else the lowest that the manager holds.
Lowest(s) == CHOOSE g \in s : \A h \in s : g <= h

\* Mutation: the plan decides what is tested.
WorkGroupBug(n) == IF desired[n] # {} THEN Lowest(desired[n]) ELSE Unbound

WorkGroup(n) ==
    CASE acquired[n] # {} -> Lowest(acquired[n])
      [] acquired[n] = {} /\ held[n] # {} -> Lowest(held[n])
      [] OTHER -> Unbound

\* Tests run only for a node whose ticks are reported.
RunTests(n) ==
    /\ pc[n] = "emitting" /\ n \notin cfg.once
    /\ tested' = [tested EXCEPT ![n] = IF n \in cfg.reports /\ Works(n) /\ held[n] # {}
                                       THEN WorkGroup(n) ELSE Unbound]
    /\ acquired' = [acquired EXCEPT ![n] = {}]
    /\ probed' = [probed EXCEPT ![n] = FALSE]
    /\ Goto(n, "sleeping")
    /\ UNCHANGED <<groups, desired, workers, target, held, kept, ready>>
    /\ UNCHANGED <<stop, leases, files, faults>>

\* run_once tests, returns its result and releases nothing: its records are left to expire.
TestOnce(n) ==
    /\ pc[n] = "emitting" /\ n \in cfg.once
    /\ tested' = [tested EXCEPT ![n] = IF Works(n) /\ held[n] # {} THEN WorkGroup(n) ELSE Unbound]
    /\ Goto(n, "gone")
    /\ UNCHANGED <<groups, desired, workers, target, held, kept, acquired, ready, probed>>
    /\ UNCHANGED <<stop, leases, files, faults>>

\* Mutation: the flag is forgotten.
AfterSleepBug(n) == "ready"

AfterSleep(n) == IF stop[n] THEN "leaving" ELSE "ready"

Wake(n) ==
    /\ pc[n] = "sleeping"
    /\ Goto(n, AfterSleep(n))
    /\ tested' = [tested EXCEPT ![n] = Unbound]
    /\ UNCHANGED <<groups, desired, workers, target, held, kept, acquired, ready, probed>>
    /\ UNCHANGED <<stop, leases, files, faults>>

\* What a manager holds and what is its own in fact.
Mine(n) == {g \in held[n] : owner[g] = n}

\* release_all: the leases that are given back are held no longer, the others stay in held.
ReleaseAll(n, given, resigns) ==
    /\ owner' = [g \in SG |-> IF g \in given THEN None ELSE owner[g]]
    /\ held' = [held EXCEPT ![n] = @ \ given]
    /\ kept' = [kept EXCEPT ![n] = Mine(n) \ given]
    /\ leader' = IF leader = n /\ resigns THEN None ELSE leader

\* The finally clause, and the pid file, whoever wrote it.  A lock that is busy or a file that cannot
\* be removed keeps its lease or the leader's record, and an exception keeps all that would come
\* after it: run_forever suppresses it.
Leave(n) ==
    /\ pc[n] = "leaving"
    /\ \/ ReleaseAll(n, Mine(n), TRUE) /\ UNCHANGED faults
       \/ Fault /\ \E given \in SUBSET Mine(n), resigns \in BOOLEAN : ReleaseAll(n, given, resigns)
    /\ pidfile' = [pidfile EXCEPT ![PidFile(n)] = None]
    /\ Goto(n, "ended")
    /\ UNCHANGED <<groups, desired, workers, target, acquired, ready, probed, tested>>
    /\ UNCHANGED <<stop, snapshot>>

-----------------------------------------------------------------------------
(* The environment *)

Alive(n) == pc[n] \notin {"off", "ended", "gone", "dead"}
\* From the pid file on, and the handlers of the signals; or in its one turn.
InLoop(n) == Alive(n) /\ pc[n] \notin {"built", "published", "probing_start", "writing_start"}
Published(n) == InLoop(n) \/ pc[n] = "published"

\* The server's shutdown stops the runtime of its runner, once that is published: one that comes
\* before changes nothing.  A process of the command line handles signals within its loop and
\* dies of them before.
Stop(n) ==
    /\ ~stop[n] /\ n \notin cfg.once
    /\ IF n \in cfg.reports THEN InLoop(n) ELSE Published(n)
    /\ stop' = [stop EXCEPT ![n] = TRUE]
    /\ UNCHANGED <<pc, memory, leases, files, faults>>

\* Its memory goes with the process.
Forget(n) ==
    /\ groups' = [groups EXCEPT ![n] = {}] /\ desired' = [desired EXCEPT ![n] = {}]
    /\ workers' = [workers EXCEPT ![n] = 0] /\ target' = [target EXCEPT ![n] = 0]
    /\ held' = [held EXCEPT ![n] = {}] /\ kept' = [kept EXCEPT ![n] = {}]
    /\ acquired' = [acquired EXCEPT ![n] = {}]
    /\ ready' = [ready EXCEPT ![n] = FALSE] /\ probed' = [probed EXCEPT ![n] = FALSE]
    /\ stop' = [stop EXCEPT ![n] = FALSE]
    /\ tested' = [tested EXCEPT ![n] = Unbound]

\* The process is killed: its records, its pid file and a torn snapshot stay.
Die(n) ==
    /\ Alive(n) /\ Fault
    /\ Goto(n, "dead")
    /\ Forget(n)
    /\ UNCHANGED <<leases, files>>

\* Another process takes the place of one that has gone.
Restart(n) ==
    /\ pc[n] \in {"dead", "ended", "gone"} /\ Fault
    /\ Goto(n, "off")
    /\ Forget(n)
    /\ UNCHANGED <<leases, files>>

\* Nobody renews for n: it has gone, or a discovery takes longer than the ttl.
Silent(n) == ~InLoop(n) \/ Probing(n)

\* Nor does anybody renew what a restarted node has not taken up again.
Expire(g) ==
    /\ owner[g] # None
    /\ Silent(owner[g]) \/ g \notin held[owner[g]]
    /\ owner' = [owner EXCEPT ![g] = None]
    /\ UNCHANGED <<pc, memory, stop, leader, files, faults>>

LeaderExpires ==
    /\ leader # None /\ Silent(leader)
    /\ leader' = None
    /\ UNCHANGED <<pc, memory, stop, owner, files, faults>>

-----------------------------------------------------------------------------

Build(n) == Start(n) \/ StartFails(n) \/ StartProbe(n) \/ Publish(n) \/ Enter(n)
Emit(n) == EmitRefreshes(n) \/ EmitPublishes(n) \/ EmitFails(n) \/ EmitAgain(n) \/ EmitAsIs(n)
Loop(n) ==
    \/ Tick(n) \/ Emit(n) \/ Truncate(n) \/ Persist(n) \/ RunTests(n) \/ Wake(n) \/ Leave(n)
    \/ TickOnce(n) \/ TestOnce(n)

Step ==
    \/ \E n \in Node : Build(n) \/ Loop(n) \/ ProbeFails(n) \/ PersistFails(n) \/ Stop(n) \/ Die(n) \/ Restart(n)
    \/ \E g \in SG : Expire(g)
    \/ LeaderExpires

Next == Step /\ UNCHANGED cfg

Spec == Init /\ [][Next]_vars

\* A running node goes on: nothing in its loop waits for another process.  Records expire.
Run(n) == Publish(n) \/ Enter(n) \/ Loop(n)

Fairness ==
    /\ \A n \in Node : WF_vars(Run(n) /\ UNCHANGED cfg)
    /\ \A g \in SG : WF_vars(Expire(g) /\ UNCHANGED cfg)

FairSpec == Spec /\ Fairness

-----------------------------------------------------------------------------
(* Properties *)

TypeOK ==
    /\ cfg \in Deployments
    /\ pc \in [Node -> PCs]
    /\ groups \in [Node -> SUBSET SG] /\ desired \in [Node -> SUBSET SG]
    /\ workers \in [Node -> Nat] /\ target \in [Node -> Nat]
    /\ held \in [Node -> SUBSET SG] /\ kept \in [Node -> SUBSET SG]
    /\ acquired \in [Node -> SUBSET SG]
    /\ ready \in [Node -> BOOLEAN] /\ probed \in [Node -> BOOLEAN]
    /\ stop \in [Node -> BOOLEAN]
    /\ tested \in [Node -> SG \cup {Unbound}]
    /\ owner \in [SG -> Node \cup {None}] /\ leader \in Node \cup {None}
    /\ snapshot \in [state : {"none", "torn", "whole"}, groups : SUBSET SG]
    /\ pidfile \in [PidFiles -> Node \cup {None}]
    /\ faults \in 0..MaxFaults

\* A group is tested only by the node whose lease it is at that moment, although the lease was
\* taken in an earlier step (_emit_result after tick, launcher.py).  A tick that ran a discovery
\* in between is excepted: the walk of the CMTS has no deadline and nothing renews meanwhile.
TestsUnderLease ==
    [][\A n \in Node : tested'[n] # tested[n] /\ tested'[n] # Unbound =>
          owner[tested'[n]] = n \/ probed[n]]_vars

\* Whatever ends the loop, a stop, an exception in a discovery or a failed write, the node has
\* tried to give back each lease it believed to hold: one that is still its own is one whose release
\* failed or was skipped (the finally clause of run_forever, runtime.py; release_all, manager.py).
GivenBack == \A n \in Node : pc[n] = "ended" => \A g \in held[n] : owner[g] = n => g \in kept[n]

\* Two nodes that have one pid file name between them.
SamePidFile(m, n) ==
    \/ Mode[m] # "worker" /\ Mode[n] # "worker"
    \/ Mode[m] = "worker" /\ Mode[n] = "worker" /\ Bound[m] = Bound[n]

\* The pid file of a running node names it, as long as no other node with a loop has the same role:
\* files are written and removed without a look at what is in them (pidfile_manager.py).
Looping == Node \ cfg.once
PidFileTruth ==
    \A n \in Looping :
        InLoop(n) /\ (\A m \in Looping \ {n} : ~SamePidFile(m, n)) => pidfile[PidFile(n)] = n

\* The plan of a controller has as many workers as its groups need and no more, unless capped
\* (ServiceGroupShardPlanner), also after a refresh in the middle of its life.
PlanCovers ==
    \A n \in Node : InLoop(n) /\ ~Writing(n) /\ Controls(n) /\ Requested > 0 =>
        /\ (workers[n] - 1) * Requested < Cardinality(desired[n]) \/ desired[n] = {}
        /\ workers[n] = cfg.cap \/ workers[n] * Requested >= Cardinality(desired[n])

\* A manager's target is at least its inventory.
Full(n) == Mode[n] # "controller" /\ target[n] >= Cardinality(groups[n])
Served(g) == \E m \in Node : InLoop(m) /\ owner[g] = m

\* A group in the inventory of a running node with a sufficient target comes to be leased to a
\* running node, also when its owner died, left or failed (tick and release_all, manager.py).
\* The target is computed once: a node that started without an inventory is excepted, its target
\* is 0 for its whole life.
GroupsServed ==
    \A n \in Node, g \in SG :
        (InLoop(n) /\ Full(n) /\ g \in groups[n]) ~> (Served(g) \/ ~InLoop(n) \/ g \notin groups[n])

\* A stop that finds the runtime ends the node (stop_runtime, run_forever).
StopEnds == \A n \in Node : stop[n] ~> ~Alive(n)

=============================================================================
