--------------------------- MODULE SgwSupervisor ---------------------------
(***************************************************************************)
(* Who refreshes the cache: the process's lifespan starts the background   *)
(* refresh twice and stops it once (sgw/runtime_state.py, api/main.py),    *)
(* the refresh thread replaces its own manager and store when the worker   *)
(* guard asks for a restart.  A manager's refresh cycle, one step here, is *)
(* the subject of SgwRefresh; manager number k works on store number k.    *)
(***************************************************************************)
EXTENDS Integers, Sequences

CONSTANTS
    MaxErrors,    \* guard.max_consecutive_error_cycles, 0 disables
    MinInterval,  \* guard.min_restart_interval_seconds
    MaxRestarts,  \* guard.max_restarts_per_hour
    Window,       \* the restart window, 3600 seconds in the code
    MaxManagers,  \* bound of the managers built in one process
    MaxUptime      \* bound of the uptime

ASSUME GuardAssumption ==
    /\ MaxErrors \in Nat /\ MinInterval \in Nat
    /\ MaxRestarts \in Nat \ {0} /\ Window \in Nat \ {0}

ASSUME BoundsAssumption == MaxManagers \in Nat \ {0} /\ MaxUptime \in Nat

Manager == 1..MaxManagers
Thread == 1..2  \* each of the two starts makes at most one

VARIABLES
    uptime,     \* time.monotonic()
    manager,   \* _sgw_manager, 0 when None
    store,     \* _sgw_store, 0 when None
    handle,    \* _sgw_refresh_thread, 0 when None
    running,   \* _sgw_refresh_running
    made,      \* managers built so far
    stopped,   \* each manager's _stop_requested and _stop_event
    filled,    \* whether a refresh cycle has filled the store
    mpc,       \* where the lifespan is
    starts,    \* calls of start_sgw_background_refresh that returned
    seen,      \* the manager start or stop read
    joined,    \* the thread stop joins
    tpc,       \* where each thread is
    current,   \* current_manager of each thread
    errors,    \* consecutive_error_cycles of each thread
    times,     \* the restarts its guard controller remembers
    failed     \* history: an exception has left the loop

runtime == <<manager, store, handle, running>>
managers == <<made, stopped, filled>>
main == <<mpc, starts, seen, joined>>
threads == <<tpc, current, errors, times>>
supervisorVars == <<uptime, runtime, managers, main, threads, failed>>

\* In the loop, and not yet through its finally clause.
Alive(t) == tpc[t] \notin {"none", "dead"}

\* Executes refresh cycles or will.
InLoop(t) == Alive(t) /\ tpc[t] # "exit"

-----------------------------------------------------------------------------
(* The worker guard's controller *)

\* _prune_restart_times
Remembered(t) == SelectSeq(times[t], LAMBDA r : r >= uptime - Window)

\* _gate_reason is None
GateOpen(t) ==
    LET r == Remembered(t) IN
    /\ r # <<>> => uptime - r[Len(r)] >= MinInterval
    /\ Len(r) < MaxRestarts

\* evaluate, on a cycle's memory reading and the error count
RestartRequired(t, rssHigh) ==
    /\ rssHigh \/ (MaxErrors > 0 /\ errors[t] >= MaxErrors)
    /\ GateOpen(t)

-----------------------------------------------------------------------------

SupervisorInit ==
    /\ uptime = 0 /\ manager = 0 /\ store = 0 /\ handle = 0 /\ running = FALSE
    /\ made = 0
    /\ stopped = [m \in Manager |-> FALSE] /\ filled = [m \in Manager |-> FALSE]
    /\ mpc = "init" /\ starts = 0 /\ seen = 0 /\ joined = 0
    /\ tpc = [t \in Thread |-> "none"] /\ current = [t \in Thread |-> 0]
    /\ errors = [t \in Thread |-> 0] /\ times = [t \in Thread |-> <<>>]
    /\ failed = FALSE

Elapse ==
    /\ uptime < MaxUptime
    /\ uptime' = uptime + 1
    /\ UNCHANGED <<runtime, managers, main, threads, failed>>

GotoT(t, p) == tpc' = [tpc EXCEPT ![t] = p]

-----------------------------------------------------------------------------
(* The lifespan *)

\* Discovery succeeded: the first manager and its store are published.
StartupSucceeds ==
    /\ mpc = "init"
    /\ made' = 1 /\ manager' = 1 /\ store' = 1
    /\ mpc' = "start"
    /\ UNCHANGED <<uptime, handle, running, stopped, filled, starts, seen, joined, threads, failed>>

\* Discovery failed: start refuses, so the lifespan does not stop anything either.
StartupFails ==
    /\ mpc = "init"
    /\ mpc' = "done"
    /\ UNCHANGED <<uptime, runtime, managers, starts, seen, joined, threads, failed>>

\* start reads the manager before it takes the lock.
StartReads ==
    /\ mpc = "start"
    /\ seen' = manager
    /\ mpc' = "startlock"
    /\ UNCHANGED <<uptime, runtime, managers, starts, joined, threads, failed>>

NewThread(t) ==
    /\ tpc[t] = "none" /\ \A u \in Thread : u < t => tpc[u] # "none"
    /\ handle' = t /\ running' = TRUE
    /\ stopped' = [stopped EXCEPT ![seen] = FALSE]
    /\ tpc' = [tpc EXCEPT ![t] = "enter"]
    /\ current' = [current EXCEPT ![t] = seen]

\* Mutation: a second start does not look for a live thread.
StartLockedBug ==
    /\ mpc = "startlock"
    /\ \E t \in Thread : NewThread(t)
    /\ starts' = starts + 1
    /\ mpc' = IF starts = 1 THEN "serving" ELSE "start"
    /\ UNCHANGED <<uptime, manager, store, made, filled, seen, joined, errors, times, failed>>

\* start, under the lock; the lifespan calls it from startup and once more itself.
StartLocked ==
    /\ mpc = "startlock"
    /\ \/ /\ handle # 0 /\ Alive(handle)
          /\ UNCHANGED <<handle, running, stopped, tpc, current>>
       \/ /\ ~(handle # 0 /\ Alive(handle))
          /\ \E t \in Thread : NewThread(t)
    /\ starts' = starts + 1
    /\ mpc' = IF starts = 1 THEN "serving" ELSE "start"
    /\ UNCHANGED <<uptime, manager, store, made, filled, seen, joined, errors, times, failed>>

\* Shutdown: stop reads the manager ...
StopReads ==
    /\ mpc = "serving"
    /\ seen' = manager
    /\ mpc' = "stopflag"
    /\ UNCHANGED <<uptime, runtime, managers, starts, joined, threads, failed>>

\* ... tells that manager to stop, which need not be the loop's any more ...
StopFlags ==
    /\ mpc = "stopflag"
    /\ stopped' = [stopped EXCEPT ![seen] = TRUE]
    /\ mpc' = "stopread"
    /\ UNCHANGED <<uptime, runtime, made, filled, starts, seen, joined, threads, failed>>

\* ... reads the thread under the lock ...
StopReadsThread ==
    /\ mpc = "stopread"
    /\ joined' = handle
    /\ mpc' = "join"
    /\ UNCHANGED <<uptime, runtime, managers, starts, seen, threads, failed>>

\* ... waits until the thread ends or the timeout does, whichever comes first ...
Join ==
    /\ mpc = "join"
    /\ mpc' = "clear"
    /\ UNCHANGED <<uptime, runtime, managers, starts, seen, joined, threads, failed>>

\* ... and forgets the thread if it ended.
StopClears ==
    /\ mpc = "clear"
    /\ IF handle = joined /\ (joined = 0 \/ ~Alive(joined))
         THEN handle' = 0 /\ running' = FALSE
         ELSE UNCHANGED <<handle, running>>
    /\ mpc' = "done"
    /\ UNCHANGED <<uptime, manager, store, managers, starts, seen, joined, threads, failed>>

Lifespan ==
    \/ StartupSucceeds \/ StartupFails \/ StartReads \/ StartLocked
    \/ StopReads \/ StopFlags \/ StopReadsThread \/ Join \/ StopClears

-----------------------------------------------------------------------------
(* The refresh thread *)

\* refresh_forever begins: a stop that came first is honoured.
Enter(t) ==
    /\ tpc[t] = "enter"
    /\ GotoT(t, IF stopped[current[t]] THEN "exit" ELSE "cycle")
    /\ UNCHANGED <<uptime, runtime, managers, main, current, errors, times, failed>>

\* One refresh cycle, with or without errors: the store has an entry for every service group.
\* The count of error cycles stops at MaxErrors, beyond which it makes no difference.
Cycle(t) ==
    /\ tpc[t] = "cycle"
    /\ filled' = [filled EXCEPT ![current[t]] = TRUE]
    /\ \E bad \in BOOLEAN :
         errors' = [errors EXCEPT ![t] = IF ~bad THEN 0 ELSE IF @ < MaxErrors THEN @ + 1 ELSE @]
    /\ GotoT(t, "after")
    /\ UNCHANGED <<uptime, runtime, made, stopped, main, current, times, failed>>

\* The guard decides after the cycle, on the memory it reads.
Evaluate(t) ==
    /\ tpc[t] = "after"
    /\ \E rssHigh \in BOOLEAN :
         GotoT(t, IF RestartRequired(t, rssHigh) THEN "restart" ELSE "pause")
    /\ UNCHANGED <<uptime, runtime, managers, main, current, errors, times, failed>>

\* A restart publishes an empty store ...
PublishStore(t) ==
    /\ tpc[t] = "restart" /\ made < MaxManagers
    /\ made' = made + 1
    /\ store' = made + 1
    /\ GotoT(t, "publish")
    /\ UNCHANGED <<uptime, manager, handle, running, stopped, filled, main, current, errors, times, failed>>

\* ... or the clone raises and the old manager stays; no more than MaxManagers are built.
CloneRaises(t) ==
    /\ tpc[t] = "restart"
    /\ GotoT(t, "pause")
    /\ UNCHANGED <<uptime, runtime, managers, main, current, errors, times, failed>>

\* ... then the manager that works on it ...
PublishManager(t) ==
    /\ tpc[t] = "publish"
    /\ manager' = made
    /\ GotoT(t, "retire")
    /\ UNCHANGED <<uptime, store, handle, running, managers, main, current, errors, times, failed>>

\* Mutation: the stop meant for the old manager reaches the new one.
RetireStopsNew(t) ==
    /\ tpc[t] = "retire"
    /\ stopped' = [stopped EXCEPT ![made] = TRUE]
    /\ current' = [current EXCEPT ![t] = made]
    /\ times' = [times EXCEPT ![t] = <<>>]
    /\ errors' = [errors EXCEPT ![t] = 0]
    /\ GotoT(t, "enter")
    /\ UNCHANGED <<uptime, runtime, made, filled, main, failed>>

\* ... the restart is recorded, the old manager stopped, and the loop goes on with the new
\* manager and a new guard controller, whose record is empty.
Retire(t) ==
    /\ tpc[t] = "retire"
    /\ stopped' = [stopped EXCEPT ![current[t]] = TRUE]
    /\ current' = [current EXCEPT ![t] = made]
    /\ times' = [times EXCEPT ![t] = <<>>]
    /\ errors' = [errors EXCEPT ![t] = 0]
    /\ GotoT(t, "enter")
    /\ UNCHANGED <<uptime, runtime, made, filled, main, failed>>

\* Mutation: the pause does not look at the stop event.
PauseBug(t) ==
    /\ tpc[t] = "pause"
    /\ GotoT(t, "cycle")
    /\ UNCHANGED <<uptime, runtime, managers, main, current, errors, times, failed>>

\* The pause between cycles ends by its timeout or by the stop event.
Pause(t) ==
    /\ tpc[t] = "pause"
    /\ GotoT(t, IF stopped[current[t]] THEN "exit" ELSE "cycle")
    /\ UNCHANGED <<uptime, runtime, managers, main, current, errors, times, failed>>

\* An exception leaves the loop: nothing starts it again.
LoopRaises(t) ==
    /\ tpc[t] \in {"cycle", "after"}
    /\ failed' = TRUE
    /\ GotoT(t, "exit")
    /\ UNCHANGED <<uptime, runtime, managers, main, current, errors, times>>

\* The finally clause, and the end of the thread.
Exit(t) ==
    /\ tpc[t] = "exit"
    /\ running' = FALSE /\ handle' = 0
    /\ GotoT(t, "dead")
    /\ UNCHANGED <<uptime, manager, store, managers, main, current, errors, times, failed>>

Loop(t) ==
    \/ Enter(t) \/ Cycle(t) \/ Evaluate(t) \/ PublishStore(t) \/ CloneRaises(t)
    \/ PublishManager(t) \/ Retire(t) \/ Pause(t) \/ Exit(t)

SupervisorNext == Elapse \/ Lifespan \/ \E t \in Thread : Loop(t) \/ LoopRaises(t)

SupervisorSpec == SupervisorInit /\ [][SupervisorNext]_supervisorVars

\* Polls and pauses have timeouts, so the loop's steps are taken; startup runs to serving.
\* Shutdown, time and exceptions are not owed.
LiveSpec ==
    /\ SupervisorSpec
    /\ \A t \in Thread : WF_supervisorVars(Loop(t))
    /\ WF_supervisorVars(StartReads \/ StartLocked)

-----------------------------------------------------------------------------
(* Correctness *)

\* The types of the variables.
SupervisorTypeOK ==
    /\ uptime \in Nat
    /\ {manager, store, made} \subseteq {0} \cup Manager
    /\ handle \in {0} \cup Thread /\ running \in BOOLEAN
    /\ stopped \in [Manager -> BOOLEAN] /\ filled \in [Manager -> BOOLEAN]
    /\ mpc \in {"init", "start", "startlock", "serving", "stopflag", "stopread", "join", "clear",
                "done"}
    /\ starts \in Nat /\ seen \in {0} \cup Manager /\ joined \in {0} \cup Thread
    /\ tpc \in [Thread -> {"none", "enter", "cycle", "after", "restart", "publish", "retire",
                           "pause", "exit", "dead"}]
    /\ current \in [Thread -> {0} \cup Manager]
    /\ errors \in [Thread -> Nat]
    /\ times \in [Thread -> Seq(Nat)]
    /\ failed \in BOOLEAN

\* The startup's start and the lifespan's, a guard restart, an exception and the shutdown leave
\* at most one thread that refreshes (the check under _sgw_refresh_lock, runtime_state.py:156-167).
OneLoop == \A t, u \in Thread : InLoop(t) /\ InLoop(u) => t = u

\* is_sgw_refresh_running and the handle tell the truth about the thread through every end it can
\* have: a thread's own finally and a stop that timed out never forget a live thread.
RunningTruth ==
    /\ running <=> handle # 0
    /\ \A t \in Thread : Alive(t) <=> handle = t

\* The thread that refreshes works on the manager and the store the API answers from, guard
\* restarts included; after an exception between the two starts it need not.
LoopRunsPublished ==
    \A t \in Thread : tpc[t] \in {"enter", "cycle", "after", "pause"} /\ ~failed =>
        current[t] = manager /\ store = manager

\* A loop finds its manager stopped only after the shutdown's stop: the stop of the manager a
\* guard restart retires never reaches the one it publishes.
OnlyShutdownStops ==
    \A t \in Thread : InLoop(t) /\ stopped[current[t]] =>
        mpc \in {"stopread", "join", "clear", "done"}

\* Readiness comes back: a published empty store is filled, unless the process is shutting down
\* or an exception has ended the loop.
StoreRefilled ==
    \A m \in Manager : store = m /\ ~filled[m]
        ~> filled[m] \/ failed \/ mpc \in {"stopflag", "stopread", "join", "clear", "done"}

\* A stop that reaches the loop's manager ends the loop, unless a guard restart has taken the
\* loop to another manager first (it then goes on: the stop is lost).
StopEndsLoop ==
    \A t \in Thread, m \in Manager :
        Alive(t) /\ current[t] = m /\ stopped[m] ~> ~Alive(t) \/ current[t] # m

-----------------------------------------------------------------------------
(* The inductive invariant *)

Stopping == mpc \in {"stopread", "join", "clear", "done"}

Setup ==
    /\ mpc = "init" => made = 0 /\ manager = 0 /\ store = 0 /\ \A t \in Thread : tpc[t] = "none"
    /\ mpc \notin {"init", "done"} => made > 0 /\ manager > 0
    /\ mpc = "startlock" => seen > 0
    /\ \A t \in Thread : Alive(t) => current[t] > 0
    /\ manager <= made /\ store <= made /\ seen <= made /\ \A t \in Thread : current[t] <= made

\* The managers the guard has not built yet are not stopped, and the one it is publishing is
\* stopped by the shutdown only.
UnbuiltUnstopped == \A m \in Manager : m > made => ~stopped[m]

Publishing ==
    \A t \in Thread : tpc[t] \in {"publish", "retire"} =>
        current[t] < made /\ (stopped[made] => Stopping)

\* Without an exception a thread leaves its loop only for the shutdown.
EndsByShutdown == \A t \in Thread : tpc[t] \in {"exit", "dead"} => failed \/ Stopping

\* What the loop, and a start that finds no loop, have read is what is published.
ReadsPublished ==
    ~failed =>
        /\ \A t \in Thread :
             /\ tpc[t] \in {"enter", "cycle", "after", "pause", "restart"} =>
                    current[t] = manager /\ store = manager
             /\ tpc[t] = "publish" => current[t] = manager /\ store = made
             /\ tpc[t] = "retire" => manager = made /\ store = made
        /\ (\A t \in Thread : ~Alive(t)) /\ ~Stopping =>
             /\ store = manager
             /\ mpc = "startlock" => seen = manager

SupervisorIInv ==
    /\ SupervisorTypeOK /\ RunningTruth /\ OnlyShutdownStops
    /\ Setup /\ UnbuiltUnstopped /\ Publishing /\ EndsByShutdown /\ ReadsPublished

=============================================================================
