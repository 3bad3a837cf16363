--------------------------- MODULE GroupRequests ---------------------------
(***************************************************************************)
(* One request to the serving group routes and to the readiness probe      *)
(* (api/routes/serving_group/operations/service.py, .../cm/operations/     *)
(* service.py, api/routes/operational/service.py) while the refresh thread *)
(* polls, a guard restart replaces the store and the manager, and modems   *)
(* come and go.                                                            *)
(*                                                                         *)
(* A request takes references to the startup status, the store and the     *)
(* manager one after the other and uses them to its end.  Time is left     *)
(* out: what is due, what is rate limited and when a wait expires are      *)
(* choices; a snapshot's time is the number of the cycle that stored it.   *)
(***************************************************************************)
EXTENDS Integers, FiniteSets

CONSTANTS
    ServiceGroups,  \* what discovery found, listed and gone through in ascending order
    Modems,         \* MAC addresses
    Tables,         \* the modem tables a heavy poll may bring, in [Modems -> RowStates]
    Requests,       \* the requests a client may send
    Pings,          \* DOCS_DEV_RESET_VERIFY_PING_ATTEMPTS
    PageSize,       \* DEFAULT_PAGE_SIZE
    PoolSize,       \* sgw.max_workers, 0 for one thread per serving group
    MaxCycles,      \* bound of the refresh cycles
    MaxRestarts     \* bound of the guard restarts

ASSUME BoundsAssumption ==
    /\ ServiceGroups \subseteq Nat /\ IsFiniteSet(Modems)
    /\ Pings \in Nat \ {0} /\ PageSize \in Nat \ {0} /\ PoolSize \in Nat
    /\ MaxCycles \in Nat /\ MaxRestarts \in Nat

VARIABLES
    status,    \* the published startup status
    store,     \* the published store, 0 before startup
    manager,   \* the published manager, 0 before startup
    cache,     \* the entries of every store
    pending,   \* the refresh requests of every manager
    loop,      \* the refresh thread
    epoch,     \* the cycle's time
    link,      \* the modems the server reaches
    resets,    \* history: modems that took a reset of this request
    dropped,   \* history: of those, the ones unreachable at some moment since
    pc, req,   \* the request and where it is
    taken,     \* the references it holds
    before,    \* history: the snapshot times when it came in
    baseline,  \* _snapshot_baseline
    todo,      \* serving groups the current loop of the request has not come to
    refresh,   \* the outcome of its refresh request
    scope,     \* (serving group, modem) pairs _resolve_scoped_modems found
    work,      \* its scoped workers
    answer     \* the response

runtime == <<status, store, manager>>
poller == <<cache, pending, loop, epoch>>
modems == <<link, resets, dropped>>
call == <<req, taken, before, baseline, refresh, scope>>
vars == <<runtime, poller, modems, pc, call, todo, work, answer>>

-----------------------------------------------------------------------------
(* Data *)

Stores == 1..(MaxRestarts + 1)

RowStates == [listed : BOOLEAN, ip : BOOLEAN, descr : BOOLEAN]

NoRow == [listed |-> FALSE, ip |-> FALSE, descr |-> FALSE]

\* sg is the one a loop over the groups left comes to next.
First(sg, left) == sg \in left /\ \A other \in left : sg <= other

\* A cache entry: its snapshot time, whether a heavy poll succeeded, and its modems.
NoEntry == [time |-> 0, heavy |-> FALSE, rows |-> [m \in Modems |-> NoRow]]

Listed(e) == {m \in Modems : e.rows[m].listed}

Idle == [state |-> "idle", todo |-> {}, ip |-> {}, cur |-> {}, pings |-> 0,
         count |-> 0, ok |-> {}, bad |-> {}]

\* A response without groups.
Refused(reason) == [status |-> "FAILURE", reason |-> reason, groups |-> {}, group |-> <<>>]

\* The list of the groups before there are any.
NoGroups == [Refused("") EXCEPT !.status = "SUCCESS"]

\* The requested groups, or all of them when none is named.
Resolve(r) == IF r.sgs = {} THEN ServiceGroups ELSE r.sgs \cap ServiceGroups

MissingGroups(r) == r.sgs \ ServiceGroups

\* The modems of an entry a request is about.
Selected(r, e) == IF r.macs = {} THEN Listed(e) ELSE Listed(e) \cap r.macs

\* getSysDescr takes its refresh request from poll.source, getCableModems from refresh.mode.
WantsRefresh(r) == r.kind \in {"modems", "descr"} /\ r.mode # "none"

\* The endpoints that run a job on the manager and refuse to start without one.
RunsJob(r) == r.kind \in {"reset", "descr"}

-----------------------------------------------------------------------------
(* Startup and the refresh thread *)

Init ==
    /\ status = "starting" /\ store = 0 /\ manager = 0
    /\ cache = [g \in Stores |-> [sg \in ServiceGroups |-> NoEntry]]
    /\ pending = [g \in Stores |-> [sg \in ServiceGroups |-> "none"]]
    /\ loop = [state |-> "off", gen |-> 1, todo |-> {}, cur |-> {}, mode |-> "none"]
    /\ epoch = 0
    /\ pc = "idle" /\ req \in Requests
    /\ link = Modems /\ resets = {} /\ dropped = {}
    /\ taken = [store |-> 0, manager |-> 0]
    /\ before = [g \in Stores |-> [sg \in ServiceGroups |-> 0]]
    /\ baseline = [sg \in ServiceGroups |-> 0]
    /\ todo = {} /\ refresh = [applied |-> FALSE, advanced |-> FALSE]
    /\ scope = {} /\ work = [sg \in ServiceGroups |-> Idle]
    /\ answer = Refused("")

\* set_sgw_startup_success publishes the store, the manager and then the status.
StartupPublishes ==
    /\ status = "starting"
    /\ \/ store = 0 /\ store' = 1 /\ UNCHANGED <<manager, status, loop>>
       \/ store = 1 /\ manager = 0 /\ manager' = 1 /\ UNCHANGED <<store, status, loop>>
       \/ /\ manager = 1 /\ status' = "ready"
          /\ loop' = [loop EXCEPT !.state = "cycle"]
          /\ UNCHANGED <<store, manager>>
    /\ UNCHANGED <<cache, pending, epoch, modems, pc, call, todo, work, answer>>

\* Discovery or the precheck fails.
StartupFails ==
    /\ status = "starting" /\ store = 0
    /\ status' = "failed"
    /\ UNCHANGED <<store, manager, poller, modems, pc, call, todo, work, answer>>

StartCycle ==
    /\ loop.state = "cycle" /\ loop.todo = {} /\ epoch < MaxCycles
    /\ epoch' = epoch + 1
    /\ loop' = [loop EXCEPT !.todo = ServiceGroups]
    /\ UNCHANGED <<runtime, cache, pending, modems, pc, call, todo, work, answer>>

\* A group's turn: a placeholder entry when there is none, the request popped, and the poll
\* decided; a group that was never polled heavily is due.
Turn(sg) ==
    LET asked == pending[loop.gen][sg]
        entry == cache[loop.gen][sg]
    IN
    /\ loop.state = "cycle" /\ First(sg, loop.todo)
    /\ \E mode \in {"heavy", "light", "none"} :
          /\ asked # "none" => mode = asked
          /\ asked = "none" /\ ~entry.heavy => mode = "heavy"
          /\ loop' = [loop EXCEPT !.todo = @ \ {sg}, !.cur = {sg}, !.mode = mode,
                                  !.state = IF mode = "none" THEN "cycle" ELSE "poll"]
    /\ pending' = [pending EXCEPT ![loop.gen][sg] = "none"]
    /\ cache' = IF entry.time = 0 THEN [cache EXCEPT ![loop.gen][sg].time = epoch] ELSE cache
    /\ UNCHANGED <<runtime, epoch, modems, pc, call, todo, work, answer>>

\* The poll ends: a heavy one replaces the modems, a light one and one that raises keep them,
\* and all three store the cycle's time.
PollEnds ==
    /\ loop.state = "poll"
    /\ \E sg \in loop.cur :
          \/ /\ loop.mode = "heavy"
             /\ \E rows \in Tables :
                   cache' = [cache EXCEPT ![loop.gen][sg] = [time |-> epoch, heavy |-> TRUE, rows |-> rows]]
          \/ cache' = [cache EXCEPT ![loop.gen][sg].time = epoch]
    /\ loop' = [loop EXCEPT !.state = "cycle", !.mode = "none"]
    /\ UNCHANGED <<runtime, pending, epoch, modems, pc, call, todo, work, answer>>

\* A guard restart after a cycle: an empty store is published first, then its manager, and the
\* thread goes on with that.
GuardRestarts ==
    /\ loop.state = "cycle" /\ loop.todo = {} /\ epoch > 0
    /\ \/ store = loop.gen /\ loop.gen \in 1..MaxRestarts
          /\ store' = store + 1 /\ UNCHANGED <<manager, loop>>
       \/ store > loop.gen /\ manager' = store /\ loop' = [loop EXCEPT !.gen = store]
          /\ UNCHANGED store
    /\ UNCHANGED <<status, cache, pending, epoch, modems, pc, call, todo, work, answer>>

\* What request_refresh leaves pending: a heavy request is never replaced.
Queue(p, mode) == IF p = "heavy" THEN p ELSE IF mode = "heavy" \/ p = "none" THEN mode ELSE p

\* A heavy request may be rate limited once a heavy poll has succeeded.
MayRefuse(g, sg, mode) == mode = "heavy" /\ cache[g][sg].heavy

-----------------------------------------------------------------------------
(* The modems: reachable or not, for any reason, while a worker still has to do with them. *)

LinkChanges(m) ==
    /\ pc = "collect" /\ req.kind = "reset"
    /\ \E sg \in ServiceGroups : m \in work[sg].todo \union work[sg].cur
    /\ link' = IF m \in link THEN link \ {m} ELSE link \union {m}
    /\ dropped' = dropped \union ({m} \cap link \cap resets)
    /\ UNCHANGED <<runtime, poller, resets, pc, call, todo, work, answer>>

-----------------------------------------------------------------------------
(* The request takes its references *)

Finish(a) == pc' = "answered" /\ answer' = a

Receive ==
    /\ pc = "idle"
    /\ pc' = IF req.kind = "restart" THEN "manager" ELSE "status"
    /\ before' = IF req.wait THEN [g \in Stores |-> [sg \in ServiceGroups |-> cache[g][sg].time]] ELSE before
    /\ UNCHANGED <<runtime, poller, modems, req, taken, baseline, refresh, scope, todo, work, answer>>

\* What the probe checks first: the state directory can be made, entered and written, or read.
StateDirRefused == req.kind = "ready" /\ Finish(Refused("state_dir"))

\* Every endpoint refuses until the startup has completed and succeeded, but for the one that
\* lists the groups, which shows none until then.
ReadStatus ==
    /\ pc = "status"
    /\ \/ StateDirRefused
       \/ status = "ready" /\ pc' = "store" /\ UNCHANGED answer
       \/ status # "ready" /\ req.kind # "ids" /\ Finish(Refused(status))
       \/ status # "ready" /\ req.kind = "ids" /\ Finish(NoGroups)
    /\ UNCHANGED <<runtime, poller, modems, call, todo, work>>

\* The references are read one after the other; the first loop begins.
ReadStore ==
    /\ pc = "store"
    /\ taken' = [taken EXCEPT !.store = store]
    /\ \/ store = 0 /\ Finish(Refused("store")) /\ UNCHANGED todo
       \/ /\ store # 0 /\ UNCHANGED answer
          /\ pc' = CASE RunsJob(req) -> "manager"
                     [] req.kind = "modems" /\ WantsRefresh(req) -> "baseline"
                     [] OTHER -> "collect"
          /\ todo' = Resolve(req)
    /\ UNCHANGED <<runtime, poller, modems, req, before, baseline, refresh, scope, work>>

\* The job endpoints and the queueing of a heavy refresh (sgw_restart) read the manager at
\* once, getCableModems when it requests its refresh.
ReadManager ==
    /\ \/ /\ pc = "manager"
          /\ pc' = CASE manager = 0 -> "answered"
                     [] manager # 0 /\ WantsRefresh(req) -> "baseline"
                     [] manager # 0 /\ req.kind = "restart" -> "refresh"
                     [] OTHER -> "scope"
          /\ answer' = IF manager = 0 THEN Refused("manager") ELSE answer
          /\ todo' = Resolve(req)
       \/ /\ pc = "baseline" /\ ~RunsJob(req) /\ todo = {}
          /\ pc' = "refresh" /\ todo' = Resolve(req) /\ UNCHANGED answer
    /\ taken' = [taken EXCEPT !.manager = manager]
    /\ UNCHANGED <<runtime, poller, modems, req, before, baseline, refresh, scope, work>>

-----------------------------------------------------------------------------
(* The refresh request and the wait for it *)

\* _snapshot_baseline, group by group.
ReadBaseline(sg) ==
    /\ pc = "baseline" /\ First(sg, todo)
    /\ baseline' = [baseline EXCEPT ![sg] = cache[taken.store][sg].time]
    /\ todo' = todo \ {sg}
    /\ UNCHANGED <<runtime, poller, modems, pc, req, taken, before, refresh, scope, work, answer>>

BaselineRead ==
    /\ pc = "baseline" /\ RunsJob(req) /\ todo = {}
    /\ pc' = "refresh" /\ todo' = Resolve(req)
    /\ UNCHANGED <<runtime, poller, modems, call, work, answer>>

\* _request_refresh, _request_heavy_refresh: the request is applied when one group accepts it.
RequestRefresh(sg) ==
    LET mode == IF req.kind = "modems" THEN req.mode ELSE "heavy"
        g == taken.manager
    IN
    /\ pc = "refresh" /\ First(sg, todo)
    /\ \/ g = 0 /\ UNCHANGED <<pending, refresh>>
       \/ g # 0 /\ MayRefuse(g, sg, mode) /\ UNCHANGED <<pending, refresh>>
       \/ /\ g # 0
          /\ pending' = [pending EXCEPT ![g][sg] = Queue(@, mode)]
          /\ refresh' = [refresh EXCEPT !.applied = TRUE]
    /\ todo' = todo \ {sg}
    /\ UNCHANGED <<runtime, cache, loop, epoch, modems, pc, req, taken, before, baseline, scope, work, answer>>

\* The groups requested: wait when asked to and when something was accepted.
RefreshRequested ==
    /\ pc = "refresh" /\ todo = {} /\ req.kind # "restart"
    /\ pc' = CASE req.wait /\ refresh.applied -> "wait"
               [] ~(req.wait /\ refresh.applied) /\ RunsJob(req) -> "scope"
               [] OTHER -> "collect"
    /\ todo' = Resolve(req)
    /\ UNCHANGED <<runtime, poller, modems, call, work, answer>>

\* The queueing endpoint answers whether its group took the request.
RefreshQueued ==
    /\ pc = "refresh" /\ todo = {} /\ req.kind = "restart"
    /\ Finish(IF refresh.applied THEN NoGroups ELSE Refused("refused"))
    /\ UNCHANGED <<runtime, poller, modems, call, todo, work>>

\* Mutation: the comparison is not strict.
AdvancedBug ==
    \E sg \in Resolve(req) : cache[taken.store][sg].time > 0
                             /\ cache[taken.store][sg].time >= baseline[sg]

\* _snapshot_advanced: one group of the store taken has a newer time.
Advanced ==
    \E sg \in Resolve(req) : cache[taken.store][sg].time > baseline[sg]

\* Mutation: no deadline.
WaitEndsBug ==
    /\ pc = "wait" /\ Advanced
    /\ refresh' = [refresh EXCEPT !.advanced = TRUE]
    /\ pc' = IF RunsJob(req) THEN "scope" ELSE "collect"
    /\ UNCHANGED <<runtime, poller, modems, req, taken, before, baseline, scope, todo, work, answer>>

\* _wait_for_refresh: it looks every 100 ms and once more at its deadline.
WaitEnds ==
    /\ pc = "wait"
    /\ refresh' = [refresh EXCEPT !.advanced = Advanced]
    /\ pc' = IF RunsJob(req) THEN "scope" ELSE "collect"
    /\ UNCHANGED <<runtime, poller, modems, req, taken, before, baseline, scope, todo, work, answer>>

-----------------------------------------------------------------------------
(* The job *)

\* _resolve_scoped_modems, group by group: it decides which MAC addresses are missing.
ReadScope(sg) ==
    /\ pc = "scope" /\ First(sg, todo)
    /\ scope' = scope \union ({sg} \X Selected(req, cache[taken.store][sg]))
    /\ todo' = todo \ {sg}
    /\ UNCHANGED <<runtime, poller, modems, pc, req, taken, before, baseline, refresh, work, answer>>

MissingMacs == req.macs \ {p[2] : p \in scope}

ScopeRead ==
    /\ pc = "scope" /\ todo = {}
    /\ pc' = "collect" /\ todo' = Resolve(req)
    /\ UNCHANGED <<runtime, poller, modems, call, work, answer>>

Running == {sg \in ServiceGroups : work[sg].state = "run"}

\* The first page of a group's modems: which ones it holds depends on their order.
FirstPage(ms) ==
    LET size == IF Cardinality(ms) > PageSize THEN PageSize ELSE Cardinality(ms)
    IN  CHOOSE p \in SUBSET ms : Cardinality(p) = size

\* A group record of the job endpoints before any modem: failed when it has no entry.
Worker(e) ==
    IF e.time = 0 THEN [Idle EXCEPT !.state = "missing"]
    ELSE [Idle EXCEPT !.state = "run", !.todo = Selected(req, e), !.count = Cardinality(Selected(req, e)),
                      !.ip = {m \in Selected(req, e) : e.rows[m].ip}]

\* A scoped worker starts when the pool has room, and reads the group's entry again.
StartWorker(sg) ==
    /\ pc = "collect" /\ RunsJob(req) /\ sg \in todo
    /\ PoolSize > 0 => Cardinality(Running) < PoolSize
    /\ work' = [work EXCEPT ![sg] = Worker(cache[taken.store][sg])]
    /\ todo' = todo \ {sg}
    /\ UNCHANGED <<runtime, poller, modems, pc, call, answer>>

Worked(w, m, success) ==
    [w EXCEPT !.todo = @ \ {m}, !.cur = {}, !.pings = 0,
              !.ok = IF success THEN @ \union {m} ELSE @, !.bad = IF success THEN @ ELSE @ \union {m}]

\* The reset of the next modem: no address, a command that fails, one that is taken while its
\* answer is lost, or one to verify.
SendReset(sg, m) ==
    LET w == work[sg] IN
    /\ pc = "collect" /\ req.kind = "reset" /\ w.state = "run" /\ w.cur = {} /\ m \in w.todo
    /\ \/ UNCHANGED resets /\ work' = [work EXCEPT ![sg] = Worked(@, m, FALSE)]
       \/ /\ m \in w.ip \intersect link
          /\ resets' = resets \union {m}
          /\ \/ work' = [work EXCEPT ![sg] = Worked(@, m, FALSE)]
             \/ work' = [work EXCEPT ![sg].cur = {m}, ![sg].pings = 0]
    /\ UNCHANGED <<runtime, poller, link, dropped, pc, call, todo, answer>>

\* Mutation: a modem that still answers the last ping counts as reset.
PingBug(sg, m) ==
    LET w == work[sg] IN
    /\ pc = "collect" /\ m \in w.cur
    /\ work' = IF m \notin link \/ w.pings + 1 = Pings
               THEN [work EXCEPT ![sg] = Worked(@, m, TRUE)]
               ELSE [work EXCEPT ![sg].pings = @ + 1]
    /\ UNCHANGED <<runtime, poller, modems, pc, call, todo, answer>>

\* _verify_docs_dev_reset_ping_failure: the first ping without answer verifies the reset.
Ping(sg, m) ==
    LET w == work[sg] IN
    /\ pc = "collect" /\ m \in w.cur
    /\ work' = CASE m \notin link -> [work EXCEPT ![sg] = Worked(@, m, TRUE)]
                 [] m \in link /\ w.pings + 1 = Pings -> [work EXCEPT ![sg] = Worked(@, m, FALSE)]
                 [] OTHER -> [work EXCEPT ![sg].pings = @ + 1]
    /\ UNCHANGED <<runtime, poller, modems, pc, call, todo, answer>>

\* The getSysDescr worker: the modems with an address are polled, some answer.
PollSysDescr(sg) ==
    LET w == work[sg] IN
    /\ pc = "collect" /\ req.kind = "descr" /\ w.state = "run" /\ w.todo # {}
    /\ \E heard \in SUBSET w.ip :
          work' = [work EXCEPT ![sg].todo = {}, ![sg].ok = heard, ![sg].bad = w.todo \ heard]
    /\ UNCHANGED <<runtime, poller, modems, pc, call, todo, answer>>

\* A group fails when it has no entry, or has modems and none succeeded.
GroupStatus(w) == IF w.state = "missing" \/ (w.count > 0 /\ w.ok = {}) THEN "FAILURE" ELSE "SUCCESS"

WorkerDone(sg) ==
    LET w == work[sg] IN
    /\ pc = "collect" /\ w.state = "run" /\ w.todo = {} /\ w.cur = {}
    /\ work' = [work EXCEPT ![sg].state = "done", ![sg].ip = {}]
    /\ UNCHANGED <<runtime, poller, modems, pc, call, todo, answer>>

-----------------------------------------------------------------------------
(* The answer *)

\* getCableModems and getTopology read a group: its first page, or how many modems have a sysDescr.
ReadGroup(sg) ==
    LET e == cache[taken.store][sg]
        described == {m \in Listed(e) : e.rows[m].descr}
    IN
    /\ pc = "collect" /\ ~RunsJob(req) /\ First(sg, todo)
    /\ work' = [work EXCEPT ![sg] =
                  [Idle EXCEPT !.state = IF e.time = 0 THEN "missing" ELSE "done",
                               !.count = Cardinality(Listed(e)),
                               !.ok = IF req.kind = "modems" THEN FirstPage(Listed(e)) ELSE described,
                               !.bad = IF req.kind = "modems" THEN {} ELSE Listed(e) \ described]]
    /\ todo' = todo \ {sg}
    /\ UNCHANGED <<runtime, poller, modems, pc, call, answer>>

Groups == Resolve(req)

NoneSucceeded ==
    /\ \E sg \in Groups : work[sg].count > 0
    /\ \A sg \in Groups : work[sg].ok = {}

\* Mutation: a missing MAC address is not reported once some modem was reset.
ResetStatusBug ==
    IF MissingGroups(req) # {} \/ NoneSucceeded THEN "FAILURE" ELSE "SUCCESS"

\* docsDevResetNow: something requested is missing, or no reset was verified.
ResetStatus ==
    IF MissingMacs # {} \/ MissingGroups(req) # {} \/ NoneSucceeded THEN "FAILURE" ELSE "SUCCESS"

\* getSysDescr: without groups it fails when something was requested; a missing MAC address
\* or group does not matter when another group answers.
SysDescrStatus ==
    IF (Groups = {} /\ (req.sgs # {} \/ req.macs # {})) \/ NoneSucceeded THEN "FAILURE" ELSE "SUCCESS"

\* getCableModems and getTopology: none of the requested groups exists.
ListingStatus == IF Groups = {} /\ req.sgs # {} THEN "FAILURE" ELSE "SUCCESS"

\* ready, with compute_sgw_cache_ready: every discovered group has an entry.
ReadyStatus == IF \A sg \in Groups : work[sg].state = "done" THEN "SUCCESS" ELSE "FAILURE"

\* The response, when every group has been read or worked on.
Answer ==
    /\ pc = "collect" /\ todo = {} /\ \A sg \in Groups : work[sg].state \in {"done", "missing"}
    /\ Finish([status |-> CASE req.kind = "reset" -> ResetStatus
                            [] req.kind = "descr" -> SysDescrStatus
                            [] req.kind = "ready" -> ReadyStatus
                            [] OTHER -> ListingStatus,
               reason |-> "", groups |-> Groups,
               group |-> [sg \in Groups |-> GroupStatus(work[sg])]])
    /\ UNCHANGED <<runtime, poller, modems, call, todo, work>>

Serve ==
    \/ Receive \/ ReadStatus \/ ReadStore \/ ReadManager \/ BaselineRead \/ RefreshRequested
    \/ RefreshQueued
    \/ WaitEnds \/ ScopeRead \/ Answer
    \/ \E sg \in ServiceGroups :
          ReadBaseline(sg) \/ RequestRefresh(sg) \/ ReadScope(sg) \/ ReadGroup(sg)

\* A thread of the pool that works for sg.
Job(sg) ==
    \/ StartWorker(sg) \/ PollSysDescr(sg) \/ WorkerDone(sg)
    \/ \E m \in Modems : SendReset(sg, m) \/ Ping(sg, m)

Poll == StartCycle \/ PollEnds \/ GuardRestarts \/ \E sg \in ServiceGroups : Turn(sg)

\* What happens around the request, until it is answered.
Around ==
    /\ pc # "answered"
    /\ \/ StartupPublishes \/ StartupFails \/ Poll
       \/ \E m \in Modems : LinkChanges(m)

Done == pc = "answered" /\ UNCHANGED vars

Next == Around \/ Serve \/ Done \/ \E sg \in ServiceGroups : Job(sg)

\* The request's own thread and the pool's threads run; nothing is asked of the refresh thread.
Fairness == WF_vars(Serve) /\ \A sg \in ServiceGroups : WF_vars(Job(sg))

Spec == Init /\ [][Next]_vars /\ Fairness

-----------------------------------------------------------------------------
(* Correctness *)

\* The types of the variables.
TypeOK ==
    /\ status \in {"starting", "ready", "failed"}
    /\ store \in 0..(MaxRestarts + 1) /\ manager \in 0..store
    /\ cache \in [Stores -> [ServiceGroups ->
                    [time : 0..MaxCycles, heavy : BOOLEAN, rows : Tables \union {NoEntry.rows}]]]
    /\ pending \in [Stores -> [ServiceGroups -> {"none", "light", "heavy"}]]
    /\ link \subseteq Modems /\ resets \subseteq Modems /\ dropped \subseteq resets
    /\ req \in Requests /\ todo \subseteq ServiceGroups
    /\ scope \subseteq ServiceGroups \X Modems

Answered(kind) == pc = "answered" /\ req.kind = kind

\* A modem is reported reset only if it took this request's command and the server then lost
\* it: whatever other workers, polls and links do in between (_verify_docs_dev_reset_ping_failure
\* against a modem that never went away or was down before it was told to).
ResetVerified ==
    req.kind = "reset" => \A sg \in ServiceGroups : work[sg].ok \subseteq resets \intersect dropped

\* docsDevResetNow answers SUCCESS only when everything named was found, every modem of every
\* group is accounted for, and some reset was verified unless there was nothing to reset
\* (the verdict cascade of docs_dev_reset_now over groups worked on concurrently).
VerdictTrue ==
    Answered("reset") /\ answer.status = "SUCCESS" =>
        /\ req.sgs \subseteq ServiceGroups
        /\ \A m \in req.macs : \E sg \in Groups : <<sg, m>> \in scope
        /\ \A sg \in Groups : Cardinality(work[sg].ok) + Cardinality(work[sg].bad) = work[sg].count
        /\ dropped # {} \/ \A sg \in Groups : work[sg].count = 0

\* A refresh reported as advanced means that the thread stored a group of the answer since the
\* request came in, in the very store the answer is read from: a guard restart in between, which
\* sends the refresh request to another manager, never makes it true.
AdvancedFresh ==
    refresh.advanced =>
        \E sg \in Groups : cache[taken.store][sg].time > before[taken.store][sg]

\* Every request is answered, even when no poll ever ends and every modem is lost.
RequestAnswered == pc \in {"status", "manager"} ~> pc = "answered"
=============================================================================
