# PyPNM-CMTS: a verification development in TLA+

PyPNM-CMTS coordinates proactive network maintenance (PNM) of cable modems behind a CMTS. A
deployment is several processes (replicas, containers, workers) that share a state directory; each
serves a REST API, keeps a cache of its service groups that a thread refreshes, and runs
measurements over the modems of a service group in the background. This directory specifies the
parts of the program in which the order of steps decides what is correct, checks them with TLC on
small instances and proves the main results for every value of the constants with TLAPS.

Paths below are relative to `src/pypnm_cmts/` of the repository.

## 1. Inventory

| Component | State | Operations | Hard behaviour | What makes it correct |
|---|---|---|---|---|
| File lease and leader election: `coordination/service_group_lease.py`, `coordination/leader_election.py` | one JSON record per lease and one lock directory, on disk, shared by processes | `try_acquire`, `renew`, `release`, `status` | interleaved file system calls, stale locks, crashes, failed writes, expiry | one holder at a time; a belief to hold is backed by the record; a dead process does not block the lease |
| Coordination manager: `coordination/manager.py` | the leases it believes it holds, the leader record | `tick`, `tick_leader_only`, `release_all` | renewals that answer busy, a target that other replicas compete for | held leases never exceed the target; a release that is refused keeps its lease known |
| Orchestrator: `orchestrator/launcher.py`, `runtime.py`, `work_runner.py`, `combined_mode.py` | the running runtime, stop flags, the inventory, `inventory/discovery.json` | tick loop, the leader's discovery, worker tests, stop | stop before start, failures inside a tick, work on a lease that expires, a torn snapshot | the release of all leases tried on every exit; tests run on held leases only; groups come to be served |
| Shard planner: `orchestrator/sg_shard_planner.py` | none | `plan` | boundaries of counts | as many workers as the groups need |
| Pid files: `orchestrator/pidfile_manager.py` | one file per role | write, cleanup, read | processes of one role, crashes, reused pids | a file names the running process of its role |
| Operation store and runner: `api/common/operations/` | `state.json`, `cancel.flag`, `results/*.jsonl`; queue, pending, abandoned and retry lists in memory | start, cancel, the runner's loop, a thread pool | timeouts against late answers, retries, stale writes, cancel races, crash | each modem answered once; no terminal state changes; COMPLETED means that all it counts in total were captured |
| Capture scope and workers: `api/common/service/pnm/` | two references to a store | expand a request to modems, pair groups and modems, capture one modem in stages | a cache that changes under the request | every named modem is in scope once |
| Measurement routes: `api/routes/pnm/sg/` | none of their own | start, results with filters, analysis, file links; ten services, each a hand-made copy of another | results read between two appends | success only with a file of the modem; the same verdict under every filter |
| SGW cache refresh: `sgw/manager.py`, `sgw/store.py` | cache entries with stamps and labels, pending requests, stop flag | refresh loop, `request_refresh` | requests against the loop, polls that fail, jitter, staleness | age bounded; errors visible and polled again; requests answered |
| SGW supervision: `sgw/runtime_state.py`, `support/worker_guard.py`, the lifespan of `api/main.py` | published manager and store, thread handle, running flag, guard record | start, stop, guard restart | start and stop against a thread that replaces its own manager | one loop, on what is published |
| SGW startup, discovery and pollers: `sgw/startup.py`, `discovery.py`, `precheck.py`, `pollers/`, `cmts/`, `docsis/cmts_operation.py` | startup status; rows collected so far | discover, precheck, prime, poll a group, look a modem up | tables that change while they are walked, lost reads, joins with fallbacks | nothing stored that was not so; nothing dropped that stayed |
| Serving group and operational routes: `api/routes/serving_group/`, `operational/`, `api/health.py` | none (cache, links to modems, scoped workers of a request) | list, topology, refresh and wait, reset with verification, sysDescr, readiness, process status | reads between two writes, a store replaced in between, modems that never answer | a reported reset took place; an advance is an advance of what is shown; every request ends |
| Release and process tools: `tools/release_tool.py`, `tools/release/release.py`, `tools/support/bump_version.py`, `tools/maintenance/kill-pypnm-cmts.py` | version files, branch, tags, origin; process table | bump, commit, tag, push, restore; list, kill | failures half way, two releasers, processes that end meanwhile | a tag names its version; a test run puts the version files back; every runner is signalled |
| Web service guard and reload: `support/` | guard thread, sentinel and pid files | start, stop, ask for a reload | a reload that ends the process that asked | budget respected |
| SGW worker lanes: `sgw/worker.py` | lanes | heavy and light lanes | used by its tests only | - |
| Configuration: `config/` | settings | load, validate | - | accepted settings are usable ones |
| PNM parsers, command line, examples | none | input and output | - | - |

Interactions. The orchestrator's loop calls the coordination manager, which makes leases; the
API's lifespan starts and stops the cache refresh, the memory guard and, in combined mode, the
orchestrator's thread. The refresh thread polls the CMTS and fills the store that the supervision
publishes. Routes read this store, put refresh requests into the published manager and start
operations; an operation takes its modems from the store, captures them on the runner's workers and
talks to the routes only through files, which the results endpoints read at any moment. Every hazard
we know is listed at its line in `PROJECT.json`, with the properties that cover it.

## 2. Modules

| Module | Content |
|---|---|
| `Lease` | what one lease promises: at most one process is told that it holds it, for at most a ttl |
| `FileLease`, `FileLeaseProofs` | the protocol of both lease classes, one step per file system call; exclusion and refinement of `Lease` |
| `Coordination`, `CoordinationProofs` | replicas that tick over the leader's and the service groups' leases, and release them; renewals in time, nothing owned unknowingly, targets kept |
| `Orchestrator`, `OrchestratorProofs` | inventory, plan, tick loop, discovery, tests, stop and pid files over one state directory; everything given back, tests under a lease |
| `Operation` | what one operation promises a client that polls it |
| `OperationRunner`, `OperationProofs` | store, runner thread, pool, retries, timeouts, cancel requests, death of the process; terminal states, accounting of the modems, refinement of `Operation` |
| `CaptureScope` | how a request becomes work items: resolver, pairing, a worker's lookup |
| `CaptureResults` | stage records, how a response becomes one, how a view of the modems is put together from them |
| `Measurements` | what is different in which of the ten measurement services |
| `Capture`, `CaptureProofs` | composes the three: store, workers, results files and results requests, interleaved; scope and verdicts for any snapshots and records |
| `SgwRefresh` | the refresh cycle of one manager against refresh requests; bounds on age, fate of requests |
| `SgwSupervisor` | starts, guard restarts and the stop around the refresh thread; at most one loop, on the published manager |
| `SgwProofs` | the proofs about `SgwRefresh`, `SgwSupervisor` and `Inventory` |
| `Inventory` | discovery, the heavy poll and the lookups, read by read, against a table that changes |
| `GroupRequests`, `GroupRequestsProofs` | one request to the serving group routes or the readiness probe, against startup, polls and a guard restart; verdicts that are backed |
| `ProcessStatus` | pid files, the status endpoint and the kill tool against processes that come and go |
| `Release` | both release tools and the version bump, from clones of one origin, with failures at every step |
| `ToolProofs` | the proofs about `ProcessStatus` and `Release` |
| `MCFileLease`, `MCCoordination`, `MCOperationRunner`, `MCSgwRefresh`, `MCCapture`, `MCOrchestrator`, `MCInventory`, `MCGroupRequests`, `MCProcessStatus`, `MCRelease` | model values, instances and symmetry for TLC |

`SgwSupervisor` needs no MC module: its constants are numbers. Two proof modules extend several
specifications, which share no variable; where two would name a definition alike, those of
`SgwSupervisor` begin with `Supervisor`, those of `Inventory` with `Inventory` and those of `ProcessStatus`
with `Status`.

### FileLease

`lock` is the lock directory (existence, mtime, and as history who made it), `record` the JSON
record, `pc`/`op`/`seen`/`at` a process's place in its call and what it read, `grant` the expiry the
caller was last told. `Mkdir`, `MkdirExists`, `JudgeStale`, `Busy`, `Rmdir`, `Remkdir` are
`_acquire_lock` call by call; `ReadRecord` to `ReleaseUnlink` the bodies of the three operations;
`ReleaseLock` the finally clause. The two Python classes are one protocol; they differ in what
`_write_record_replace` does with an OSError, which is the constant `WriteErrors`: "raised" in the
election, "swallowed" in the service group lease. A crash leaves the lock directory behind and, in
the exclusive create, a file that does not parse. Adjacent reads of one call (stat and the clock, the record
and the clock) are one step.

### Coordination

The leases of all service groups and the leadership, each with its `owner` and the time `left` to its
record, and the replicas' managers: `held` is `_held_leases` (and the leadership the last `tick`
answered), `pc`/`todo` the place in `tick` or `release_all`, `age` the time since the tick began. It
composes what `FileLease` shows of one lease: a call is one step, or finds the lock busy. Each call of
`tick` is a step (`Lead`, `LeadRenew`, `Renew`, `Acquire`), so that replicas and time interleave
within a tick. `Leave` is the end of the loop by a stop between ticks or by an exception anywhere,
`Release` and `ReleaseLeader` are `release_all`, `Die` and `Restart` a process and its successor with
the same ids. Candidates are tried in any order, which includes both shard modes and every score.
`doubt` is a history variable: the leases about which a fault may have left a replica with a wrong
belief. It is set by a busy lock or a death and cleared by the next answer that agrees with the file.

### OperationRunner

`file`, `flag`, `results` are the operation's directory; `mem`, `queue`, `pending`, `abandoned`,
`retry`, `todo` the runner's memory, `future` what became of each submitted attempt. The store's
lock makes each load and each save one step and everything between interleaves. The runner's loop is
`check` (cancel flag, deadline, dispatch), `collect` (answers and timeouts), `handle`/`save` (one
result at a time). Times are abstracted to what the code can find when it looks: an attempt is over
its timeout or not, a retry ready or not, the deadline past or not. Capturing is external: it
succeeds, fails or hangs. `CancelLoad`, `CancelTouch`, `CancelSave` are `request_cancel`. `Save`
keeps a terminal state as `_can_replace_state` does. The grace period after a cancel is folded into
the load that follows it: it neither records nor retries anything.

### SgwRefresh

`cache` holds an entry's three stamps and its label, a stamp of 0 standing for None; `request` is
`_refresh_requests`; `pc` the refresh thread's place in `refresh_once`. A cycle reads the clock once
and uses this `now` for everything it stamps, as the code does, however long its polls take. Each
service group's turn is `EnsureEntry`, `Pop` (request popped and refresh decided), `PollReturns`
or `PollRaises`, `Finish` (age and label stored). `RequestRefresh` may happen at any moment. The
order of the service groups is left open, which includes the list's order. A request reads the
store and sets `_refresh_requests` in one step: the store is read under the manager's lock, and only
the heavy stamp of a finished poll could change between, which makes the refusal older, not
different. The clock never goes back.

### SgwSupervisor

`manager`, `store`, `handle`, `running` are the module variables of `runtime_state.py`; `stopped`
the stop flag and event of each manager; `mpc` the lifespan (startup's start, its own second start,
the stop at shutdown split at every read and lock), `tpc` each thread. Manager k works on store k, as
`clone_for_restart` builds them. A refresh cycle is one step, with or without errors; the pause ends
by its timeout or by the stop event. `Join` ends when the thread does or at its timeout.
`PublishStore` and `PublishManager` are two steps because the code assigns the two variables without
the lock. `times` is the guard controller's record and `Retire` empties it because it builds a new
controller.

### Orchestrator

A node is a process with its launcher, runtime and manager. `Start`, `StartProbe`, `Publish`, `Enter`
are the launcher up to the loop: the inventory by the mode's priority (snapshot, configuration,
discovery), the plan (`Desired`, `WorkerCount`), the manager's target, the pid file. `Tick` is the
manager's tick, in one step (its calls are `Coordination`'s); `Emit*` the callback that refreshes the
inventory when the node leads, `Truncate` and `Persist` the two steps in which `discovery.json` is
overwritten, `RunTests` the worker's test, `Wake` the sleep. `Leave` is the finally clause of
`run_forever`, reached by a stop or by any exception: `ReleaseAll` gives back what is still the node's, or, as
one of the faults, a part of it (a release may answer busy, or raise and so skip the others). What it did not
give back is in `kept`. `Stop` before `Publish` finds no runtime and is
lost, as in `combined_mode.py`. A node in `once` makes a single turn instead (`run_once`, the command
`run` and the `/orchestrator/run` route): `TickOnce`, the refresh of a controller's inventory,
`TestOnce`, and it is `gone` without a pid file, a stop or a release; its records expire. Nodes die and
come back. A lease expires when its owner is dead, has left, or spends the time in a discovery, during
which nobody renews.

### Capture: CaptureScope, CaptureResults, Measurements

`Measurements` answers four questions for each of the ten services: which work items and channels a
request becomes, what a capture may end in, which records a results request selects, and what is
shown of a modem. `Capture` runs one of them: `stores` are the stores published so far, of which the
scope resolver and the capture worker each keep the first they see; `progress` is how far each work
item is; `writing` the records that the runner's thread still has to append. The results request is an
operator on `file`, evaluated in every state. Transactions are opaque names: whose file they are is
all a property asks. The messages of a record are left out. What the code folds over a list of records (final stage, latest channel, first
transaction, the order of modems) depends on nothing but each record's place in the list: the group's
file, in the order of the files' names (`NameOrder`), and the line. So the records are a set of
`[at |-> place, is |-> record]`, the list's order is `Before`, and first and last are what they say.

### Inventory

`job` is at a request of its plan (`Plan(kind)`, `job.next`) and keeps the requests that were answered and
the rows found; each SNMP get or walk is one step between which modems register, leave, move and change
address (`table`), or the request is lost. A fallback is a request of the plan that `Skip` passes when the
code does not send it. What a job makes of its answers is a function of which requests were answered:
the topology with its fallbacks, the types and bands of channels, which are sets since the code sorts
them. `ever` and `always` are history: the rows that were there at some time of the job, and all the time.

### GroupRequests

One request with the three references it takes one after the other (`status`, `store`, `manager`), the
refresh thread (`loop`), the cache of every store (a guard restart publishes another one) and the
links of the modems. Its kinds are the listing, the topology, a refresh with or without a wait, the
reset with its pings, sysDescr, and readiness. Scoped workers (`work`) run on a pool of threads, one
modem after the other. Time is left out: what is due, what is rate limited, and when a wait expires
are choices; a snapshot's time is the number of the cycle that stored it.

### ProcessStatus

`proc` is the process table: a runner enters, writes its pid file, removes it, ends or crashes, and
its pid may be given to a stranger. `file` has the pid files, one per role, `serve` that of a server in
the background. The status endpoint reads file by file, probes the pid and falls back to `ps`,
which may fail or list a part (`failed`); of the candidates in mode controller the last one takes the
controller's row (`shown`). `ours` stands for a matching election name on the command line, and for the
tool for a process of its user. The kill tool takes a table of rows, or ends when its `ps` fails, and goes
through the rows.

### Release

`commits`, `origin`, `clone` are git as far as the tools use it; `run` a releaser's place in its run.
Each call of git or of a check is a step that may fail and end the run where it is, with what it left
in the working tree, the clone's branch and its tags. The version is computed before the pull.
A clone begins on main, on hot-fix or on another branch. `--branch` is at its default, main, in every run.
`Restore` is the test run's way back: it puts the version files and the TAG tokens to the former version, and
leaves a rewritten pin or a sanitized configuration as it is.

## 3. Runs

| Run | Expected | Question and answer |
|---|---|---|
| `lease_safe` | pass | Two processes with ids of their own, crashes, raised write errors: the lock excludes, the lease excludes, the protocol implements `Lease`, and a dead process's lock directory is broken by the survivors |
| `lease_break_race` | violation | Two processes that both judged a lock stale: the second `rmdir` removes the first one's new lock |
| `coordination` | pass | With ticks at most half a ttl apart a manager's beliefs are true of the files unless a fault came between; and the replicas converge to a partition whatever the faults were |
| `orchestrator` | pass | Two nodes in seven deployments: leases pass on, every exit gives back what was held but for the leases whose release failed or was skipped, a test runs under a lease, the pid file is true, the plan covers the groups, every group of a node with a sufficient target is served again, a stop ends the node |
| `operation_safe` | pass | Timeouts, retries, late answers, write errors, crashes and a cancel request at every step: each modem is in one place, COMPLETED means that every modem counted in total was captured, counters never run ahead of the files, the runner implements `Operation`, and every operation ends unless a write raises or the server dies |
| `capture` | pass | Ten measurements: expansion agrees with the snapshots, the results tell the truth of what is recorded, and say the same of a modem under every selection, but for the codes of its first stages under a channel filter |
| `sgw_refresh` | pass | After its turn a service group is younger than the light interval plus its jitter and labelled by its age; requests are answered within a cycle and heavy ones end in a heavy poll |
| `sgw_supervisor` | pass | One loop at most; a restart never stops the new manager; published stores are filled; a stop that reaches the loop's manager ends it |
| `inventory` | pass | Registrations change and requests get lost between any two reads: nothing is stored of a modem that was not so, nothing that stayed is dropped, groups show their own channels and bands |
| `group_requests` | pass | Resets, refreshes and readiness are reported only when they took place, every request is answered |
| `process_status` | pass | With a `ps` that works, an answer ERROR misses a runner that was alive throughout only if it is in mode controller and another one of that mode had taken its row; the kill tool signals every runner of its table that is still there |
| `release` | pass | A tag at origin says the version of its commit, a completed test run has put the version files back, no push takes a release away |

The violation. The lease is exclusive in the deployments `SafeDeployment` names: distinct
owner ids, a critical section shorter than the stale limit (2 ttl), no two processes that break a
lock together, and no swallowed write error. `lease_break_race` drops one of
these and the exclusion fails. The others are code paths as well: replicas of one host that are given
no owner id share the hostname and all own the record (`OwnerOf`, documented in
`docs/coordination/index.md`), a holder slower than the stale limit finds its lock broken, writes over
its successor's record and removes its lock (set `MaxHold` above `2 * TTL`), and the service group
lease answers acquired when its write failed (`WriteErrors = "swallowed"`).

### Where code and documentation differ

The models follow the code. Where a doc, a comment or a name says something else, the properties are
stated so that they hold of the code, and the difference is this:

- A cancel request behind the runner's last look at the flag (runner.py:252) ends COMPLETED or
  FAILED; `docs/api/fast-api/pypnm-cmts/sg-operations.md:39` says CANCELLED. The counters
  `request_cancel` loaded may become the final ones, lower than the results.
- `try_acquire` says acquired to the record's owner without extending the record
  (service_group_lease.py:110), though the sequence in `docs/coordination/index.md` writes it: a replica
  that restarts takes up its own record for what is left of it and may outlive it. In
  `coordination` the case is covered by `doubt`, and `Partitions` shows that it heals.
- `discovery.json` is overwritten in place (launcher.py:647): a worker that reads it half-written fails
  to start, where `docs/architecture/mode-contract.md:55` promises the snapshot.
- The guard's spacing of restarts is forgotten at each restart, because the controller that remembers
  it is replaced (runtime_state.py:240; `docs/system/config.md:62`).
- Readiness is reported from placeholder entries, before any heavy poll succeeded
  (`docs/architecture/service-group-workers.md:275`).
- A modem of which some records are still to be appended may be shown SUCCESS
  (`results_schemas.py:53`); `SettledVerdict` is about a modem whose records are complete.
- `getMdCmSgIdFromNodeName` returns a MD-DS-SG-ID or MD-US-SG-ID (cmts_operation.py:215-248).
- The lower edge of an OFDM channel (`_calculate_ofdm_bounds` in `sgw/pollers/heavy.py`) is put below
  subcarrier zero by as many spacings as the first active one is above it: a band covers the active
  subcarriers (`ChannelsTrue`) and more.
- `docs/release/index.md:33` says the release helper enforces the branch `main` or `hot-fix`:
  `tools/release/release.py` does, `tools/release_tool.py` does not.
- The listing of cable modems answers the first `DEFAULT_PAGE_SIZE` modems of a group with the number of its
  pages (operations/service.py:188); the request has no field for another page.
- A request that names modems and leaves the groups open, before a store is published, is taken as it is
  (scope.py:45-47) and ends COMPLETED with a total of 0 and no capture (runner.py:132), though
  `cmts_request.py:26` says "Serving group identifiers; empty means all." and
  `docs/api/fast-api/pnm-rxmer.md:75` the same. It is `StartEmpty`, with `grouped` false; `CompletedMeansCaptured`,
  `AccountedFor` and `Operation` say what such an operation has done: nothing.
- RxMER and the histogram accept `selection.channel_ids` and do not look at them
  (`request_schemas.py:33`: "Channel filters (empty means all)."; `docs/api/fast-api/pnm-rxmer.md:259`). In the other
  services a channel filter drops the records of the stages before the capture, which have no channel, so an entry
  shows no codes or messages for them: `FilterKeepsVerdict` says both.
- The release of a lease that fails when a node ends goes unreported: `release_all` keeps a lease whose release answered
  busy, and an exception skips the leases after it (manager.py:245, runtime.py:138). They expire.
- The status endpoint takes a `ps` that fails for one without runners (service.py:879), and several runners in mode
  controller share one row (service.py:862), the last one's.

### Bounds

- Leases: two processes suffice for every race of the protocol, since each step concerns a caller
  and the rest; `TTL = 1`, `MaxHold = 2` = the stale limit, so that locks may be broken at the first
  instant allowed, and four clock ticks for an expiry, a stale lock and a second holder.
- Coordination: two replicas with targets 1 and 2 over two service groups, so that they compete for
  each and one of them could serve all; `MaxGap = 1` and ttls of 3, the least the ratio allows, where
  renewals at the very end of one tick and the next are furthest apart; two faults, which allow a
  forgotten lease that is adopted again and one more upset. Both replicas are combined, the mode that
  does everything; the proofs cover workers and controllers. Time is relative and needs no bound.
- Orchestrator: two nodes and two groups, seven deployments that cover the four modes, bound and
  unbound workers, a worker and a controller that make a single turn, configured and discovered groups, a capped and an uncapped plan; `MaxFaults = 2`, so
  that a death and a restart, or a failed discovery and a failed release, fall into one behaviour.
- Operations: two modems on two workers, one retry each, so that two answers, a timeout and a late
  answer overlap; one cancel request, which meets every point of the runner; requests with groups and without.
- Capture: two groups, 2 and 10, because their files are read in the order of the names and
  `sg-10.jsonl` comes before `sg-2.jsonl`; they may list the same modem;
  a modem without an address, one and two lists in
  a request; two stores and two polls around an operation, so that the resolver and the worker keep
  different stores, and a request that is refused leaves one behind for the next.
- SGW refresh: two service groups, `Light = MaxJitter = MaxAge = 1` and `Heavy = 2`, the boundary
  values the settings' validator accepts; the clock runs from 1 to 4, which
  allows a heavy refresh, one that is rate limited and one that is due again. The clock's bound stops
  time and nothing else.
- SGW supervisor: three managers, so a restart may follow a restart; error counts stop at the
  guard's threshold, beyond which the code does not tell them apart; two ticks.
  `Thread` is 1..2 because the lifespan calls start twice.
- Inventory: `MaxEvents = 2` changes or lost requests and `MaxJobs = 2` jobs over two tables at the
  start: a modem may move and lose its address in one poll, and a second job follows what the first
  one left. `Register` rests on the CMTS: it gives no row to another modem during a job; between jobs it may.
- Group requests: two groups and a third one that was not discovered, two modems, two tables a poll may
  bring (a modem is in both groups, or moves), nine requests, one per behaviour; two pings, so that one
  may fail and one answer; a page of one modem; two cycles and one guard restart. Links change only as
  long as a worker has the modem before it; afterwards nothing reads them.
- Process status: three pids and three starts, so that a file names a reused pid while a runner is
  alive. Release: two releasers and three runs, two that overlap and one after a failure.
- `CHECK_DEADLOCK FALSE` where a model stops at the clock's bound, at a bound of runs or at the end of the
  operation or process. `group_requests` and `process_status` end in a `Done` step and check deadlock.

### Fairness

- `FileLease`: each process steps weakly fairly because the orchestrator's loop calls the lease again
  after each sleep; time passes. Crashes are not owed; the liveness property asks that somebody survives
  and that crashes come to an end.
- `Coordination`: each replica's loop and `release_all` go on, since calls and sleeps end; time passes.
  Nobody owes a stop, a death or a restart. Time may not pass the end of a tick by more than `MaxGap`,
  which stands for the documented tick interval (1/3 to 1/2 of the ttl) with the tick's own length.
- `Orchestrator`: a node that runs goes on from the publication of its runtime, since nothing in its
  loop waits for another process; records of silent owners expire. Starts, stops, faults and the first
  discovery are not owed.
- `OperationRunner`: the runner's thread is scheduled, time passes the overall deadline, a received
  cancel request is served. Workers are not assumed to end: a capture may hang.
- `SgwSupervisor`: each step of a refresh thread, since polls (SNMP timeouts) and pauses have
  limits; startup calls start. Nothing is owed of the shutdown, of exceptions or of time.
- `GroupRequests`: the request's own thread and the pool's threads run. Nothing is asked of the refresh
  thread or of the modems: waits and pings have limits of their own.
- `Capture`, `Inventory`, `ProcessStatus`, `Release` promise no progress and assume no fairness.

## 4. Proofs

All theorems hold for every value of the constants under the named assumptions (`TTLAssumption`,
`MaxWorkersAssumption`, `SettingsAssumption`, `GuardAssumption` and so on), which TLC evaluates in
the runs. The bounds of the clock and of managers are constants, so the results hold for any.

- `FileLeaseProofs`. Under `SafeDeployment`, `IInv` is inductive. The argument: a process inside made
  the directory that exists, not longer than `MaxHold` ago (`HolderMadeLock`); so a directory about
  to be removed as stale is a dead process's (`BreakerSound`); so what a call read is still on disk
  when it decides (`SeenCurrent`); so nobody overwrites a live record but its owner and every belief
  is backed by the record (`GrantBacked`). Two believers would be two owners of one record. The
  refinement of `Lease` maps each answer to `Hold` or `Drop` and the rest to stuttering.
- `CoordinationProofs`. Under `GapAssumption` (ttls longer than two gaps). A record that a replica
  surely holds is as old as its current tick, or as the last one while its renewal is to come
  (`Fresh`), so it never expires before its turn; hence no other replica may write it
  (`OthersStayGood`), which gives `BeliefBacked` and disjointness. `AllToRenew` says that the renewal
  pass has exactly the held leases before it, `GivingBack` the same of `release_all`, which gives
  `OwnedKnown`. `WithinTarget` follows by counting what `Acquire` adds; it shows that the branch of
  `tick` that releases extras (manager.py:145-155) and its second pass of acquisitions (:173-187),
  which finds every candidate attempted, do nothing.
- `OrchestratorProofs`. `Left` says that a node outside of its loop holds nothing that is still its,
  but for what is in `kept`, and gives `GivenBack`; `Fresh`, that between a tick and its tests the leases a node holds
  are its own, unless it ran a discovery, which gives `TestsUnderLease`; `Planned`, that a started node's
  worker count is the plan of some inventory, which gives `PlanCovers` with the arithmetic of a
  division rounded up. `PidFileTruth` is inductive with the types and `Prober` (only nodes that
  discover write before their loop, and a single turn has none).
- `OperationProofs`. `Placed` says that while the loop runs each modem of the request is in exactly
  one list or has one outcome (`Work`: none of them without a group), with `NothingDone`, `OneOutcome`, `FailuresCounted` and `AllAnswered`
  it gives `CompletedMeansCaptured`; `Lifecycle` says which state is saved at which place and gives
  `TerminalSticks` and the refinement of `Operation`. `Settled` (at the end the lists are empty, and only
  modems of the request have outcomes) adds what `AccountedFor` needs; `Backed` says that every copy of
  the state, in memory, on disk or in a cancel request's hands, counts no more than the results hold,
  which gives `CountersNeverAhead`; `Pool` bounds the attempts in flight.
- `SgwProofs`, `SgwRefresh`. The stamps are ordered (`Stamps`); a group's last light stamp before its turn
  is at least a light interval old because cycles pause that long (`Clocks`, `Before`), so an error,
  which leaves the stamp alone, is due again only because the jitter is at most the light interval
  and two cycles lie between (`After`, `AtFinish`). `AgeBounded`, `ErrorPolledAgain` and
  `RequestServed` follow; `ErrorVisible` and `HeavyRequestKept` are action properties.
- `SgwProofs`, `SgwSupervisor`. `RunningTruth` identifies the live thread with the handle, from which
  `OneLoop` follows; `ReadsPublished`, `Publishing` and `UnbuiltUnstopped` say what the thread and a
  start have read relative to what is published, and give `LoopRunsPublished` and
  `OnlyShutdownStops`.
- `GroupRequestsProofs`. `Sound` with `WellWorked`: every modem of a worker is in one place, and what it
  counts as reset took the command and was lost since, which gives `ResetVerified`. `Based`: the
  baseline of a request is at least as new as what its store held when the request came in, so an
  advance over it is one over `before` (`AdvancedFresh`). `Justified`: the scope is of the groups asked
  for, and a SUCCESS is deserved by the work done (`VerdictTrue`).
- `ToolProofs`, `ProcessStatus`. `Ahead`: as long as nothing has answered, the runners that have been there all
  along (`steady`) are still before the endpoint, and those the tool may signal are before it or have
  the signal, or the row of a mode controller candidate has been taken by another, which gives `NotMissed` and `AllKilled`.

- `ToolProofs`, `Release`. A commit is a tree with the set of commits it holds; `Histories` says that these
  sets are closed, so whatever a clone pulls or pushes, `InHistory` composes and origin's branch only grows
  (`HistoryKept`). `Progress` says for each phase what the run has made of its clone: a tag is made
  when the head is a commit of the run's version, and pushed once origin holds that commit.
  `WholeBumps` (no commit has only one of the two version files bumped) is what a run that begins
  after another's failure relies on. `TagsTrue` is then inductive and gives `TagTruth`; `TestRunUndone`
  follows from the version `Progress` remembers.
- `SgwProofs`, `Inventory`. `Watched` keeps the job's history: what was there all the time is alone in its row
  and with its modem among all that was there at any time. `Joined` says that each row still to be read was in the
  group and each modem found was so; `LookedUp` the same of a lookup's row and answer. They give
  `PairsHeld`. As long as nothing was lost, `RowsComplete` says that a row which stays is still to be read or
  found as it is, `LookupsComplete` that a lookup is at the row of its modem, `PlanComplete` that every
  request behind `job.next` which is not a fallback was answered; they give `NothingDropped`.
  `ChannelsTrue` follows from `PlanComplete` and lemmas about the functions, for any subset of answers
  and any tables: `OwnChannels` (no fallback brings another group's channels), `ChannelTrue` and
  `BandCovers` (the arithmetic of the bands). The invariant assumes the positive keys and the separate
  OFDM and SC-QAM tables of `ChannelAssumption`, and `Register`'s guard.
- `CaptureProofs`. `WildcardScope` needs no invariant: `PairingInvertsExpansion` shows that the two lists
  which expansion writes, of any length, are paired back into the items they stand for.
  For the verdicts: each record is of a work item and in its group's file (`OfItems`), agrees with
  itself (`SoundRecords`: files only of a capture that succeeded, of the modem, of the record's channel),
  and the records of an item are of later and later stages (`Staged`), of which one that passed is
  followed by another (`Complete`). Lists are finite and their places totally ordered (`PlacesOrdered`,
  `LastOfFinite`), so each modem shown has a final record; by `Staged` and `Complete` the final record of a
  recorded item is its capture or the stage that failed. `SettledVerdict`,
  `FilterKeepsVerdict` and `AnalysedFile` then hold for every service with a view of the modems, any records and any selection:
  a group and address filter keeps or drops all that a single item has to say, and a channel filter of a single
  item's records leaves its capture (`CodesOfCapture`) or nothing.

Also proved, for every value of the constants, of properties that no run repeats because
one of the properties above says as much in the instances: the types of nine modules, the inductive
invariants themselves, `OwnedKnown`, `WithinTarget` and `SureDisjoint` of `Coordination`, `ErrorVisible`
and `ErrorPolledAgain` of `SgwRefresh`, `RunningTruth` and `LoopRunsPublished` of `SgwSupervisor`,
`TerminalSticks` and `InFlightBounded` of `OperationRunner`.

Only model-checked: the liveness properties (`OrphanedLockIsBroken`, `Partitions`, `Terminates`,
`StoreRefilled`, `StopEndsLoop`, `GroupsServed`, `StopEnds`, `RequestAnswered`), which are temporal under
fairness and out of this prover's reach; and the violation run, which a proof could only confirm in one deployment.

## 5. Not modelled

Parsing of PNM files, HTTP schemas, command line arguments, the configuration menu, installation and
examples: input and output without state. `ServingGroupWorker` and its lanes (`sgw/worker.py`) are used by
their tests only. The memory guard and the web service's reload: the reload is an external
supervisor's and the memory measured is input. Within the modelled components: the content of
snapshots and results, metrics, logs, debug snapshots; the retries of the prechecks; the light poll's
fields, which no property tells apart. Windows and network file systems, where `mkdir` and `rename` may
behave otherwise, are outside of the lease's model. Nodes of `Orchestrator` have owner ids of their own: a
single turn that is requested over REST in the runner's own state directory shares the runner's id and
takes up its records, which is the shared owner of `FileLease`'s deployments.

## 6. Plan

What is left, in this order:

1. `MemoryGuard`: start, stop and the reload budget, with the controller of `SgwSupervisor`.
2. The leases of `Coordination` as instances of `Lease`; inventories that differ between replicas and
   shrink (`set_service_groups`); the overrun of live records over the target after a busy renewal.
3. A manager that a guard restart retires while it has a pending request: the request is lost
   (`clone_for_restart`), and only the wait's limit tells the client.
4. The worker lanes of `sgw/worker.py`, should the program come to use them.
