--------------------------- MODULE ProcessStatus ---------------------------
(***************************************************************************)
(* What is known about the processes of a deployment from outside: their   *)
(* pid files (orchestrator/pidfile_manager.py), the status endpoint that   *)
(* reads them and falls back to the process table                          *)
(* (api/routes/operational/service.py), and the operator's kill tool       *)
(* (tools/maintenance/kill-pypnm-cmts.py), while processes start, exit,    *)
(* crash and have their pids reused.                                       *)
(***************************************************************************)
EXTENDS Integers, FiniteSets

CONSTANTS
    Pids,       \* process ids
    NoPid,      \* no file, or one without a pid in it
    MaxStarts   \* bound of the processes that ever start

ASSUME PidsAssumption == NoPid \notin Pids /\ MaxStarts \in Nat

VARIABLES
    proc,       \* the process table
    file,       \* the pid files of the state directory, NoPid for none
    serve,      \* the pid file of a server in the background, NoPid for none
    starts,     \* history: processes started
    pc, tool,   \* the call of status() or the run of the kill tool
    left,       \* pid files, candidates or rows it has not come to
    cur,        \* the pid read from the pid file it is at, NoPid when it could not be read
    running,    \* the process of a pid file or of a worker's row answered a probe
    shown,      \* the controller's row of a scan: its pid, and whether the probe was answered
    heads,      \* the candidates with --mode controller on their command line
    failed,     \* history: ps failed
    steady,     \* history: the runners alive since the call began or the table was made
    signalled   \* history: processes that got the signal

processes == <<proc, file, serve, starts>>
scanVars == <<shown, heads, failed>>
statusVars == <<processes, pc, tool, left, cur, running, scanVars, steady, signalled>>

-----------------------------------------------------------------------------
(* Processes and their pid files *)

Free == [kind |-> "free", stage |-> "new", ours |-> FALSE]

\* PidFileRecord.for_runtime: controllers, standalone and combined runners share one file.
Kinds == {"controller", "combined", "worker"}
Files == {"controller", "worker"}
FileOf(kind) == IF kind = "worker" THEN "worker" ELSE "controller"

\* ours: for the endpoint, --election-name is on the command line and is its own; for the tool, the
\* process is of its user.
Runner(p) == proc[p].kind \in Kinds

Alive(p) == proc[p].kind # "free"

\* A runner starts and a moment later writes its pid; a server in the background has a pid
\* file of its own that the parent writes.
Start(p) ==
    /\ ~Alive(p) /\ starts < MaxStarts
    /\ starts' = starts + 1
    /\ \/ \E kind \in Kinds, ours \in BOOLEAN :
             /\ proc' = [proc EXCEPT ![p] = [kind |-> kind, stage |-> "new", ours |-> ours]]
             /\ serve' \in {serve} \union (IF kind = "combined" THEN {p} ELSE {})
       \/ /\ proc' = [proc EXCEPT ![p] = [Free EXCEPT !.kind = "foreign", !.ours = TRUE]]
          /\ UNCHANGED serve
    /\ UNCHANGED <<file, pc, tool, left, cur, running, scanVars, steady, signalled>>

\* __enter__, best-effort: the write may fail.
WritePidFile(p) ==
    /\ Runner(p) /\ proc[p].stage = "new"
    /\ proc' = [proc EXCEPT ![p].stage = "entered"]
    /\ file' \in {file, [file EXCEPT ![FileOf(proc[p].kind)] = p]}
    /\ UNCHANGED <<serve, starts, pc, tool, left, cur, running, scanVars, steady, signalled>>

\* __exit__: the file is removed whoever wrote it last.
Cleanup(p) ==
    /\ Runner(p) /\ proc[p].stage = "entered"
    /\ proc' = [proc EXCEPT ![p].stage = "left"]
    /\ file' = [file EXCEPT ![FileOf(proc[p].kind)] = NoPid]
    /\ UNCHANGED <<serve, starts, pc, tool, left, cur, running, scanVars, steady, signalled>>

\* A process ends, with or without having cleaned up.
End(p) ==
    /\ Alive(p)
    /\ proc' = [proc EXCEPT ![p] = Free]
    /\ steady' = steady \ {p} /\ signalled' = signalled \ {p}
    /\ UNCHANGED <<file, serve, starts, pc, tool, left, cur, running, scanVars>>

-----------------------------------------------------------------------------
(* The status endpoint *)

StatusInit ==
    /\ proc = [p \in Pids |-> Free] /\ file = [f \in Files |-> NoPid] /\ serve = NoPid /\ starts = 0
    /\ pc = "idle" /\ tool \in {"status", "kill"}
    /\ left = {} /\ cur = NoPid /\ running = FALSE /\ steady = {} /\ signalled = {}
    /\ shown = [pid |-> NoPid, runs |-> FALSE] /\ heads = {} /\ failed = FALSE

Present == {f \in Files : file[f] # NoPid}

\* glob: no pid file at all is "missing" and goes straight to the process table.
ListPidFiles ==
    /\ pc = "idle" /\ tool = "status"
    /\ left' = Present /\ pc' = IF Present = {} THEN "scan" ELSE "files"
    /\ steady' = {p \in Pids : Runner(p)}
    /\ UNCHANGED <<processes, tool, cur, running, scanVars, signalled>>

\* The file may have changed hands or gone since the listing.
ReadPidFile(f) ==
    /\ pc = "files" /\ f \in left
    /\ cur' = file[f] /\ left' = left \ {f} /\ pc' = "probe"
    /\ UNCHANGED <<processes, tool, running, scanVars, steady, signalled>>

\* os.kill(pid, 0): any process with that pid answers, one of another user as well.
Probe ==
    /\ pc = "probe"
    /\ running' = (running \/ (cur # NoPid /\ Alive(cur)))
    /\ cur' = NoPid /\ pc' = "files"
    /\ UNCHANGED <<processes, tool, left, scanVars, steady, signalled>>

\* Mutation: only missing records make the endpoint look at the process table.
FilesReadBug ==
    /\ pc = "files" /\ left = {}
    /\ pc' = "done"
    /\ UNCHANGED <<processes, tool, left, cur, running, scanVars, steady, signalled>>

\* Records of which none runs are stale.
FilesRead ==
    /\ pc = "files" /\ left = {}
    /\ pc' = IF running THEN "done" ELSE "scan"
    /\ UNCHANGED <<processes, tool, left, cur, running, scanVars, steady, signalled>>

\* A candidate is a runner with the election name on its command line.
Findable == {p \in Pids : Runner(p) /\ proc[p].ours}

\* ps once; one that is missing or fails lists nothing, or a part, and its error is swallowed.
Scan ==
    /\ pc = "scan"
    /\ \E found \in SUBSET Findable :
         /\ left' = found /\ heads' = {p \in found : proc[p].kind = "controller"}
         /\ failed' = (found # Findable)
    /\ pc' = "candidates"
    /\ UNCHANGED <<processes, tool, cur, running, shown, steady, signalled>>

\* A row for each candidate; those with --mode controller share one, and the last of them has it.
ProbeCandidate(p) ==
    /\ pc = "candidates" /\ p \in left
    /\ left' = left \ {p}
    /\ IF p \in heads
       THEN shown' = [pid |-> p, runs |-> Alive(p)] /\ UNCHANGED running
       ELSE running' = (running \/ Alive(p)) /\ UNCHANGED shown
    /\ UNCHANGED <<processes, pc, tool, cur, heads, failed, steady, signalled>>

\* The answer is OK exactly when some row runs.
AnswerStatus ==
    /\ pc = "candidates" /\ left = {}
    /\ pc' = "done"
    /\ UNCHANGED <<processes, tool, left, cur, running, scanVars, steady, signalled>>

-----------------------------------------------------------------------------
(* The kill tool, with --all *)

\* collect_processes: ps once.
ListProcesses ==
    /\ pc = "idle" /\ tool = "kill"
    /\ left' = {p \in Pids : Runner(p)} /\ steady' = left' /\ pc' = "serve"
    /\ UNCHANGED <<processes, tool, cur, running, scanVars, signalled>>

\* A ps that fails ends the run before it has a table.
ListFails ==
    /\ pc = "idle" /\ tool = "kill"
    /\ pc' = "done"
    /\ UNCHANGED <<processes, tool, left, cur, running, scanVars, steady, signalled>>

\* A row for the pid in the background server's pid file, whatever process has it now.
ServeRow ==
    /\ pc = "serve"
    /\ left' = IF serve # NoPid /\ Alive(serve) THEN left \union {serve} ELSE left
    /\ pc' = "kill"
    /\ UNCHANGED <<processes, tool, cur, running, scanVars, steady, signalled>>

\* Mutation: a row whose process has gone ends the run.
KillRowBug(p) ==
    /\ pc = "kill" /\ p \in left
    /\ left' = IF Alive(p) THEN left \ {p} ELSE {}
    /\ signalled' = IF Alive(p) /\ proc[p].ours THEN signalled \union {p} ELSE signalled
    /\ UNCHANGED <<processes, pc, tool, cur, running, scanVars, steady>>

\* _kill_row: a process that has gone, or that may not be signalled, is skipped.
KillRow(p) ==
    /\ pc = "kill" /\ p \in left
    /\ left' = left \ {p}
    /\ signalled' = IF Alive(p) /\ proc[p].ours THEN signalled \union {p} ELSE signalled
    /\ UNCHANGED <<processes, pc, tool, cur, running, scanVars, steady>>

KillDone ==
    /\ pc = "kill" /\ left = {}
    /\ pc' = "done"
    /\ UNCHANGED <<processes, tool, left, cur, running, scanVars, steady, signalled>>

Tool ==
    \/ ListPidFiles \/ Probe \/ FilesRead \/ Scan \/ AnswerStatus \/ ListProcesses \/ ListFails
    \/ ServeRow \/ KillDone
    \/ \E f \in Files : ReadPidFile(f)
    \/ \E p \in Pids : ProbeCandidate(p) \/ KillRow(p)

Done == pc = "done" /\ UNCHANGED statusVars

StatusNext ==
    \/ pc # "done" /\ \E p \in Pids : Start(p) \/ WritePidFile(p) \/ Cleanup(p) \/ End(p)
    \/ Tool \/ Done

StatusSpec == StatusInit /\ [][StatusNext]_statusVars

-----------------------------------------------------------------------------
(* Correctness *)

StatusTypeOK ==
    /\ proc \in [Pids -> [kind : Kinds \union {"free", "foreign"}, stage : {"new", "entered", "left"},
                       ours : BOOLEAN]]
    /\ file \in [Files -> Pids \union {NoPid}] /\ serve \in Pids \union {NoPid}
    /\ steady \subseteq Pids /\ signalled \subseteq Pids /\ running \in BOOLEAN
    /\ cur \in Pids \union {NoPid}
    /\ shown \in [pid : Pids \union {NoPid}, runs : BOOLEAN] /\ heads \subseteq Pids /\ failed \in BOOLEAN

\* When the endpoint answers ERROR, what can have escaped it of the runners it could find and that
\* were alive all through the call?  With a ps that works, only one in mode controller, and only when
\* another one of that mode has taken its row and gone (_apply_fallback_process_scan).  No other is
\* missed, whatever happens to its pid file meanwhile: overwritten or removed by another process,
\* stale, vanished between the listing and the read, or naming a reused pid.
NotMissed ==
    pc = "done" /\ tool = "status" /\ ~running /\ ~shown.runs /\ ~failed =>
        \A p \in steady : proc[p].ours => proc[p].kind = "controller" /\ shown.pid # p

\* kill --all signals every runner of its table that is still there and may be signalled, even
\* when others end, or change pids, while it goes through the rows.
AllKilled ==
    pc = "done" /\ tool = "kill" => \A p \in steady : proc[p].ours => p \in signalled
=============================================================================
