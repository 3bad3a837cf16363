--------------------------- MODULE OperationRunner ---------------------------
(***************************************************************************)
(* One serving-group PNM operation: OperationStore (state.json,            *)
(* cancel.flag, results/*.jsonl), the OperationRunner thread that executes *)
(* it with a thread pool, and cancel requests served by other threads.     *)
(*                                                                         *)
(* store._state_lock makes each load and each save one step; everything    *)
(* between two of them interleaves.  The clock is abstracted: an attempt   *)
(* may time out, a retry may become ready and the overall deadline may     *)
(* pass whenever the code looks.  A modem's worker (capture) is external:  *)
(* it succeeds, fails or hangs.                                            *)
(***************************************************************************)
EXTENDS Integers, FiniteSets, Sequences

CONSTANTS
    Modem,       \* cable modems a request may name
    MaxWorkers,  \* execution.max_workers
    RetryCount,  \* execution.retry_count
    Client,      \* cancel requests that may arrive
    Faults,      \* TRUE: a write to disk may raise
    Crashes      \* TRUE: the server process may die

ASSUME MaxWorkersAssumption == MaxWorkers \in Nat \ {0}
ASSUME RetryCountAssumption == RetryCount \in Nat
ASSUME FaultAssumption == Faults \in BOOLEAN /\ Crashes \in BOOLEAN
ASSUME ModemAssumption == IsFiniteSet(Modem)

VARIABLES
    scope,      \* request_summary.mac_addresses
    grouped,    \* request_summary.serving_group_ids is not empty
    file,       \* state.json
    flag,       \* cancel.flag exists
    results,    \* the outcomes recorded per modem, in results/*.jsonl
    pc,         \* where the runner thread is
    mem,        \* the runner's in-memory operation state
    queue, pending, abandoned, retry, \* the runner's work lists
    todo,       \* results of this iteration, not handled yet
    future,     \* what became of every submitted attempt
    late,       \* the overall deadline has passed
    cpc, seen   \* cancel requests: where they are, the state they loaded

runner == <<pc, mem, queue, pending, abandoned, retry, todo>>
clients == <<cpc, seen>>
vars == <<scope, grouped, file, flag, results, runner, future, late, clients>>

Terminal == {"COMPLETED", "FAILED", "CANCELLED"}
States == {"QUEUED", "RUNNING", "CANCELLING"} \cup Terminal
OpState == [state : States, total : Nat, success : Nat, failed : Nat]
Item == [modem : Modem, attempt : 0 .. RetryCount]
Result == [item : Item, ok : BOOLEAN]

SetupPCs == {"load", "start_save", "total_save"}
LoopPCs == {"check", "collect", "handle", "save"}
EndPCs == {"finish", "join", "mark_cancelled", "mark_failed", "mark_save",
           "fail", "fail_save"}
PCs == SetupPCs \cup LoopPCs \cup EndPCs \cup {"done", "dead"}

\* create_operation, then runner.start.  A request that leaves its groups or its modems open
\* gets both from the store; while none is published, it is taken as it is (scope.py).
Init ==
    /\ scope \in SUBSET Modem
    /\ grouped \in BOOLEAN
    /\ file = [state |-> "QUEUED", total |-> 0, success |-> 0, failed |-> 0]
    /\ flag = FALSE
    /\ results = [m \in Modem |-> <<>>]
    /\ pc = "load"
    /\ mem = file
    /\ queue = {} /\ pending = {} /\ abandoned = {} /\ retry = {}
    /\ todo = {}
    /\ future = [i \in Item |-> "none"]
    /\ late = FALSE
    /\ cpc = [c \in Client |-> "idle"]
    /\ seen = [c \in Client |-> file]

-----------------------------------------------------------------------------
(* The store *)

CanReplaceStateBug(current, incoming) == TRUE
CanReplaceState(current, incoming) == current \in Terminal => current = incoming

\* save_state_atomic: silently keeps a terminal state.
Save(s) == file' = IF CanReplaceState(file.state, s.state) THEN s ELSE file

-----------------------------------------------------------------------------
(* The runner thread: _execute_operation up to the loop *)

\* load_state and _transition_to_running.
LoadState ==
    /\ pc = "load"
    /\ mem' = [file EXCEPT !.state = "RUNNING"]
    /\ pc' = "start_save"
    /\ UNCHANGED <<scope, grouped, file, flag, results, queue, pending, abandoned, retry,
                   todo, future, late, clients>>

StartRunning ==
    /\ pc = "start_save"
    /\ scope # {} /\ grouped
    /\ Save(mem)
    /\ pc' = "total_save"
    /\ UNCHANGED <<scope, grouped, flag, results, mem, queue, pending, abandoned, retry,
                   todo, future, late, clients>>

\* No modems, or no groups: RUNNING is saved, then COMPLETED with a total of 0; nothing but a
\* cancel request tells the two saves apart.
StartEmpty ==
    /\ pc = "start_save"
    /\ scope = {} \/ ~grouped
    /\ Save(mem)
    /\ pc' = "finish"
    /\ UNCHANGED <<scope, grouped, flag, results, mem, queue, pending, abandoned, retry,
                   todo, future, late, clients>>

\* Saves total_modems and builds one work item per modem.
SaveTotal ==
    /\ pc = "total_save"
    /\ mem' = [mem EXCEPT !.total = Cardinality(scope)]
    /\ Save(mem')
    /\ queue' = {[modem |-> m, attempt |-> 0] : m \in scope}
    /\ pc' = "check"
    /\ UNCHANGED <<scope, grouped, flag, results, pending, abandoned, retry, todo, future,
                   late, clients>>

-----------------------------------------------------------------------------
(* The loop *)

InFlight == pending \cup abandoned
WorkLeft == queue \cup pending \cup abandoned \cup retry # {}

Goto(from, to) ==
    /\ pc = from
    /\ pc' = to
    /\ UNCHANGED <<scope, grouped, file, flag, results, mem, queue, pending, abandoned, retry,
                   todo, future, late, clients>>

LoopEnds == ~WorkLeft /\ Goto("check", "finish")
SeeCancel == WorkLeft /\ flag /\ Goto("check", "mark_cancelled")
SeeDeadlineBug == WorkLeft /\ ~flag /\ late /\ InFlight = {} /\ Goto("check", "mark_failed")
SeeDeadline == WorkLeft /\ ~flag /\ late /\ Goto("check", "mark_failed")

\* Ready retries join the queue; free workers take items from it.  The order
\* of the queue is left open.
Dispatch ==
    /\ pc = "check"
    /\ WorkLeft /\ ~flag /\ ~late
    /\ \E ready \in SUBSET retry, batch \in SUBSET (queue \cup retry) :
        LET waiting == queue \cup ready
            free == MaxWorkers - Cardinality(InFlight)
        IN  /\ batch \subseteq waiting
            /\ Cardinality(batch) =
                 (IF Cardinality(waiting) <= free THEN Cardinality(waiting)
                  ELSE IF free > 0 THEN free ELSE 0)
            /\ retry' = retry \ ready
            /\ queue' = waiting \ batch
            /\ pending' = pending \cup batch
            /\ future' = [i \in Item |-> IF i \in batch THEN "running" ELSE future[i]]
    /\ pc' = "collect"
    /\ UNCHANGED <<scope, grouped, file, flag, results, mem, abandoned, todo, late, clients>>

Finished(i) == future[i] \in {"ok", "bad"}

\* wait(), then the per-modem timeouts: running attempts are abandoned with a
\* timeout result; abandoned ones that ended are forgotten; the others' results
\* are taken, as a timeout when they came too late.
CollectBug ==
    /\ pc = "collect"
    /\ LET done == {i \in InFlight : Finished(i)}
           running == {i \in pending : ~Finished(i)}
       IN  \E timedOut \in SUBSET running, tooLate \in SUBSET (done \cap pending) :
             /\ pending' = pending \ (timedOut \cup done)
             /\ abandoned' = (abandoned \cup timedOut) \ done
             /\ todo' = {[item |-> i, ok |-> FALSE] : i \in timedOut}
                        \cup {[item |-> i, ok |-> future[i] = "ok" /\ i \notin tooLate]
                                : i \in done}
    /\ pc' = "handle"
    /\ UNCHANGED <<scope, grouped, file, flag, results, mem, queue, retry, future, late, clients>>

Collect ==
    /\ pc = "collect"
    /\ LET done == {i \in InFlight : Finished(i)}
           running == {i \in pending : ~Finished(i)}
       IN  \E timedOut \in SUBSET running, tooLate \in SUBSET (done \cap pending) :
             /\ pending' = pending \ (timedOut \cup done)
             /\ abandoned' = (abandoned \cup timedOut) \ done
             /\ todo' = {[item |-> i, ok |-> FALSE] : i \in timedOut}
                        \cup {[item |-> i, ok |-> future[i] = "ok" /\ i \notin tooLate]
                                : i \in done \cap pending}
    /\ pc' = "handle"
    /\ UNCHANGED <<scope, grouped, file, flag, results, mem, queue, retry, future, late, clients>>

ShouldRetry(r) == ~r.ok /\ r.item.attempt < RetryCount

HandleRetryBug(r) ==
    /\ pc = "handle" /\ r \in todo
    /\ ShouldRetry(r)
    /\ retry' = retry \cup {[r.item EXCEPT !.attempt = @ + 1]}
    /\ todo' = todo \ {r}
    /\ mem' = [mem EXCEPT !.failed = @ + 1]
    /\ Save(mem')
    /\ UNCHANGED <<scope, grouped, flag, results, pc, queue, pending, abandoned, future,
                   late, clients>>

\* _handle_result, first branch: the modem is tried again; the state in memory
\* is saved with its old counters.
HandleRetry(r) ==
    /\ pc = "handle" /\ r \in todo
    /\ ShouldRetry(r)
    /\ retry' = retry \cup {[r.item EXCEPT !.attempt = @ + 1]}
    /\ todo' = todo \ {r}
    /\ Save(mem)
    /\ UNCHANGED <<scope, grouped, flag, results, pc, mem, queue, pending, abandoned, future,
                   late, clients>>

\* _handle_result, second branch: _persist_stage_records, then _update_counters.
RecordResult(r) ==
    /\ pc = "handle" /\ r \in todo
    /\ ~ShouldRetry(r)
    /\ results' = [results EXCEPT ![r.item.modem] = Append(@, r.ok)]
    /\ mem' = IF r.ok THEN [mem EXCEPT !.success = @ + 1]
                      ELSE [mem EXCEPT !.failed = @ + 1]
    /\ todo' = todo \ {r}
    /\ pc' = "save"
    /\ UNCHANGED <<scope, grouped, file, flag, queue, pending, abandoned, retry, future, late,
                   clients>>

SaveCounters ==
    /\ pc = "save"
    /\ Save(mem)
    /\ pc' = "handle"
    /\ UNCHANGED <<scope, grouped, flag, results, mem, queue, pending, abandoned, retry, todo,
                   future, late, clients>>

IterationEnds == todo = {} /\ Goto("handle", "check")

-----------------------------------------------------------------------------
(* The ends *)

TerminalStateBug == "COMPLETED"
TerminalState == IF mem.failed > 0 THEN "FAILED" ELSE "COMPLETED"

Finish ==
    /\ pc = "finish"
    /\ mem' = [mem EXCEPT !.state = TerminalState]
    /\ Save(mem')
    /\ pc' = "done"
    /\ UNCHANGED <<scope, grouped, flag, results, queue, pending, abandoned, retry, todo,
                   future, late, clients>>

\* _mark_cancelled and _mark_failed: load, change the state, save.  "fail" is
\* the _mark_failed of _run_operation's except clause.
MarkLoad(from, state, to) ==
    /\ pc = from
    /\ mem' = [file EXCEPT !.state = state]
    /\ pc' = to
    /\ UNCHANGED <<scope, grouped, file, flag, results, queue, pending, abandoned, retry, todo,
                   future, late, clients>>

MarkCancelled == MarkLoad("mark_cancelled", "CANCELLED", "mark_save")
MarkFailed ==
    \/ MarkLoad("mark_failed", "FAILED", "mark_save")
    \/ MarkLoad("fail", "FAILED", "fail_save")

MarkSave ==
    /\ pc \in {"mark_save", "fail_save"}
    /\ Save(mem)
    /\ pc' = "done"
    /\ UNCHANGED <<scope, grouped, flag, results, mem, queue, pending, abandoned, retry, todo,
                   future, late, clients>>

\* A write raises: the finally clause waits for the workers, then
\* _run_operation marks the operation failed.
WriteRaises ==
    /\ Faults
    /\ pc = "handle" => todo # {}
    /\ \E from \in {"start_save", "total_save", "handle", "save", "finish"} :
         Goto(from, "join")

Join == (\A i \in Item : future[i] # "running") /\ Goto("join", "fail")

\* In the finally clause it leads to the except clause; there, out of the thread.
MarkRaises ==
    /\ Faults
    /\ Goto("mark_save", "fail") \/ Goto("fail_save", "done")

-----------------------------------------------------------------------------
(* Cancel requests, workers, time, death of the process *)

\* request_cancel: load_state, and return a terminal state.
CancelLoad(c) ==
    /\ cpc[c] = "idle"
    /\ seen' = [seen EXCEPT ![c] = file]
    /\ cpc' = [cpc EXCEPT ![c] = IF file.state \in Terminal THEN "done" ELSE "touch"]
    /\ UNCHANGED <<scope, grouped, file, flag, results, runner, future, late>>

CancelTouch(c) ==
    /\ cpc[c] = "touch"
    /\ flag' = TRUE
    /\ cpc' = [cpc EXCEPT ![c] = "save"]
    /\ UNCHANGED <<scope, grouped, file, results, runner, future, late, seen>>

\* Saves what was loaded, as CANCELLING.
CancelSave(c) ==
    /\ cpc[c] = "save"
    /\ Save([seen[c] EXCEPT !.state = "CANCELLING"])
    /\ cpc' = [cpc EXCEPT ![c] = "done"]
    /\ UNCHANGED <<scope, grouped, flag, results, runner, future, late, seen>>

WorkerEnds(i) ==
    /\ pc # "dead"
    /\ future[i] = "running"
    /\ \E outcome \in {"ok", "bad"} : future' = [future EXCEPT ![i] = outcome]
    /\ UNCHANGED <<scope, grouped, file, flag, results, runner, late, clients>>

DeadlinePasses ==
    /\ ~late
    /\ pc \in LoopPCs
    /\ late' = TRUE
    /\ UNCHANGED <<scope, grouped, file, flag, results, runner, future, clients>>

\* The server dies: the runner is a daemon thread and nothing resumes it.
\* Requests not yet made reach the restarted server.
Crash ==
    /\ Crashes
    /\ pc \notin {"done", "dead"}
    /\ pc' = "dead"
    /\ cpc' = [c \in Client |-> IF cpc[c] = "idle" THEN "idle" ELSE "done"]
    /\ UNCHANGED <<scope, grouped, file, flag, results, mem, queue, pending, abandoned, retry,
                   todo, future, late, seen>>

RunnerStep ==
    \/ LoadState \/ StartRunning \/ StartEmpty \/ SaveTotal
    \/ LoopEnds \/ SeeCancel \/ SeeDeadline \/ Dispatch \/ Collect
    \/ (\E r \in todo : HandleRetry(r) \/ RecordResult(r))
    \/ SaveCounters \/ IterationEnds
    \/ Finish \/ MarkCancelled \/ MarkFailed \/ MarkSave \/ Join

ClientStep(c) == CancelLoad(c) \/ CancelTouch(c) \/ CancelSave(c)

Next ==
    \/ RunnerStep
    \/ WriteRaises \/ MarkRaises
    \/ \E c \in Client : ClientStep(c)
    \/ \E i \in Item : WorkerEnds(i)
    \/ DeadlinePasses
    \/ Crash

Spec == Init /\ [][Next]_vars

(***************************************************************************)
(* The runner's thread is scheduled, time passes, and a cancel request     *)
(* that was received is served.  Workers may hang: no fairness for them.   *)
(***************************************************************************)
Fairness ==
    /\ WF_vars(RunnerStep)
    /\ WF_vars(DeadlinePasses)
    /\ \A c \in Client : WF_vars(CancelTouch(c) \/ CancelSave(c))

LiveSpec == Spec /\ Fairness

-----------------------------------------------------------------------------
(* Properties *)

\* The values every variable may take.
TypeOK ==
    /\ scope \subseteq Modem /\ grouped \in BOOLEAN
    /\ file \in OpState /\ mem \in OpState
    /\ flag \in BOOLEAN /\ late \in BOOLEAN
    /\ results \in [Modem -> Seq(BOOLEAN)]
    /\ pc \in PCs
    /\ queue \subseteq Item /\ pending \subseteq Item
    /\ abandoned \subseteq Item /\ retry \subseteq Item
    /\ todo \subseteq Result
    /\ future \in [Item -> {"none", "running", "ok", "bad"}]
    /\ cpc \in [Client -> {"idle", "touch", "save", "done"}]
    /\ seen \in [Client -> OpState]

\* Once state.json says the operation ended, neither the runner's later saves nor
\* a cancel request that loaded an older state changes anything in it.
TerminalSticks == [][file.state \in Terminal => file' = file]_vars

\* The thread pool is never handed more attempts than it has threads, abandoned
\* ones included: an attempt that was submitted is never left waiting.
Running == {i \in Item : future[i] = "running"}
InFlightBounded == Cardinality(Running) <= MaxWorkers

\* The modems that are captured: those the request names, but none of them for a request
\* that names no group.
Work == IF grouped THEN scope ELSE {}

\* While the loop runs and at its end, each modem that is to be captured is in exactly one of
\* the runner's lists, with one attempt, or has exactly one recorded outcome, and no other modem
\* is in any: the late answer of an abandoned attempt is neither recorded nor retried.
Taken == {r.item : r \in todo}
Open == queue \cup retry \cup pending \cup Taken
AccountedFor ==
    pc \in LoopPCs \cup {"finish"} =>
        /\ queue \cap retry = {} /\ pending \cap (queue \cup retry) = {}
        /\ Taken \cap (queue \cup retry \cup pending) = {}
        /\ \A m \in Modem :
             Cardinality({i \in Open : i.modem = m}) + Len(results[m])
               = IF m \in Work THEN 1 ELSE 0

\* An operation reported COMPLETED captured as many modems as it reports in total: each one the
\* request names; or none, with a total of 0, when the request came without a group, whatever
\* modems it names (runner.py:132).
CompletedMeansCaptured ==
    file.state = "COMPLETED" =>
        /\ \A m \in Modem : results[m] = IF m \in Work THEN <<TRUE>> ELSE <<>>
        /\ file.total = Cardinality(Work)

\* The status a client polls never claims more finished modems than the results
\* files hold, whatever stale state a cancel request wrote in between.
Recorded(ok) == {m \in Modem : \E k \in 1 .. Len(results[m]) : results[m][k] = ok}
CountersNeverAhead ==
    /\ file.success <= Cardinality(Recorded(TRUE))
    /\ file.failed <= Cardinality(Recorded(FALSE))

\* The inductive strengthening behind CompletedMeansCaptured, TerminalSticks and
\* OperationSpec: what the runner's place says of its lists, of the recorded
\* outcomes and of the states in memory and on disk.
NothingDone ==
    pc \in SetupPCs =>
        /\ queue = {} /\ retry = {} /\ pending = {} /\ todo = {}
        /\ results = [m \in Modem |-> <<>>]
        /\ mem.failed = 0 /\ mem.total = 0
        /\ pc = "load" =>
             \A s \in {file} \cup {seen[c] : c \in Client} : s.failed = 0 /\ s.total = 0

OneOutcome == \A m \in Modem : results[m] \in {<<>>, <<TRUE>>, <<FALSE>>}

Placed ==
    pc \in LoopPCs =>
        /\ queue \cap retry = {} /\ pending \cap (queue \cup retry) = {}
        /\ Taken \cap (queue \cup retry \cup pending) = {}
        /\ \A i, j \in Open : i.modem = j.modem => i = j
        /\ \A r, q \in todo : r.item = q.item => r = q
        /\ \A i \in Open : i.modem \in scope /\ results[i.modem] = <<>>
        /\ \A m \in scope : results[m] = <<>> => \E i \in Open : i.modem = m
        /\ pc \in {"check", "collect"} => todo = {}

FailuresCounted ==
    pc \in LoopPCs \cup {"finish"} =>
        (mem.failed = 0 => \A m \in Modem : results[m] # <<FALSE>>)

\* Of the modems that are captured, all have an outcome at the end; no others ever do.
AllAnswered ==
    /\ pc = "finish" => \A m \in Work : results[m] # <<>>
    /\ \A m \in Modem : results[m] # <<>> => m \in Work

TotalSet == pc \in LoopPCs \cup {"finish"} => mem.total = Cardinality(Work)

Lifecycle ==
    /\ file.state \in Terminal => pc \in {"done", "dead"}
    /\ pc \in {"start_save", "total_save", "finish"} \cup LoopPCs => mem.state = "RUNNING"
    /\ pc \in {"total_save"} \cup LoopPCs => grouped
    /\ pc = "mark_save" => mem.state \in {"CANCELLED", "FAILED"}
    /\ pc = "fail_save" => mem.state = "FAILED"
    /\ pc = "mark_cancelled" \/ (pc = "mark_save" /\ mem.state = "CANCELLED") => flag
    /\ \A c \in Client : cpc[c] = "save" => flag

IInv ==
    /\ TypeOK
    /\ NothingDone /\ OneOutcome /\ Placed /\ FailuresCounted /\ AllAnswered /\ TotalSet
    /\ Lifecycle
    /\ CompletedMeansCaptured

\* The lifecycle the operation endpoints promise (module Operation).
Outcome == [m \in Modem |->
              IF results[m] = <<>> THEN "none" ELSE IF results[m][1] THEN "ok" ELSE "bad"]
Abstract == INSTANCE Operation WITH
    state <- file.state, requested <- flag, outcome <- Outcome
OperationSpec == Abstract!Spec

\* Unless a write raises or the server dies, every operation ends, hanging workers and
\* cancel requests notwithstanding: the overall deadline ends the loop.
Terminates == <>(file.state \in Terminal \/ pc \in {"join", "fail", "dead"})

=============================================================================
