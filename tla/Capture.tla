------------------------------ MODULE Capture ------------------------------
(***************************************************************************)
(* One measurement service: a request is given its scope from the serving  *)
(* group worker's store, the runner's workers look their modems up and     *)
(* capture them, the runner's thread appends what came of it to the        *)
(* results files, and results requests are answered from these files at    *)
(* any moment.  Meanwhile the store is polled, and replaced by a guard     *)
(* restart.  The attempts, deadlines and counters of an operation are      *)
(* module OperationRunner's; here an item has its last attempt, and the    *)
(* operation may end at any time.                                          *)
(***************************************************************************)
EXTENDS Measurements

CONSTANTS
    Service,    \* the services that are tried
    Request,    \* the requests that clients send
    Snapshot,   \* the snapshots a poll may bring: a group's modems and channels
    MaxStores,  \* bound of the stores published one after the other
    MaxPolls,   \* bound of the polls
    MaxOps,     \* bound of the operations
    Faults      \* TRUE: an append to a results file may raise

ASSUME ServiceAssumption == Service \subseteq Services
ASSUME RequestAssumption ==
    Request \subseteq [sgs : Seq(SG), macs : Seq(Modem), channels : SUBSET Channel]
ASSUME SnapshotAssumption ==
    Snapshot \subseteq [modems : [Modem -> Listing], channels : SUBSET Channel]
ASSUME CaptureBounds ==
    MaxStores \in Nat \ {0} /\ MaxPolls \in Nat /\ MaxOps \in Nat /\ Faults \in BOOLEAN

VARIABLES
    svc,          \* the measurement
    stores,       \* every store that was published
    active,       \* the number of the published one, 0 before the first
    scopeStore,   \* the store the scope resolver keeps, 0 for none
    workerStore,  \* the store the capture worker keeps
    op,           \* the current operation
    progress,     \* how far each work item is
    writing,      \* the item whose records are being appended, and those that remain
    file,         \* results/sg-<id>.jsonl
    polls, ops    \* counted against their bounds

inventory == <<stores, active, polls>>
kept == <<scopeStore, workerStore>>
operation == <<op, progress, writing, file, ops>>
vars == <<svc, inventory, kept, operation>>

Idle == [mac |-> "none", sg |-> 0]
NotWriting == [item |-> Idle, rest |-> <<>>]

NoOperation == [state |-> "none", request |-> [sgs |-> <<>>, macs |-> <<>>, channels |-> {}],
                expandedFrom |-> 0, channels |-> {}, items |-> {}]

Init ==
    /\ svc \in Service
    /\ stores = [n \in 1..MaxStores |-> EmptyStore]
    /\ active = 0 /\ polls = 0 /\ ops = 0
    /\ scopeStore = 0 /\ workerStore = 0
    /\ op = NoOperation
    /\ progress = [i \in Item |-> "none"]
    /\ writing = NotWriting
    /\ file = [sg \in SG |-> <<>>]

-----------------------------------------------------------------------------
(* The store *)

\* Startup publishes the first store; each guard restart publishes an empty one in its place.
PublishStore ==
    /\ active < MaxStores
    /\ active' = active + 1
    /\ UNCHANGED <<svc, stores, polls, kept, operation>>

\* A poll of the published store; a replaced one stays as it is.
Poll(sg, s) ==
    /\ active # 0 /\ polls < MaxPolls
    /\ stores' = [stores EXCEPT ![active].modems[sg] = s.modems, ![active].channels[sg] = s.channels]
    /\ polls' = polls + 1
    /\ UNCHANGED <<svc, active, kept, operation>>

\* The first store that a cache of the service sees is the one it keeps.
Seen(keptStore) == IF keptStore # 0 THEN keptStore ELSE active
Contents(n) == IF n = 0 THEN EmptyStore ELSE stores[n]

-----------------------------------------------------------------------------
(* startCapture *)

Given(r) == r.sgs # <<>> /\ r.macs # <<>>

\* The scope: without a store, a request is taken as it is.
Scope(r) ==
    IF Seen(scopeStore) = 0 THEN [sgs |-> r.sgs, macs |-> r.macs]
    ELSE ResolveScope(stores[Seen(scopeStore)], r.sgs, r.macs)

\* The store is looked for to expand a scope and, by one service, to check channels.
NeedsStore(r) == ~Given(r) \/ (svc = "rxmer" /\ r.channels # {} /\ Scope(r).sgs # <<>>)

SummaryOf(r) == RequestOf(svc, Contents(Seen(scopeStore)), Scope(r), r.channels)

StartCapture(r) ==
    /\ op.state \in {"none", "ended"} /\ ops < MaxOps
    /\ \E summary \in {SummaryOf(r)} :
        /\ summary.accepted
        /\ op' = [state |-> "running", request |-> r,
                  expandedFrom |-> IF Given(r) THEN 0 ELSE Seen(scopeStore),
                  channels |-> summary.channels,
                  items |-> BuildWorkItems(summary.sgs, summary.macs)]
    /\ scopeStore' = IF NeedsStore(r) THEN Seen(scopeStore) ELSE scopeStore
    /\ progress' = [i \in Item |-> IF i \in op'.items THEN "queued" ELSE "none"]
    /\ writing' = NotWriting
    /\ file' = [sg \in SG |-> <<>>]
    /\ ops' = ops + 1
    /\ UNCHANGED <<svc, inventory, workerStore>>

\* 422: no operation is created, but the store that was looked at is kept.
RefuseCapture(r) ==
    /\ op.state \in {"none", "ended"} /\ ops < MaxOps
    /\ ~SummaryOf(r).accepted
    /\ scopeStore' = Seen(scopeStore)
    /\ UNCHANGED <<svc, inventory, workerStore, operation>>

-----------------------------------------------------------------------------
(* The workers and the runner's thread *)

Running == op.state = "running"

\* The eligibility stage: the worker looks up the modem's address.
ResolveModem(i) ==
    /\ Running /\ progress[i] = "queued"
    /\ progress' = [progress EXCEPT ![i] = IF Addressed(Contents(Seen(workerStore)), i)
                                           THEN "found" ELSE "missing"]
    /\ workerStore' = Seen(workerStore)
    /\ UNCHANGED <<svc, inventory, scopeStore, op, writing, file, ops>>

Passed(stage) == StageOutcome(stage, "SUCCESS")

\* What PnmCaptureWorkerBase.__call__ returns for an item, stage by stage.
WorkerResults(i) ==
    CASE progress[i] = "missing" -> {<<StageOutcome("eligibility", "INVALID_PARAMETERS")>>}
      [] progress[i] = "found" ->
            {<<Passed("eligibility"), StageOutcome("precheck", "UNREACHABLE")>>}
              \cup {<<Passed("eligibility"), Passed("precheck"), c>> : c \in CapturesOf(svc, i, op.channels)}
      [] OTHER -> {}

\* What the runner puts in place of an attempt that timed out or raised.
SynthesizedResult ==
    <<Passed("eligibility"), Passed("precheck"), StageOutcome("capture", "TIMEOUT")>>

\* The runner's thread takes an item's result and begins to persist it.
TakeResult(i) ==
    /\ Running /\ writing = NotWriting
    /\ progress[i] \in {"queued", "found", "missing"}
    /\ \E stages \in WorkerResults(i) \cup {SynthesizedResult} :
          writing' = [item |-> i, rest |-> stages]
    /\ progress' = [progress EXCEPT ![i] = "writing"]
    /\ UNCHANGED <<svc, inventory, kept, op, file, ops>>

\* PerModemLinkageRecordModel: a stage's result with the item it is of.
Stamped(i, s) == [mac |-> i.mac, sg |-> i.sg, stage |-> s.stage, status |-> s.status,
                  channel |-> s.channel, txns |-> s.txns]

\* One record is appended to the file of the item's group.
AppendRecord ==
    /\ writing # NotWriting
    /\ LET i == writing.item IN
       /\ file' = [file EXCEPT ![i.sg] = Append(@, Stamped(i, Head(writing.rest)))]
       /\ IF Len(writing.rest) = 1
          THEN /\ writing' = NotWriting
               /\ progress' = [progress EXCEPT ![i] = "recorded"]
          ELSE /\ writing' = [writing EXCEPT !.rest = Tail(@)]
               /\ UNCHANGED progress
    /\ UNCHANGED <<svc, inventory, kept, op, ops>>

\* An append raises: the runner's thread leaves its loop and the operation fails.
AppendRaises ==
    /\ Faults /\ writing # NotWriting
    /\ writing' = NotWriting
    /\ op' = [op EXCEPT !.state = "ended"]
    /\ UNCHANGED <<svc, inventory, kept, progress, file, ops>>

\* Everything is recorded, or a cancel request or the deadline ends the operation.
EndOperation ==
    /\ Running /\ writing = NotWriting
    /\ op' = [op EXCEPT !.state = "ended"]
    /\ UNCHANGED <<svc, inventory, kept, progress, writing, file, ops>>

Next ==
    \/ PublishStore
    \/ \E sg \in SG, s \in Snapshot : Poll(sg, s)
    \/ \E r \in Request : StartCapture(r) \/ RefuseCapture(r)
    \/ \E i \in Item : ResolveModem(i) \/ TakeResult(i)
    \/ AppendRecord \/ AppendRaises \/ EndOperation

Spec == Init /\ [][Next]_vars

-----------------------------------------------------------------------------
(* Properties *)

Records == AllRecords(file)

Operation ==
    [state : {"none", "running", "ended"},
     request : [sgs : Seq(SG), macs : Seq(Modem), channels : SUBSET Channel],
     expandedFrom : 0..MaxStores, channels : SUBSET Channel, items : SUBSET Item]

TypeOK ==
    /\ svc \in Service
    /\ stores \in [1..MaxStores -> Store] /\ active \in 0..MaxStores
    /\ scopeStore \in 0..active /\ workerStore \in 0..active
    /\ op \in Operation
    /\ progress \in [Item -> {"none", "queued", "found", "missing", "writing", "recorded"}]
    /\ writing = NotWriting \/ writing \in [item : Item, rest : Seq(StageResult) \ {<<>>}]
    /\ file \in [SG -> Seq(Record)]
    /\ polls \in 0..MaxPolls /\ ops \in 0..MaxOps

\* A request that leaves groups or modems open becomes exactly the work items that the snapshots
\* it was expanded from list: every modem in every group that lists it, although expansion and
\* pairing are two functions that agree on two lists only (scope.py, _build_work_items).
WildcardScope ==
    [][op' # op /\ op'.expandedFrom # 0 /\ op'.state = "running" =>
         op'.items = Covered(stores[op'.expandedFrom], op'.request.sgs, op'.request.macs)]_vars

View(sel, analysis, lost) == Results(svc, Records, sel, analysis, lost)

Everything == [sgs |-> {}, channels |-> {}, macs |-> {}]
ItemsOf(m) == {i \in op.items : i.mac = m}

\* Once all of a modem's items are recorded, the view tells the truth of it: success only with a
\* file, each of the modem itself, and success when every capture of it succeeded
\* (_select_final_stage_record, _build_structured_results).
SettledVerdict ==
    svc \in Viewed =>
        \A e \in View(Everything, FALSE, {}) :
            (\A i \in ItemsOf(e.mac) : progress[i] = "recorded") =>
                LET captures == {r \in Listed(Records) : r.mac = e.mac /\ IsCapture(r)}
                IN  /\ e.ok => e.txns # {}
                    /\ \A t \in e.txns : t.mac = e.mac /\ \E r \in captures : t \in ToSet(r.txns)
                    /\ captures # {} /\ (\A r \in captures : r.status = "SUCCESS") => e.ok

\* What a channel filter leaves of an entry: the records of the stages before the capture name no
\* channel and pass no such filter, so the codes of those stages are empty.
CaptureOnly(e) == [e EXCEPT !.codes = [stage \in Stages |-> IF stage = "capture" THEN @[stage] ELSE "none"]]

\* The services that do not look at the channels of a selection.
IgnoresChannels == {"rxmer", "histogram"}

\* What is said of a modem does not depend on the filter that it is found with: one that has a
\* single work item is shown under its own group and address as without a filter.  So it is under a
\* channel filter, when it is shown at all, but for the codes of the stages before the capture
\* (_filter_results_records runs before the records are put together).
FilterKeepsVerdict ==
    svc \in Viewed =>
        LET single == {e \in View(Everything, FALSE, {}) : Cardinality(ItemsOf(e.mac)) = 1}
        IN  /\ \A e \in single :
                e \in View([sgs |-> {e.sg}, channels |-> {}, macs |-> {e.mac}], FALSE, {})
            /\ \A c \in Channel : \A f \in View([Everything EXCEPT !.channels = {c}], FALSE, {}) :
                \A e \in single :
                    f.mac = e.mac => f = IF svc \in IgnoresChannels THEN e ELSE CaptureOnly(e)

\* The file that a modem's entry links to is one of the modem's own; with an analysis it is the
\* analysed one, of a modem shown as captured, and the entry's channel is the file's
\* (_resolve_modem_analysis, _build_modem_file_link and _resolve_modem_channel_id pick each
\* their own).
AnalysedFile ==
    svc \in Viewed =>
        \A lost \in {{}, DecodedBy(Records)} : \A e \in View(Everything, TRUE, lost) :
            /\ e.txns # {} => e.file \in e.txns /\ e.file.mac = e.mac
            /\ e.analysed # NoTransaction =>
                    /\ e.ok /\ e.file = e.analysed
                    /\ svc = "histogram" \/ e.channel = e.analysed.channel
                         \/ (e.analysed \in lost /\ e.channel = NoChannel)

-----------------------------------------------------------------------------
(* The inductive invariant *)

\* What a record of the operation says agrees with itself: only a successful capture has files,
\* they are of its modem and, when it names a channel, of that channel.
Sound(r) ==
    /\ r.channel \in {NoChannel, RequestedChannel(op.channels)}
    /\ r.channel # NoChannel => IsCapture(r)
    /\ r.txns # <<>> <=> IsCapture(r) /\ r.status = "SUCCESS"
    /\ \A t \in ToSet(r.txns) : t.mac = r.mac /\ (r.channel # NoChannel => t.channel = r.channel)
    /\ r.txns # <<>> /\ svc # "histogram" => r.channel = RequestedChannel(op.channels)

\* The results that are still to be written of an item.
Pending(i) == IF writing.item = i THEN {Stamped(i, s) : s \in ToSet(writing.rest)} ELSE {}

Written(i) == {r \in ToSet(file[i.sg]) : r.mac = i.mac}

\* Each record is of a work item, and in its group's file.
OfItems ==
    /\ \A sg \in SG : \A r \in ToSet(file[sg]) : r.sg = sg /\ [mac |-> r.mac, sg |-> sg] \in op.items
    /\ writing # NotWriting => writing.item \in op.items /\ op.state = "running"
    /\ \A i \in Item : progress[i] # "none" => i \in op.items

SoundRecords ==
    svc \in Viewed => /\ \A sg \in SG : \A r \in ToSet(file[sg]) : Sound(r)
                      /\ \A i \in Item : \A r \in Pending(i) : Sound(r)

\* An item's records are of later and later stages, also those that are still to be written.
Staged ==
    /\ \A sg \in SG : \A j, k \in DOMAIN file[sg] :
         j < k /\ file[sg][j].mac = file[sg][k].mac =>
            Rank(file[sg][j].stage) < Rank(file[sg][k].stage)
    /\ \A j, k \in DOMAIN writing.rest : j < k => Rank(writing.rest[j].stage) < Rank(writing.rest[k].stage)
    /\ \A i \in Item : \A r \in Written(i), p \in Pending(i) : Rank(r.stage) < Rank(p.stage)
    /\ \A i \in Item : progress[i] \in {"none", "queued", "found", "missing"} => Written(i) = {}

\* A stage that passed is followed by another one.
Continued(rs) ==
    \A r \in rs : r.status = "SUCCESS" /\ ~IsCapture(r) =>
        \E q \in rs : Rank(r.stage) < Rank(q.stage)

Complete ==
    \A i \in Item :
        /\ progress[i] = "recorded" => Continued(Written(i))
        /\ writing # NotWriting /\ writing.item = i =>
              progress[i] = "writing" /\ Continued(Written(i) \cup Pending(i))

IInv == TypeOK /\ OfItems /\ SoundRecords /\ Staged /\ Complete

=============================================================================
