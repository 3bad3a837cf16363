-------------------------- MODULE OperationProofs --------------------------
(* Proofs about OperationRunner, for any modems, clients and settings. *)
EXTENDS OperationRunner, FiniteSetTheorems, TLAPS

-----------------------------------------------------------------------------
(* Types *)

\* A save leaves a state of the store's type, and either nothing or its argument.
LEMMA SaveTyped ==
    ASSUME NEW s \in OpState, file \in OpState, Save(s)
    PROVE  /\ file' \in OpState
           /\ file' \in {file, s}
           /\ file.state \in Terminal => file' = file \/ s.state = file.state
           /\ file.state \notin Terminal => file' = s
BY DEF Save, CanReplaceState

\* The state every save of the runner and every cancel request builds is typed.
LEMMA OpStateUpdates ==
    ASSUME NEW s \in OpState
    PROVE  /\ \A t \in States : [s EXCEPT !.state = t] \in OpState
           /\ \A n \in Nat : [s EXCEPT !.total = n] \in OpState
           /\ [s EXCEPT !.success = @ + 1] \in OpState
           /\ [s EXCEPT !.failed = @ + 1] \in OpState
BY DEF OpState

LEMMA ScopeSize ==
    ASSUME TypeOK
    PROVE  Cardinality(scope) \in Nat
BY ModemAssumption, FS_Subset, FS_CardinalityType DEF TypeOK

LEMMA RetryTyped ==
    ASSUME NEW i \in Item, i.attempt < RetryCount
    PROVE  [i EXCEPT !.attempt = @ + 1] \in Item
BY RetryCountAssumption DEF Item

LEMMA TypeCorrectInit == Init => TypeOK
<1> SUFFICES ASSUME Init PROVE TypeOK
  OBVIOUS
<1>1. file \in OpState
  BY DEF Init, OpState, States
<1>2. results \in [Modem -> Seq(BOOLEAN)]
  BY DEF Init
<1>3. QED
  BY <1>1, <1>2 DEF Init, TypeOK, PCs, SetupPCs

LEMMA TypeCorrectNext == TypeOK /\ [Next]_vars => TypeOK'
<1> SUFFICES ASSUME TypeOK, [Next]_vars PROVE TypeOK'
  OBVIOUS
<1> USE DEF TypeOK, PCs, SetupPCs, LoopPCs, EndPCs, runner, clients
<1>0. file \in OpState /\ mem \in OpState /\ Terminal \cup {"RUNNING", "CANCELLING"} \subseteq States
  BY DEF Terminal, States
<1>1. CASE LoadState
  BY <1>0, <1>1, OpStateUpdates DEF LoadState
<1>2. CASE StartRunning \/ StartEmpty \/ SaveCounters \/ MarkSave
  BY <1>0, <1>2, SaveTyped DEF StartRunning, StartEmpty, SaveCounters, MarkSave
<1>3. CASE SaveTotal
  <2>1. mem' \in OpState
    BY <1>0, <1>3, OpStateUpdates, ScopeSize DEF SaveTotal
  <2>2. file' \in OpState
    BY <2>1, <1>0, <1>3, SaveTyped DEF SaveTotal
  <2>3. queue' \subseteq Item
    BY <1>3, RetryCountAssumption DEF SaveTotal, Item
  <2>4. QED
    BY <2>1, <2>2, <2>3, <1>3 DEF SaveTotal
<1>4. CASE LoopEnds \/ SeeCancel \/ SeeDeadline \/ IterationEnds \/ WriteRaises \/ Join \/ MarkRaises
  BY <1>4 DEF LoopEnds, SeeCancel, SeeDeadline, IterationEnds, WriteRaises, Join, MarkRaises, Goto
<1>5. CASE Dispatch
  <2>1. PICK ready \in SUBSET retry, batch \in SUBSET (queue \cup retry) :
          /\ retry' = retry \ ready
          /\ queue' = (queue \cup ready) \ batch
          /\ pending' = pending \cup batch
          /\ future' = [i \in Item |-> IF i \in batch THEN "running" ELSE future[i]]
    BY <1>5 DEF Dispatch
  <2>2. QED
    BY <2>1, <1>5 DEF Dispatch
<1>6. CASE Collect
  <2>1. todo' \subseteq Result
    <3>1. \A i \in Item, b \in BOOLEAN : [item |-> i, ok |-> b] \in Result
      BY DEF Result
    <3>2. \A r \in todo' : \E i \in pending, b \in BOOLEAN : r = [item |-> i, ok |-> b]
      BY <1>6 DEF Collect
    <3>3. QED
      BY <3>1, <3>2
  <2>2. QED
    BY <2>1, <1>6 DEF Collect
<1>7. ASSUME NEW r \in todo, HandleRetry(r) PROVE TypeOK'
  <2>1. [r.item EXCEPT !.attempt = @ + 1] \in Item
    <3>1. r.item \in Item /\ r.item.attempt < RetryCount
      BY <1>7 DEF HandleRetry, ShouldRetry, Result
    <3>2. QED
      BY <3>1, RetryTyped
  <2>2. file' \in OpState
    BY <1>0, <1>7, SaveTyped DEF HandleRetry
  <2>3. QED
    BY <2>1, <2>2, <1>7 DEF HandleRetry
<1>8. ASSUME NEW r \in todo, RecordResult(r) PROVE TypeOK'
  <2>1. r.item.modem \in Modem /\ r.ok \in BOOLEAN
    BY DEF Result, Item
  <2>2. results' \in [Modem -> Seq(BOOLEAN)]
    BY <2>1, <1>8 DEF RecordResult
  <2>3. mem' \in OpState
    BY <1>0, <1>8, OpStateUpdates DEF RecordResult
  <2>4. QED
    BY <2>2, <2>3, <1>8 DEF RecordResult
<1>9. CASE Finish
  <2>1. mem' \in OpState
    BY <1>0, <1>9, OpStateUpdates DEF Finish, TerminalState, States, Terminal
  <2>2. file' \in OpState
    BY <2>1, <1>0, <1>9, SaveTyped DEF Finish
  <2>3. QED
    BY <2>1, <2>2, <1>9 DEF Finish
<1>10. CASE MarkCancelled \/ MarkFailed
  <2>1. mem' \in OpState
    <3>1. {"CANCELLED", "FAILED"} \subseteq States
      BY DEF States, Terminal
    <3>2. /\ [file EXCEPT !.state = "CANCELLED"] \in OpState
          /\ [file EXCEPT !.state = "FAILED"] \in OpState
      BY <1>0, <3>1, OpStateUpdates
    <3>3. QED
      BY <3>2, <1>10 DEF MarkCancelled, MarkFailed, MarkLoad
  <2>2. QED
    BY <2>1, <1>10 DEF MarkCancelled, MarkFailed, MarkLoad
<1>11. ASSUME NEW c \in Client, CancelLoad(c) \/ CancelTouch(c) PROVE TypeOK'
  BY <1>11 DEF CancelLoad, CancelTouch
<1>12. ASSUME NEW c \in Client, CancelSave(c) PROVE TypeOK'
  <2>1. [seen[c] EXCEPT !.state = "CANCELLING"] \in OpState
    BY OpStateUpdates, <1>0
  <2>2. file' \in OpState
    BY <2>1, <1>0, <1>12, SaveTyped DEF CancelSave
  <2>3. QED
    BY <2>2, <1>12 DEF CancelSave
<1>13. ASSUME NEW i \in Item, WorkerEnds(i) PROVE TypeOK'
  BY <1>13 DEF WorkerEnds
<1>14. CASE DeadlinePasses \/ Crash \/ UNCHANGED vars
  BY <1>14 DEF DeadlinePasses, Crash, vars
<1>15. QED
  BY <1>1, <1>2, <1>3, <1>4, <1>5, <1>6, <1>7, <1>8, <1>9, <1>10, <1>11, <1>12, <1>13, <1>14
     DEF Next, RunnerStep, ClientStep

\* TypeOK: whatever the interleaving of runner, requests and workers, the lists,
\* the counters and the states on disk and in memory keep their types.
THEOREM TypeCorrect == Spec => []TypeOK
  BY TypeCorrectInit, TypeCorrectNext, PTL DEF Spec

-----------------------------------------------------------------------------
(* The inductive invariant *)

LEMMA InitIInv == Init => IInv
<1> SUFFICES ASSUME Init, TypeOK PROVE IInv
  BY TypeCorrectInit
<1> USE DEF Init, SetupPCs, LoopPCs
<1>1. NothingDone BY DEF NothingDone
<1>2. OneOutcome BY DEF OneOutcome
<1>3. Placed /\ FailuresCounted /\ AllAnswered /\ TotalSet
  BY DEF Placed, FailuresCounted, AllAnswered, TotalSet
<1>4. Lifecycle BY DEF Lifecycle, Terminal
<1>5. CompletedMeansCaptured BY DEF CompletedMeansCaptured
<1>6. QED BY <1>1, <1>2, <1>3, <1>4, <1>5 DEF IInv

\* The steps that leave the request, the runner's lists and the outcomes alone.
Quiet == UNCHANGED <<scope, grouped, results, queue, pending, retry, todo>>

LEMMA QuietSteps ==
    ASSUME [Next]_vars
    PROVE  \/ Quiet
           \/ SaveTotal \/ Dispatch \/ Collect
           \/ \E r \in todo : HandleRetry(r) \/ RecordResult(r)
<1> USE DEF Quiet, runner, clients
<1>1. ASSUME LoadState \/ StartRunning \/ StartEmpty \/ SaveCounters \/ Finish \/ MarkSave PROVE Quiet
  BY <1>1 DEF LoadState, StartRunning, StartEmpty, SaveCounters, Finish, MarkSave
<1>2. ASSUME LoopEnds \/ SeeCancel \/ SeeDeadline \/ IterationEnds \/ WriteRaises \/ Join \/ MarkRaises PROVE Quiet
  BY <1>2 DEF LoopEnds, SeeCancel, SeeDeadline, IterationEnds, WriteRaises, Join, MarkRaises, Goto
<1>3. ASSUME MarkCancelled \/ MarkFailed PROVE Quiet
  BY <1>3 DEF MarkCancelled, MarkFailed, MarkLoad
<1>4. ASSUME NEW c \in Client, ClientStep(c) PROVE Quiet
  BY <1>4 DEF ClientStep, CancelLoad, CancelTouch, CancelSave
<1>5. ASSUME NEW i \in Item, WorkerEnds(i) PROVE Quiet
  BY <1>5 DEF WorkerEnds
<1>6. ASSUME DeadlinePasses \/ Crash \/ UNCHANGED vars PROVE Quiet
  BY <1>6 DEF DeadlinePasses, Crash, vars
<1>7. QED
  BY <1>1, <1>2, <1>3, <1>4, <1>5, <1>6 DEF Next, RunnerStep

LEMMA LifecycleNext == TypeOK /\ Lifecycle /\ [Next]_vars => Lifecycle'
<1> SUFFICES ASSUME TypeOK, Lifecycle, [Next]_vars PROVE Lifecycle'
  OBVIOUS
<1> USE DEF Lifecycle, LoopPCs, runner, clients
<1>0. \A s \in OpState : Save(s) =>
         /\ file.state \in Terminal => file' = file \/ s.state = file.state
         /\ file.state \notin Terminal => file' = s
  BY SaveTyped DEF TypeOK
<1>1. CASE LoadState
  BY <1>1 DEF LoadState, TypeOK, OpState
<1>2. CASE StartRunning \/ StartEmpty \/ SaveCounters
  BY <1>2, <1>0 DEF StartRunning, StartEmpty, SaveCounters, TypeOK, Terminal
<1>3. CASE SaveTotal
  BY <1>3, ScopeSize DEF SaveTotal, Save, TypeOK, OpState, Terminal
<1>4. CASE LoopEnds \/ SeeCancel \/ SeeDeadline \/ IterationEnds \/ WriteRaises \/ Join \/ MarkRaises
  BY <1>4 DEF LoopEnds, SeeCancel, SeeDeadline, IterationEnds, WriteRaises, Join, MarkRaises, Goto
<1>5. CASE Dispatch
  BY <1>5 DEF Dispatch
<1>6. CASE Collect
  BY <1>6 DEF Collect
<1>7. ASSUME NEW r \in todo, HandleRetry(r) PROVE Lifecycle'
  BY <1>7, <1>0 DEF HandleRetry, TypeOK, Terminal
<1>8. ASSUME NEW r \in todo, RecordResult(r) PROVE Lifecycle'
  BY <1>8 DEF RecordResult, TypeOK, OpState
<1>9. CASE Finish
  BY <1>9 DEF Finish
<1>10. CASE MarkCancelled \/ MarkFailed
  BY <1>10 DEF MarkCancelled, MarkFailed, MarkLoad, TypeOK, OpState
<1>11. CASE MarkSave
  BY <1>11 DEF MarkSave
<1>12. ASSUME NEW c \in Client, CancelLoad(c) \/ CancelTouch(c) PROVE Lifecycle'
  BY <1>12 DEF CancelLoad, CancelTouch, TypeOK
<1>13. ASSUME NEW c \in Client, CancelSave(c) PROVE Lifecycle'
  <2>1. /\ [seen[c] EXCEPT !.state = "CANCELLING"] \in OpState
        /\ [seen[c] EXCEPT !.state = "CANCELLING"].state = "CANCELLING"
    BY DEF TypeOK, OpState, States
  <2>2. file'.state \in Terminal => file.state \in Terminal
    BY <2>1, <1>0, <1>13 DEF CancelSave, Terminal
  <2>3. QED
    BY <2>2, <1>13 DEF CancelSave, TypeOK
<1>14. ASSUME NEW i \in Item, WorkerEnds(i) PROVE Lifecycle'
  BY <1>14 DEF WorkerEnds
<1>15. CASE DeadlinePasses \/ Crash \/ UNCHANGED vars
  BY <1>15 DEF DeadlinePasses, Crash, vars
<1>16. QED
  BY <1>1, <1>2, <1>3, <1>4, <1>5, <1>6, <1>7, <1>8, <1>9, <1>10, <1>11, <1>12, <1>13, <1>14, <1>15
     DEF Next, RunnerStep, ClientStep

\* A request does not change while it is worked on.
LEMMA RequestKept ==
    ASSUME [Next]_vars
    PROVE  UNCHANGED <<scope, grouped>> /\ Work' = Work
BY QuietSteps DEF Quiet, SaveTotal, Dispatch, Collect, HandleRetry, RecordResult, Work

\* How the runner's thread gets to where it is.
LEMMA Places ==
    ASSUME [Next]_vars
    PROVE  /\ pc' \in SetupPCs => pc \in SetupPCs
           /\ pc' \in LoopPCs => pc \in LoopPCs \/ SaveTotal
           /\ pc' = "check" => pc = "check" \/ SaveTotal \/ IterationEnds
           /\ pc' = "collect" => pc = "collect" \/ Dispatch
           /\ pc' = "finish" => pc = "finish" \/ LoopEnds \/ StartEmpty
<1> USE DEF SetupPCs, LoopPCs, runner, clients
<1>1. CASE LoadState \/ StartRunning \/ StartEmpty \/ SaveTotal \/ SaveCounters
  BY <1>1 DEF LoadState, StartRunning, StartEmpty, SaveTotal, SaveCounters
<1>2. CASE LoopEnds \/ SeeCancel \/ SeeDeadline \/ IterationEnds \/ WriteRaises \/ Join \/ MarkRaises
  BY <1>2 DEF LoopEnds, SeeCancel, SeeDeadline, IterationEnds, WriteRaises, Join, MarkRaises, Goto
<1>3. CASE Dispatch \/ Collect
  BY <1>3 DEF Dispatch, Collect
<1>4. ASSUME NEW r \in todo, HandleRetry(r) \/ RecordResult(r)
      PROVE  pc \in LoopPCs /\ pc' \in {"handle", "save"}
  BY <1>4 DEF HandleRetry, RecordResult
<1>5. CASE Finish \/ MarkCancelled \/ MarkFailed \/ MarkSave
  BY <1>5 DEF Finish, MarkCancelled, MarkFailed, MarkLoad, MarkSave
<1>6. ASSUME NEW c \in Client, ClientStep(c) PROVE pc' = pc
  BY <1>6 DEF ClientStep, CancelLoad, CancelTouch, CancelSave
<1>7. ASSUME NEW i \in Item, WorkerEnds(i) PROVE pc' = pc
  BY <1>7 DEF WorkerEnds
<1>8. CASE DeadlinePasses \/ Crash \/ UNCHANGED vars
  BY <1>8 DEF DeadlinePasses, Crash, vars
<1>9. QED
  BY <1>1, <1>2, <1>3, <1>4, <1>5, <1>6, <1>7, <1>8 DEF Next, RunnerStep

LEMMA NothingDoneNext == TypeOK /\ NothingDone /\ [Next]_vars => NothingDone'
<1> SUFFICES ASSUME TypeOK, NothingDone, [Next]_vars, pc' \in SetupPCs PROVE NothingDone'
  BY DEF NothingDone
<1>0. pc \in SetupPCs
  BY Places
<1>1. Quiet
  BY <1>0, QuietSteps DEF SetupPCs, SaveTotal, Dispatch, Collect, HandleRetry, RecordResult
<1> DEFINE Zero(s) == s.failed = 0 /\ s.total = 0
<1> SUFFICES Zero(mem') /\ (pc' = "load" => Zero(file') /\ \A c \in Client : Zero(seen'[c]))
  BY <1>0, <1>1 DEF NothingDone, Quiet
<1> USE <1>0 DEF NothingDone, SetupPCs, LoopPCs, runner, clients
<1>2. CASE LoadState
  BY <1>2 DEF LoadState, TypeOK, OpState
<1>3. CASE StartRunning \/ StartEmpty
  BY <1>3 DEF StartRunning, StartEmpty
<1>4. CASE WriteRaises
  BY <1>4 DEF WriteRaises, Goto
<1>5. ASSUME NEW c \in Client, CancelLoad(c) \/ CancelTouch(c) PROVE pc' = pc /\ mem' = mem /\ file' = file /\ seen' \in {seen, [seen EXCEPT ![c] = file]}
  BY <1>5 DEF CancelLoad, CancelTouch
<1>6. ASSUME NEW c \in Client, CancelSave(c)
      PROVE  pc' = pc /\ mem' = mem /\ seen' = seen /\ (pc = "load" => Zero(file'))
  <2>1. \/ file'.failed = file.failed /\ file'.total = file.total
        \/ file'.failed = seen[c].failed /\ file'.total = seen[c].total
    BY <1>6 DEF CancelSave, Save, TypeOK, OpState
  <2>2. QED
    BY <2>1, <1>6 DEF CancelSave
<1>7. ASSUME NEW i \in Item, WorkerEnds(i) PROVE UNCHANGED <<pc, mem, file, seen>>
  BY <1>7 DEF WorkerEnds
<1>8. CASE DeadlinePasses \/ Crash \/ UNCHANGED vars
  BY <1>8 DEF DeadlinePasses, Crash, vars
<1>9. pc' # "check" /\ ~(pc \in LoopPCs \cup EndPCs)
  BY DEF EndPCs
<1>10. QED
  <2>1. CASE SaveTotal \/ LoopEnds \/ SeeCancel \/ SeeDeadline \/ Dispatch \/ Collect \/ SaveCounters \/ IterationEnds
    BY <2>1, <1>9 DEF SaveTotal, LoopEnds, SeeCancel, SeeDeadline, Dispatch, Collect, SaveCounters, IterationEnds, Goto
  <2>2. CASE \E r \in todo : HandleRetry(r) \/ RecordResult(r)
    BY <2>2
  <2>3. CASE Finish \/ MarkCancelled \/ MarkFailed \/ MarkSave \/ Join \/ MarkRaises
    BY <2>3, <1>9 DEF Finish, MarkCancelled, MarkFailed, MarkLoad, MarkSave, Join, MarkRaises, Goto, EndPCs
  <2>4. CASE \E c \in Client : ClientStep(c)
    BY <2>4, <1>5, <1>6 DEF ClientStep, TypeOK
  <2>5. QED
    BY <2>1, <2>2, <2>3, <2>4, <1>2, <1>3, <1>4, <1>7, <1>8 DEF Next, RunnerStep

LEMMA PlacedNext == TypeOK /\ NothingDone /\ Placed /\ [Next]_vars => Placed'
<1> SUFFICES ASSUME TypeOK, NothingDone, Placed, [Next]_vars, pc' \in LoopPCs PROVE Placed'
  BY DEF Placed
<1>1. CASE SaveTotal
  <2>1. /\ queue' = {[modem |-> m, attempt |-> 0] : m \in scope}
        /\ retry' = {} /\ pending' = {} /\ todo' = {} /\ scope' = scope
        /\ results' = [m \in Modem |-> <<>>]
    BY <1>1 DEF SaveTotal, NothingDone, SetupPCs
  <2>2. Open' = queue' /\ Taken' = {}
    BY <2>1 DEF Open, Taken
  <2>3. \A i \in queue' : i.modem \in scope /\ i = [modem |-> i.modem, attempt |-> 0]
    BY <2>1
  <2>4. \A m \in scope : \E i \in queue' : i.modem = m
    <3>1. \A m \in scope : [modem |-> m, attempt |-> 0] \in queue'
      BY <2>1
    <3>2. QED
      BY <3>1
  <2>5. \A i \in queue' : results'[i.modem] = <<>>
    BY <2>1, <2>3 DEF TypeOK
  <2>6. \A i, j \in queue' : i.modem = j.modem => i = j
    BY <2>3
  <2>7. QED
    BY <2>1, <2>2, <2>3, <2>4, <2>5, <2>6 DEF Placed
<1>2. CASE pc \in LoopPCs /\ Quiet
  <2>1. Open' = Open /\ Taken' = Taken
    BY <1>2 DEF Quiet, Open, Taken
  <2>2. pc' \in {"check", "collect"} => todo = {}
    <3>1. CASE pc \in {"check", "collect"}
      BY <1>2, <3>1 DEF Placed
    <3>2. CASE IterationEnds
      BY <3>2 DEF IterationEnds
    <3>3. CASE Dispatch
      BY <3>3, <1>2 DEF Dispatch, Placed, LoopPCs
    <3>4. CASE SaveTotal
      BY <3>4, <1>2 DEF SaveTotal, LoopPCs
    <3>5. QED
      BY <3>1, <3>2, <3>3, <3>4, Places
  <2>3. QED
    BY <1>2, <2>1, <2>2 DEF Placed, Quiet
<1>3. CASE Dispatch
  <2>1. PICK ready \in SUBSET retry, batch \in SUBSET (queue \cup retry) :
          /\ batch \subseteq queue \cup ready
          /\ retry' = retry \ ready
          /\ queue' = (queue \cup ready) \ batch
          /\ pending' = pending \cup batch
    BY <1>3 DEF Dispatch
  <2>2. UNCHANGED <<scope, results, todo>> /\ pc = "check" /\ pc' = "collect"
    BY <1>3 DEF Dispatch
  <2>3. todo = {} /\ Taken = {} /\ Taken' = {}
    BY <2>2 DEF Placed, Taken, LoopPCs
  <2>4. Open' = Open
    BY <2>1, <2>3 DEF Open
  <2>5. QED
    BY <2>1, <2>2, <2>3, <2>4 DEF Placed, LoopPCs
<1>4. CASE Collect
  <2> DEFINE done == {i \in InFlight : Finished(i)}
             running == {i \in pending : ~Finished(i)}
  <2>1. PICK timedOut \in SUBSET running, tooLate \in SUBSET (done \cap pending) :
          /\ pending' = pending \ (timedOut \cup done)
          /\ todo' = {[item |-> i, ok |-> FALSE] : i \in timedOut}
                     \cup {[item |-> i, ok |-> future[i] = "ok" /\ i \notin tooLate]
                             : i \in done \cap pending}
    BY <1>4 DEF Collect
  <2>2. UNCHANGED <<scope, results, queue, retry>> /\ pc = "collect" /\ pc' = "handle"
    BY <1>4 DEF Collect
  <2>3. todo = {} /\ Taken = {}
    BY <2>2 DEF Placed, Taken, LoopPCs
  <2> DEFINE failed(i) == [item |-> i, ok |-> FALSE]
             answer(i) == [item |-> i, ok |-> future[i] = "ok" /\ i \notin tooLate]
  <2>a. \A r \in todo' : \/ r.item \in timedOut /\ r = failed(r.item)
                         \/ r.item \in done \cap pending /\ r = answer(r.item)
    BY <2>1
  <2>b. /\ \A i \in timedOut : failed(i) \in todo' /\ failed(i).item = i
        /\ \A i \in done \cap pending : answer(i) \in todo' /\ answer(i).item = i
    BY <2>1
  <2> HIDE DEF failed, answer
  <2>4. Taken' = timedOut \cup (done \cap pending)
    BY <2>a, <2>b DEF Taken
  <2>5. timedOut \cap done = {}
    BY DEF Finished
  <2>6. Open' = Open
    BY <2>1, <2>2, <2>3, <2>4 DEF Open
  <2>7. \A r, q \in todo' : r.item = q.item => r = q
    BY <2>a, <2>5
  <2>8. QED
    BY <2>1, <2>2, <2>3, <2>4, <2>6, <2>7 DEF Placed, LoopPCs
<1>5. ASSUME NEW r \in todo, HandleRetry(r) PROVE Placed'
  <2> DEFINE again == [r.item EXCEPT !.attempt = @ + 1]
  <2>1. /\ retry' = retry \cup {again} /\ todo' = todo \ {r}
        /\ UNCHANGED <<scope, results, queue, pending, pc>> /\ pc = "handle"
    BY <1>5 DEF HandleRetry
  <2>2. r.item \in Item /\ again \in Item /\ again.modem = r.item.modem /\ again # r.item
    BY <1>5, RetryTyped DEF HandleRetry, ShouldRetry, TypeOK, Result, Item
  <2>3. Taken' = Taken \ {r.item} /\ r.item \in Taken
    BY <2>1 DEF Taken, Placed, LoopPCs
  <2>4. Open' = (Open \ {r.item}) \cup {again}
    BY <2>1, <2>3 DEF Open, Placed, LoopPCs
  <2>5. r.item \in Open /\ \A i \in Open : i.modem = r.item.modem => i = r.item
    BY <2>1, <2>3 DEF Open, Placed, LoopPCs
  <2>6. again \notin Open
    BY <2>2, <2>5
  <2>7. /\ \A i, j \in Open' : i.modem = j.modem => i = j
        /\ \A i \in Open' : i.modem \in scope' /\ results'[i.modem] = <<>>
        /\ \A m \in scope' : results'[m] = <<>> => \E i \in Open' : i.modem = m
    <3>0. \A i, j \in Open : i.modem = j.modem => i = j
      BY <2>1 DEF Placed, LoopPCs
    <3> HIDE DEF again
    <3>1. ASSUME NEW i \in Open', NEW j \in Open', i.modem = j.modem PROVE i = j
      <4>1. CASE i # again /\ j # again
        BY <2>4, <3>0, <3>1, <4>1
      <4>2. CASE i = again \/ j = again
        BY <2>2, <2>4, <2>5, <3>1, <4>2
      <4>3. QED
        BY <4>1, <4>2
    <3>2. \A i \in Open : i.modem \in scope /\ results[i.modem] = <<>>
      BY <2>1 DEF Placed, LoopPCs
    <3>3. \A i \in Open' : i.modem \in scope /\ results[i.modem] = <<>>
      BY <2>2, <2>4, <2>5, <3>2
    <3>4. \A m \in scope : results[m] = <<>> => \E i \in Open : i.modem = m
      BY <2>1 DEF Placed, LoopPCs
    <3>5. \A m \in scope : results[m] = <<>> => \E i \in Open' : i.modem = m
      BY <2>2, <2>4, <3>4
    <3>6. QED
      BY <2>1, <3>1, <3>3, <3>5
  <2>8. /\ queue' \cap retry' = {} /\ pending' \cap (queue' \cup retry') = {}
        /\ Taken' \cap (queue' \cup retry' \cup pending') = {}
    BY <2>1, <2>3, <2>6 DEF Placed, LoopPCs, Open
  <2>9. QED
    BY <2>1, <2>7, <2>8 DEF Placed, LoopPCs
<1>6. ASSUME NEW r \in todo, RecordResult(r) PROVE Placed'
  <2>1. /\ todo' = todo \ {r} /\ results' = [results EXCEPT ![r.item.modem] = Append(@, r.ok)]
        /\ UNCHANGED <<scope, queue, pending, retry>> /\ pc = "handle" /\ pc' = "save"
    BY <1>6 DEF RecordResult
  <2>2. Taken' = Taken \ {r.item} /\ r.item \in Taken
    BY <2>1 DEF Taken, Placed, LoopPCs
  <2>3. Open' = Open \ {r.item} /\ r.item \in Open
    BY <2>1, <2>2 DEF Open, Placed, LoopPCs
  <2>4. \A i \in Open' : i.modem # r.item.modem
    BY <2>1, <2>3 DEF Placed, LoopPCs
  <2>5. \A m \in Modem : m # r.item.modem => results'[m] = results[m]
    BY <2>1 DEF TypeOK
  <2>6. r.item.modem \in Modem /\ results'[r.item.modem] # <<>>
    <3>1. r.item.modem \in Modem /\ results[r.item.modem] = <<>>
      BY <2>1, <2>3 DEF TypeOK, Result, Item, Placed, LoopPCs
    <3>2. results'[r.item.modem] = <<r.ok>>
      BY <2>1, <3>1 DEF TypeOK
    <3>3. QED
      BY <3>1, <3>2
  <2>7. /\ \A i \in Open' : i.modem \in scope' /\ results'[i.modem] = <<>>
        /\ \A m \in scope' : results'[m] = <<>> => \E i \in Open' : i.modem = m
    BY <2>1, <2>3, <2>4, <2>5, <2>6 DEF Placed, LoopPCs, TypeOK
  <2>8. QED
    BY <2>1, <2>2, <2>3, <2>7 DEF Placed, LoopPCs
<1>7. QED
  BY <1>1, <1>2, <1>3, <1>4, <1>5, <1>6, QuietSteps, Places

\* A recorded modem had no outcome before, and one after.
LEMMA RecordsOnce ==
    ASSUME TypeOK, Placed, NEW r \in todo, RecordResult(r)
    PROVE  /\ r.item.modem \in scope /\ r.item.modem \in Modem /\ r.ok \in BOOLEAN
           /\ results[r.item.modem] = <<>>
           /\ results' = [results EXCEPT ![r.item.modem] = <<r.ok>>]
<1>1. pc = "handle" /\ results' = [results EXCEPT ![r.item.modem] = Append(@, r.ok)]
  BY DEF RecordResult
<1>2. r.item \in Open
  BY DEF Open, Taken
<1>3. r.item.modem \in scope /\ results[r.item.modem] = <<>>
  BY <1>1, <1>2 DEF Placed, LoopPCs
<1>4. r.item.modem \in Modem /\ r.ok \in BOOLEAN
  BY DEF TypeOK, Result, Item
<1>5. QED
  BY <1>1, <1>3, <1>4 DEF TypeOK

LEMMA OneOutcomeNext == TypeOK /\ Placed /\ OneOutcome /\ [Next]_vars => OneOutcome'
<1> SUFFICES ASSUME TypeOK, Placed, OneOutcome, [Next]_vars PROVE OneOutcome'
  OBVIOUS
<1>1. ASSUME NEW r \in todo, RecordResult(r) PROVE OneOutcome'
  BY <1>1, RecordsOnce DEF OneOutcome, TypeOK
<1>2. CASE UNCHANGED results
  BY <1>2 DEF OneOutcome
<1>3. QED
  BY <1>1, <1>2, QuietSteps DEF Quiet, SaveTotal, Dispatch, Collect, HandleRetry

\* The counters in memory change, on the way to the end, only with a record.
LEMMA MemKept ==
    ASSUME [Next]_vars, pc' \in LoopPCs \cup {"finish"}
    PROVE  mem' = mem \/ SaveTotal \/ \E r \in todo : RecordResult(r)
<1> USE DEF LoopPCs, runner, clients
<1>1. CASE StartRunning \/ StartEmpty \/ SaveCounters \/ Dispatch \/ Collect
  BY <1>1 DEF StartRunning, StartEmpty, SaveCounters, Dispatch, Collect
<1>2. CASE LoopEnds \/ SeeCancel \/ SeeDeadline \/ IterationEnds \/ WriteRaises \/ Join \/ MarkRaises
  BY <1>2 DEF LoopEnds, SeeCancel, SeeDeadline, IterationEnds, WriteRaises, Join, MarkRaises, Goto
<1>3. ASSUME NEW r \in todo, HandleRetry(r) PROVE mem' = mem
  BY <1>3 DEF HandleRetry
<1>4. CASE LoadState \/ Finish \/ MarkCancelled \/ MarkFailed \/ MarkSave
  BY <1>4 DEF LoadState, Finish, MarkCancelled, MarkFailed, MarkLoad, MarkSave
<1>5. ASSUME NEW c \in Client, ClientStep(c) PROVE mem' = mem
  BY <1>5 DEF ClientStep, CancelLoad, CancelTouch, CancelSave
<1>6. ASSUME NEW i \in Item, WorkerEnds(i) PROVE mem' = mem
  BY <1>6 DEF WorkerEnds
<1>7. CASE DeadlinePasses \/ Crash \/ UNCHANGED vars
  BY <1>7 DEF DeadlinePasses, Crash, vars
<1>8. QED
  BY <1>1, <1>2, <1>3, <1>4, <1>5, <1>6, <1>7 DEF Next, RunnerStep

LEMMA FailuresCountedNext == IInv /\ [Next]_vars => FailuresCounted'
<1> SUFFICES ASSUME IInv, [Next]_vars, pc' \in LoopPCs \cup {"finish"}, mem'.failed = 0,
                    NEW m \in Modem
             PROVE  results'[m] # <<FALSE>>
  BY DEF FailuresCounted
<1> USE DEF IInv
<1>1. CASE SaveTotal \/ StartEmpty
  <2>1. pc \in SetupPCs /\ results' = results
    BY <1>1 DEF SaveTotal, StartEmpty, SetupPCs
  <2>2. results'[m] = <<>>
    BY <2>1 DEF NothingDone
  <2>3. QED
    BY <2>2
<1>2. ASSUME NEW r \in todo, RecordResult(r) PROVE results'[m] # <<FALSE>>
  <2>1. pc \in LoopPCs /\ mem.failed \in Nat /\ mem'.failed = IF r.ok THEN mem.failed ELSE mem.failed + 1
    BY <1>2 DEF RecordResult, LoopPCs, TypeOK, OpState
  <2>2. r.ok /\ mem.failed = 0
    BY <2>1
  <2>3. results[m] # <<FALSE>>
    BY <2>1, <2>2 DEF FailuresCounted
  <2>4. results' = [results EXCEPT ![r.item.modem] = <<r.ok>>] /\ r.ok \in BOOLEAN
    BY <1>2, RecordsOnce
  <2>5. r.ok = TRUE
    BY <2>2, <2>4
  <2>6. QED
    BY <2>3, <2>4, <2>5 DEF TypeOK
<1>3. CASE mem' = mem /\ pc \in LoopPCs \cup {"finish"} /\ UNCHANGED results
  BY <1>3 DEF FailuresCounted
<1>4. UNCHANGED results \/ SaveTotal \/ \E r \in todo : RecordResult(r)
  BY QuietSteps DEF Quiet, Dispatch, Collect, HandleRetry
<1>5. pc \in LoopPCs \cup {"finish"} \/ SaveTotal \/ StartEmpty
  BY Places DEF LoopEnds, Goto, LoopPCs
<1>6. QED
  BY <1>1, <1>2, <1>3, <1>4, <1>5, MemKept

LEMMA AllAnsweredNext == IInv /\ [Next]_vars => AllAnswered'
<1> SUFFICES ASSUME IInv, [Next]_vars PROVE AllAnswered'
  OBVIOUS
<1> USE DEF IInv
<1>0. Work' = Work
  BY RequestKept
<1>1. ASSUME pc' = "finish", NEW m \in Work PROVE results'[m] # <<>>
  <2>1. CASE pc = "finish"
    <3>1. Quiet
      BY <2>1, QuietSteps DEF SaveTotal, Dispatch, Collect, HandleRetry, RecordResult
    <3>2. QED
      BY <1>1, <2>1, <3>1 DEF Quiet, AllAnswered
  <2>2. CASE LoopEnds
    <3>1. pc = "check" /\ queue = {} /\ retry = {} /\ pending = {} /\ UNCHANGED <<scope, results>>
      BY <2>2 DEF LoopEnds, WorkLeft, Goto
    <3>2. todo = {}
      BY <3>1 DEF Placed, LoopPCs
    <3>3. Open = {}
      BY <3>1, <3>2 DEF Open, Taken
    <3>4. m \in scope
      BY <1>1 DEF Work
    <3>5. QED
      BY <3>1, <3>3, <3>4 DEF Placed, LoopPCs
  <2>3. CASE StartEmpty
    BY <1>1, <2>3 DEF StartEmpty, Work
  <2>4. QED
    BY <1>1, <2>1, <2>2, <2>3, Places
<1>2. ASSUME NEW m \in Modem, results'[m] # <<>> PROVE m \in Work
  <2>1. ASSUME NEW r \in todo, RecordResult(r) PROVE m \in Work
    <3>1. /\ r.item.modem \in scope /\ results' = [results EXCEPT ![r.item.modem] = <<r.ok>>]
      BY <2>1, RecordsOnce
    <3>2. grouped
      BY <2>1 DEF RecordResult, Lifecycle, LoopPCs
    <3>3. m = r.item.modem \/ results'[m] = results[m]
      BY <3>1 DEF TypeOK
    <3>4. QED
      BY <1>2, <3>1, <3>2, <3>3 DEF AllAnswered, Work
  <2>2. CASE UNCHANGED results
    BY <1>2, <2>2 DEF AllAnswered
  <2>3. QED
    BY <2>1, <2>2, QuietSteps DEF Quiet, SaveTotal, Dispatch, Collect, HandleRetry
<1>3. QED
  BY <1>0, <1>1, <1>2 DEF AllAnswered

LEMMA TotalSetNext == IInv /\ [Next]_vars => TotalSet'
<1> SUFFICES ASSUME IInv, [Next]_vars, pc' \in LoopPCs \cup {"finish"}
             PROVE  mem'.total = Cardinality(Work)
  BY RequestKept DEF TotalSet
<1> USE DEF IInv
<1>1. CASE SaveTotal
  <2>1. grouped /\ mem'.total = Cardinality(scope)
    BY <1>1 DEF SaveTotal, Lifecycle, TypeOK, OpState
  <2>2. QED
    BY <2>1 DEF Work
<1>2. CASE StartEmpty
  <2>1. mem'.total = 0 /\ Work = {}
    BY <1>2 DEF StartEmpty, NothingDone, SetupPCs, Work
  <2>2. QED
    BY <2>1, FS_EmptySet
<1>3. ASSUME NEW r \in todo, RecordResult(r) PROVE mem'.total = Cardinality(Work)
  <2>1. pc \in LoopPCs /\ mem'.total = mem.total
    BY <1>3 DEF RecordResult, LoopPCs, TypeOK, OpState
  <2>2. QED
    BY <2>1 DEF TotalSet
<1>4. CASE mem' = mem /\ pc \in LoopPCs \cup {"finish"}
  BY <1>4 DEF TotalSet
<1>5. pc \in LoopPCs \cup {"finish"} \/ SaveTotal \/ StartEmpty
  BY Places DEF LoopEnds, Goto, LoopPCs
<1>6. QED
  BY <1>1, <1>2, <1>3, <1>4, <1>5, MemKept

\* A save makes the operation COMPLETED only at the runner's normal end.
LEMMA CompletedAtFinish ==
    ASSUME IInv, [Next]_vars, file'.state = "COMPLETED", file.state # "COMPLETED"
    PROVE  Finish
<1> USE DEF IInv, Lifecycle, LoopPCs, runner, clients
<1>0. \A s \in OpState : Save(s) => file' \in {file, s}
  BY SaveTyped DEF TypeOK
<1>1. CASE LoadState
  BY <1>1 DEF LoadState
<1>2. CASE StartRunning \/ StartEmpty \/ SaveCounters
  BY <1>2, <1>0 DEF StartRunning, StartEmpty, SaveCounters, TypeOK
<1>3. CASE SaveTotal
  BY <1>3 DEF SaveTotal, Save, TypeOK, OpState
<1>4. CASE LoopEnds \/ SeeCancel \/ SeeDeadline \/ IterationEnds \/ WriteRaises \/ Join \/ MarkRaises
  BY <1>4 DEF LoopEnds, SeeCancel, SeeDeadline, IterationEnds, WriteRaises, Join, MarkRaises, Goto
<1>5. CASE Dispatch \/ Collect
  BY <1>5 DEF Dispatch, Collect
<1>6. ASSUME NEW r \in todo, HandleRetry(r) \/ RecordResult(r) PROVE FALSE
  BY <1>6, <1>0 DEF HandleRetry, RecordResult, TypeOK
<1>7. CASE MarkCancelled \/ MarkFailed
  BY <1>7 DEF MarkCancelled, MarkFailed, MarkLoad
<1>8. CASE MarkSave
  BY <1>8, <1>0 DEF MarkSave, TypeOK
<1>9. ASSUME NEW c \in Client, ClientStep(c) PROVE FALSE
  <2>1. [seen[c] EXCEPT !.state = "CANCELLING"].state = "CANCELLING"
    BY DEF TypeOK, OpState
  <2>2. QED
    BY <2>1, <1>9 DEF ClientStep, CancelLoad, CancelTouch, CancelSave, Save
<1>10. ASSUME NEW i \in Item, WorkerEnds(i) PROVE FALSE
  BY <1>10 DEF WorkerEnds
<1>11. CASE DeadlinePasses \/ Crash \/ UNCHANGED vars
  BY <1>11 DEF DeadlinePasses, Crash, vars
<1>12. QED
  BY <1>1, <1>2, <1>3, <1>4, <1>5, <1>6, <1>7, <1>8, <1>9, <1>10, <1>11 DEF Next, RunnerStep

\* A state.json that has ended stays as it is.
LEMMA EndedSteps ==
    ASSUME IInv, [Next]_vars, file.state \in Terminal
    PROVE  file' = file
<1>1. pc \in {"done", "dead"}
  BY DEF IInv, Lifecycle
<1> USE <1>1 DEF LoopPCs
<1>2. ASSUME NEW c \in Client, ClientStep(c) PROVE file' = file
  <2>1. [seen[c] EXCEPT !.state = "CANCELLING"].state \notin Terminal
    BY DEF IInv, TypeOK, OpState, Terminal
  <2>2. QED
    BY <2>1, <1>2 DEF ClientStep, CancelLoad, CancelTouch, CancelSave, Save, CanReplaceState
<1>3. ASSUME NEW i \in Item, WorkerEnds(i) PROVE file' = file
  BY <1>3 DEF WorkerEnds
<1>4. CASE DeadlinePasses \/ Crash \/ UNCHANGED vars
  BY <1>4 DEF DeadlinePasses, Crash, vars
<1>5. CASE RunnerStep \/ WriteRaises \/ MarkRaises
  <2>1. ~(LoadState \/ StartRunning \/ StartEmpty \/ SaveTotal \/ Dispatch \/ Collect \/ SaveCounters \/ Finish \/ MarkSave)
    BY DEF LoadState, StartRunning, StartEmpty, SaveTotal, Dispatch, Collect, SaveCounters, Finish, MarkSave
  <2>2. ~(LoopEnds \/ SeeCancel \/ SeeDeadline \/ IterationEnds \/ WriteRaises \/ Join \/ MarkRaises \/ MarkCancelled \/ MarkFailed)
    BY DEF LoopEnds, SeeCancel, SeeDeadline, IterationEnds, WriteRaises, Join, MarkRaises, Goto, MarkCancelled, MarkFailed, MarkLoad
  <2>3. \A r \in todo : ~(HandleRetry(r) \/ RecordResult(r))
    BY DEF HandleRetry, RecordResult
  <2>4. QED
    BY <1>5, <2>1, <2>2, <2>3 DEF RunnerStep
<1>6. QED
  BY <1>2, <1>3, <1>4, <1>5 DEF Next

\* What the runner's normal end finds.
LEMMA FinishComplete ==
    ASSUME IInv, Finish, file'.state = "COMPLETED"
    PROVE  /\ UNCHANGED results
           /\ \A m \in Modem : results[m] = IF m \in Work THEN <<TRUE>> ELSE <<>>
           /\ file'.total = Cardinality(Work)
<1> USE DEF IInv
<1>1. pc = "finish" /\ UNCHANGED results /\ file.state \notin Terminal
  BY DEF Finish, Lifecycle
<1>2. mem' = [mem EXCEPT !.state = TerminalState] /\ file' = mem'
  BY <1>1 DEF Finish, Save, CanReplaceState
<1>3. TerminalState = "COMPLETED"
  BY <1>2 DEF TypeOK, OpState
<1>4. mem.failed = 0
  BY <1>3 DEF TerminalState, TypeOK, OpState
<1>5. \A m \in Modem :
        results[m] # <<FALSE>> /\ (m \in Work => results[m] # <<>>) /\ (results[m] # <<>> => m \in Work)
  BY <1>1, <1>4 DEF FailuresCounted, AllAnswered
<1>6. file'.total = Cardinality(Work)
  BY <1>1, <1>2 DEF TotalSet, TypeOK, OpState
<1>7. QED
  BY <1>1, <1>5, <1>6 DEF OneOutcome

LEMMA CompletedNext == IInv /\ [Next]_vars => CompletedMeansCaptured'
<1> SUFFICES ASSUME IInv, [Next]_vars, file'.state = "COMPLETED"
             PROVE  /\ \A m \in Modem : results'[m] = IF m \in Work THEN <<TRUE>> ELSE <<>>
                    /\ file'.total = Cardinality(Work)
  BY RequestKept DEF CompletedMeansCaptured
<1>1. CASE file.state = "COMPLETED"
  <2>1. pc \in {"done", "dead"}
    BY <1>1 DEF IInv, Lifecycle, Terminal
  <2>2. Quiet
    BY <2>1, QuietSteps DEF SaveTotal, Dispatch, Collect, HandleRetry, RecordResult
  <2>3. file' = file
    BY <1>1, EndedSteps DEF Terminal
  <2>4. QED
    BY <1>1, <2>2, <2>3 DEF IInv, CompletedMeansCaptured, Quiet
<1>2. CASE file.state # "COMPLETED"
  BY <1>2, CompletedAtFinish, FinishComplete
<1>3. QED
  BY <1>1, <1>2

LEMMA InductiveNext == IInv /\ [Next]_vars => IInv'
<1> SUFFICES ASSUME IInv, [Next]_vars PROVE IInv'
  OBVIOUS
<1>1. TypeOK /\ NothingDone /\ OneOutcome /\ Placed /\ Lifecycle
  BY DEF IInv
<1>2. TypeOK' /\ NothingDone' /\ OneOutcome' /\ Placed' /\ Lifecycle'
  BY <1>1, TypeCorrectNext, NothingDoneNext, OneOutcomeNext, PlacedNext, LifecycleNext
<1>3. FailuresCounted' /\ AllAnswered' /\ TotalSet' /\ CompletedMeansCaptured'
  BY FailuresCountedNext, AllAnsweredNext, TotalSetNext, CompletedNext
<1>4. QED
  BY <1>2, <1>3 DEF IInv

\* IInv: the runner's lists, the records and the counters agree wherever the
\* thread is, whatever requests, workers, failing writes and crashes do.
THEOREM InductiveInvariant == Spec => []IInv
  BY InitIInv, InductiveNext, PTL DEF Spec

\* CompletedMeansCaptured: a COMPLETED operation captured each modem once and counts them all, or
\* none, and counts none, for a request that came without a group.
THEOREM Completed == Spec => []CompletedMeansCaptured
<1>1. IInv => CompletedMeansCaptured
  BY DEF IInv
<1>2. QED
  BY <1>1, InductiveInvariant, PTL

-----------------------------------------------------------------------------
(* The state on disk, and the lifecycle of module Operation *)

\* TerminalSticks: no save of a stale state reopens or rewrites an operation
\* that has ended.
THEOREM TerminalStays == Spec => TerminalSticks
<1>1. IInv /\ [Next]_vars => [file.state \in Terminal => file' = file]_vars
  BY EndedSteps
<1>2. QED
  BY <1>1, InductiveInvariant, PTL DEF Spec, TerminalSticks

\* The steps that neither save nor record nor raise the flag.
LEMMA SavingSteps ==
    ASSUME [Next]_vars
    PROVE  \/ UNCHANGED <<scope, grouped, file, flag, results>>
           \/ StartRunning \/ StartEmpty \/ SaveTotal \/ SaveCounters
           \/ Finish \/ MarkSave
           \/ \E r \in todo : HandleRetry(r) \/ RecordResult(r)
           \/ \E c \in Client : CancelTouch(c) \/ CancelSave(c)
<1> DEFINE Stutter == UNCHANGED <<scope, grouped, file, flag, results>>
<1> USE DEF runner, clients
<1>1. ASSUME LoadState \/ Dispatch \/ Collect PROVE Stutter
  BY <1>1 DEF LoadState, Dispatch, Collect
<1>2. ASSUME LoopEnds \/ SeeCancel \/ SeeDeadline \/ IterationEnds \/ WriteRaises \/ Join \/ MarkRaises PROVE Stutter
  BY <1>2 DEF LoopEnds, SeeCancel, SeeDeadline, IterationEnds, WriteRaises, Join, MarkRaises, Goto
<1>3. ASSUME MarkCancelled \/ MarkFailed PROVE Stutter
  BY <1>3 DEF MarkCancelled, MarkFailed, MarkLoad
<1>4. ASSUME NEW c \in Client, CancelLoad(c) PROVE Stutter
  BY <1>4 DEF CancelLoad
<1>5. ASSUME NEW i \in Item, WorkerEnds(i) PROVE Stutter
  BY <1>5 DEF WorkerEnds
<1>6. ASSUME DeadlinePasses \/ Crash \/ UNCHANGED vars PROVE Stutter
  BY <1>6 DEF DeadlinePasses, Crash, vars
<1>7. QED
  BY <1>1, <1>2, <1>3, <1>4, <1>5, <1>6 DEF Next, RunnerStep, ClientStep

LEMMA InitRefines == Init => Abstract!Init
<1>1. ASSUME Init PROVE Outcome = [m \in Modem |-> "none"]
  BY <1>1 DEF Init, Outcome
<1>2. ASSUME Init PROVE scope \in SUBSET Modem /\ grouped \in BOOLEAN /\ file.state = "QUEUED" /\ flag = FALSE
  BY <1>2 DEF Init
<1>3. QED
  BY <1>1, <1>2 DEF Abstract!Init

LEMMA StepRefines ==
    ASSUME IInv, [Next]_vars
    PROVE  [Abstract!Next]_<<scope, grouped, file.state, flag, Outcome>>
<1> USE DEF Abstract!Terminal, Terminal, LoopPCs
<1>0. UNCHANGED results => Outcome' = Outcome
  BY DEF Outcome
<1>1. TypeOK /\ Placed /\ Lifecycle
  BY DEF IInv
<1>2. CASE UNCHANGED <<scope, grouped, file, flag, results>>
  BY <1>0, <1>2
<1>3. ASSUME NEW s \in OpState, Save(s), s.state = "RUNNING", pc \notin {"done", "dead"},
             UNCHANGED <<scope, grouped, flag, results>>
      PROVE  Abstract!Next
  <2>1. file.state \notin Terminal /\ file' = s
    BY <1>1, <1>3, SaveTyped DEF Lifecycle, TypeOK
  <2>2. QED
    BY <2>1, <1>0, <1>3 DEF Abstract!Next, Abstract!Run
<1>4. CASE StartRunning \/ StartEmpty \/ SaveCounters
  BY <1>1, <1>3, <1>4 DEF StartRunning, StartEmpty, SaveCounters, Lifecycle, TypeOK
<1>5. CASE SaveTotal
  <2>1. mem' \in OpState /\ mem'.state = "RUNNING"
    BY <1>1, <1>5, ScopeSize DEF SaveTotal, Lifecycle, TypeOK, OpState
  <2>2. file.state \notin Terminal /\ file' = mem' /\ UNCHANGED <<scope, grouped, flag, results>>
    BY <1>1, <1>5, <2>1 DEF SaveTotal, Save, CanReplaceState, Lifecycle
  <2>3. QED
    BY <2>1, <2>2, <1>0 DEF Abstract!Next, Abstract!Run
<1>6. ASSUME NEW r \in todo, HandleRetry(r) PROVE Abstract!Next
  BY <1>1, <1>3, <1>6 DEF HandleRetry, Lifecycle, TypeOK
<1>7. ASSUME NEW r \in todo, RecordResult(r) PROVE Abstract!Next
  <2> DEFINE m == r.item.modem
  <2>1. /\ m \in scope /\ m \in Modem /\ r.ok \in BOOLEAN /\ results[m] = <<>>
        /\ results' = [results EXCEPT ![m] = <<r.ok>>]
    BY <1>1, <1>7, RecordsOnce
  <2>2. Outcome[m] = "none"
    BY <2>1 DEF Outcome
  <2>3. Outcome' = [Outcome EXCEPT ![m] = IF r.ok THEN "ok" ELSE "bad"]
    BY <2>1, <1>1 DEF Outcome, TypeOK
  <2>4. UNCHANGED <<scope, grouped, file, flag>> /\ grouped /\ file.state \notin Terminal
    BY <1>1, <1>7 DEF RecordResult, Lifecycle
  <2>5. QED
    BY <2>1, <2>2, <2>3, <2>4 DEF Abstract!Next, Abstract!Answer, Abstract!Asked
<1>8. CASE Finish
  <2>1. UNCHANGED <<scope, grouped, flag, results>> /\ file.state \notin Terminal
    BY <1>1, <1>8 DEF Finish, Lifecycle
  <2>2. file'.state \in {"COMPLETED", "FAILED"}
    BY <1>1, <2>1, <1>8 DEF Finish, Save, CanReplaceState, TerminalState, TypeOK, OpState
  <2>3. file'.state = "COMPLETED" => \A m \in Abstract!Asked : Outcome[m] = "ok"
    <3>1. ASSUME file'.state = "COMPLETED", NEW m \in Abstract!Asked PROVE Outcome[m] = "ok"
      <4>1. m \in Modem /\ results[m] = <<TRUE>>
        BY <1>1, <1>8, <3>1, FinishComplete DEF TypeOK, Work, Abstract!Asked
      <4>2. results[m] # <<>> /\ results[m][1] = TRUE
        BY <4>1
      <4>3. QED
        BY <4>1, <4>2 DEF Outcome
    <3>2. QED
      BY <3>1
  <2>4. QED
    BY <2>1, <2>2, <2>3, <1>0 DEF Abstract!Next, Abstract!End
<1>9. CASE MarkSave
  <2>1. UNCHANGED <<scope, grouped, flag, results>> /\ file.state \notin Terminal
    BY <1>1, <1>9 DEF MarkSave, Lifecycle
  <2>2. mem.state = "FAILED" \/ (mem.state = "CANCELLED" /\ flag)
    BY <1>1, <1>9 DEF MarkSave, Lifecycle
  <2>3. file' = mem
    BY <2>1, <1>9 DEF MarkSave, Save, CanReplaceState
  <2>4. QED
    BY <2>1, <2>2, <2>3, <1>0 DEF Abstract!Next, Abstract!End
<1>10. ASSUME NEW c \in Client, CancelTouch(c) PROVE Abstract!Next
  BY <1>0, <1>10 DEF CancelTouch, Abstract!Next, Abstract!Request
<1>11. ASSUME NEW c \in Client, CancelSave(c)
       PROVE  [Abstract!Next]_<<scope, grouped, file.state, flag, Outcome>>
  <2>1. UNCHANGED <<scope, grouped, flag, results>> /\ flag
    BY <1>1, <1>11 DEF CancelSave, Lifecycle
  <2>2. CASE file.state \in Terminal
    BY <2>1, <2>2, <1>0, EndedSteps
  <2>3. CASE file.state \notin Terminal
    <3>1. file'.state = "CANCELLING"
      BY <2>3, <1>1, <1>11 DEF CancelSave, Save, CanReplaceState, TypeOK, OpState
    <3>2. QED
      BY <2>1, <2>3, <3>1, <1>0 DEF Abstract!Next, Abstract!Cancelling
  <2>4. QED
    BY <2>2, <2>3
<1>12. QED
  BY <1>2, <1>4, <1>5, <1>6, <1>7, <1>8, <1>9, <1>10, <1>11, SavingSteps

\* OperationSpec: the store and the runner implement the lifecycle of module
\* Operation, failing writes, stale cancel requests and crashes included.
THEOREM ImplementsOperation == Spec => OperationSpec
<1>1. IInv /\ [Next]_vars => [Abstract!Next]_<<scope, grouped, file.state, flag, Outcome>>
  BY StepRefines
<1>2. QED
  BY InductiveInvariant, InitRefines, <1>1, PTL DEF Spec, OperationSpec, Abstract!Spec

-----------------------------------------------------------------------------
(* The thread pool *)

LEMMA ItemsFinite == IsFiniteSet(Item)
<1> DEFINE pairs == Modem \X (0 .. RetryCount)
           f == [p \in pairs |-> [modem |-> p[1], attempt |-> p[2]]]
<1>1. IsFiniteSet(0 .. RetryCount)
  BY RetryCountAssumption, FS_Interval
<1>2. IsFiniteSet(pairs)
  BY <1>1, ModemAssumption, FS_Product
<1>3. f \in [pairs -> Item]
  BY DEF Item
<1>4. \A i \in Item : <<i.modem, i.attempt>> \in pairs /\ f[<<i.modem, i.attempt>>] = i
  BY DEF Item
<1>5. f \in Surjection(pairs, Item)
  <2> HIDE DEF f, pairs
  <2>1. QED
    BY <1>3, <1>4 DEF Surjection
<1>6. QED
  <2> HIDE DEF f, pairs
  <2>1. QED
    BY <1>2, <1>5, FS_Surjection

\* What runs in the pool is in the lists, and the lists are no longer than the pool.
Pool == Running \subseteq InFlight /\ Cardinality(InFlight) <= MaxWorkers

\* The steps that reach the pool.
LEMMA PoolSteps ==
    ASSUME [Next]_vars
    PROVE  \/ UNCHANGED <<pending, abandoned, future>>
           \/ Dispatch \/ Collect
           \/ \E i \in Item : WorkerEnds(i)
<1> USE DEF runner
<1>1. ASSUME LoadState \/ StartRunning \/ StartEmpty \/ SaveTotal \/ SaveCounters \/ Finish \/ MarkSave
      PROVE  UNCHANGED <<pending, abandoned, future>>
  BY <1>1 DEF LoadState, StartRunning, StartEmpty, SaveTotal, SaveCounters, Finish, MarkSave
<1>2. ASSUME LoopEnds \/ SeeCancel \/ SeeDeadline \/ IterationEnds \/ WriteRaises \/ Join \/ MarkRaises
      PROVE  UNCHANGED <<pending, abandoned, future>>
  BY <1>2 DEF LoopEnds, SeeCancel, SeeDeadline, IterationEnds, WriteRaises, Join, MarkRaises, Goto
<1>3. ASSUME MarkCancelled \/ MarkFailed PROVE UNCHANGED <<pending, abandoned, future>>
  BY <1>3 DEF MarkCancelled, MarkFailed, MarkLoad
<1>4. ASSUME NEW r \in todo, HandleRetry(r) \/ RecordResult(r)
      PROVE  UNCHANGED <<pending, abandoned, future>>
  BY <1>4 DEF HandleRetry, RecordResult
<1>5. ASSUME NEW c \in Client, ClientStep(c) PROVE UNCHANGED <<pending, abandoned, future>>
  BY <1>5 DEF ClientStep, CancelLoad, CancelTouch, CancelSave
<1>6. ASSUME DeadlinePasses \/ Crash \/ UNCHANGED vars PROVE UNCHANGED <<pending, abandoned, future>>
  BY <1>6 DEF DeadlinePasses, Crash, vars
<1>7. QED
  BY <1>1, <1>2, <1>3, <1>4, <1>5, <1>6 DEF Next, RunnerStep

LEMMA PoolInit == Init => Pool
<1> SUFFICES ASSUME Init PROVE Pool
  OBVIOUS
<1>1. InFlight = {} /\ Running = {}
  BY DEF Init, InFlight, Running
<1>2. QED
  BY <1>1, FS_EmptySet, MaxWorkersAssumption DEF Pool

LEMMA PoolNext == TypeOK /\ Pool /\ [Next]_vars => Pool'
<1> SUFFICES ASSUME TypeOK, Pool, [Next]_vars PROVE Pool'
  OBVIOUS
<1>1. IsFiniteSet(InFlight) /\ Cardinality(InFlight) \in Nat
  <2>1. InFlight \subseteq Item
    BY DEF InFlight, TypeOK
  <2>2. QED
    BY <2>1, ItemsFinite, FS_Subset, FS_CardinalityType
<1>2. CASE UNCHANGED <<pending, abandoned, future>>
  BY <1>2 DEF Pool, Running, InFlight
<1>3. CASE \E i \in Item : WorkerEnds(i)
  <2>1. InFlight' = InFlight /\ Running' \subseteq Running
    BY <1>3 DEF WorkerEnds, runner, InFlight, Running, TypeOK
  <2>2. QED
    BY <2>1 DEF Pool
<1>4. CASE Collect
  <2>1. InFlight' \subseteq InFlight /\ Running' \subseteq InFlight'
    <3>1. PICK timedOut \in SUBSET {i \in pending : ~Finished(i)} :
            /\ pending' = pending \ (timedOut \cup {i \in InFlight : Finished(i)})
            /\ abandoned' = (abandoned \cup timedOut) \ {i \in InFlight : Finished(i)}
      BY <1>4 DEF Collect
    <3>2. InFlight' \subseteq InFlight
      BY <3>1 DEF InFlight
    <3>3. \A i \in Running : ~Finished(i) /\ i \in InFlight
      BY DEF Pool, Running, Finished
    <3>4. Running' = Running
      BY <1>4 DEF Collect, Running
    <3>5. QED
      BY <3>1, <3>2, <3>3, <3>4 DEF InFlight
  <2>2. Cardinality(InFlight') <= Cardinality(InFlight) /\ Cardinality(InFlight') \in Nat
    BY <2>1, <1>1, FS_Subset, FS_CardinalityType
  <2>3. QED
    BY <1>1, <2>1, <2>2, MaxWorkersAssumption DEF Pool
<1>5. CASE Dispatch
  <2>1. PICK ready \in SUBSET retry, batch \in SUBSET (queue \cup retry) :
          /\ batch \subseteq queue \cup ready
          /\ Cardinality(batch) =
               (IF Cardinality(queue \cup ready) <= MaxWorkers - Cardinality(InFlight)
                THEN Cardinality(queue \cup ready)
                ELSE IF MaxWorkers - Cardinality(InFlight) > 0
                     THEN MaxWorkers - Cardinality(InFlight) ELSE 0)
          /\ pending' = pending \cup batch
          /\ future' = [i \in Item |-> IF i \in batch THEN "running" ELSE future[i]]
    BY <1>5 DEF Dispatch
  <2>2. abandoned' = abandoned
    BY <1>5 DEF Dispatch
  <2>3. InFlight' = InFlight \cup batch
    BY <2>1, <2>2 DEF InFlight
  <2>4. Running' \subseteq Running \cup batch
    BY <2>1 DEF Running
  <2>5. IsFiniteSet(batch) /\ Cardinality(batch) \in Nat
    <3>1. batch \subseteq Item
      BY <2>1 DEF TypeOK
    <3>2. QED
      BY <3>1, ItemsFinite, FS_Subset, FS_CardinalityType
  <2>6. Cardinality(batch) <= MaxWorkers - Cardinality(InFlight)
    BY <2>1, <1>1, MaxWorkersAssumption DEF Pool
  <2>7. /\ Cardinality(InFlight') =
             Cardinality(InFlight) + Cardinality(batch) - Cardinality(InFlight \cap batch)
        /\ Cardinality(InFlight \cap batch) \in Nat
    <3>1. IsFiniteSet(InFlight \cap batch)
      BY <1>1, FS_Subset
    <3>2. QED
      BY <1>1, <2>3, <2>5, <3>1, FS_Union, FS_CardinalityType
  <2>8. Cardinality(InFlight') <= MaxWorkers
    BY <1>1, <2>5, <2>6, <2>7, MaxWorkersAssumption
  <2>9. QED
    BY <2>3, <2>4, <2>8 DEF Pool
<1>6. QED
  BY <1>2, <1>3, <1>4, <1>5, PoolSteps

\* InFlightBounded: the loop counts abandoned attempts as well and submits no more than there
\* are threads left, so no submitted attempt waits behind a hung one.
THEOREM PoolIsBounded == Spec => []InFlightBounded
<1>1. TypeOK /\ Pool => InFlightBounded
  <2> SUFFICES ASSUME TypeOK, Pool PROVE InFlightBounded
    OBVIOUS
  <2>1. InFlight \subseteq Item
    BY DEF InFlight, TypeOK
  <2>2. IsFiniteSet(InFlight) /\ Cardinality(InFlight) \in Nat
    BY <2>1, ItemsFinite, FS_Subset, FS_CardinalityType
  <2>3. Cardinality(Running) <= Cardinality(InFlight) /\ Cardinality(Running) \in Nat
    BY <2>2, FS_Subset, FS_CardinalityType DEF Pool
  <2>4. QED
    BY <2>2, <2>3, MaxWorkersAssumption DEF Pool, InFlightBounded
<1>2. QED
  BY <1>1, TypeCorrect, PoolInit, PoolNext, PTL DEF Spec

-----------------------------------------------------------------------------
(* Every modem is accounted for *)

\* What Placed leaves open: the lists are empty at the end.
Settled == pc = "finish" => queue = {} /\ retry = {} /\ pending = {} /\ todo = {}

LEMMA SettledInit == Init => Settled
BY DEF Init, Settled

LEMMA SettledNext == IInv /\ Settled /\ [Next]_vars => Settled'
<1> SUFFICES ASSUME IInv, Settled, [Next]_vars PROVE Settled'
  OBVIOUS
<1> USE DEF IInv
<1>1. ASSUME pc' = "finish" PROVE queue' = {} /\ retry' = {} /\ pending' = {} /\ todo' = {}
  <2>1. CASE pc = "finish"
    <3>1. Quiet
      BY <2>1, QuietSteps DEF SaveTotal, Dispatch, Collect, HandleRetry, RecordResult
    <3>2. QED
      BY <2>1, <3>1 DEF Quiet, Settled
  <2>2. CASE LoopEnds
    <3>1. pc = "check" /\ todo = {}
      BY <2>2 DEF LoopEnds, Goto, Placed, LoopPCs
    <3>2. QED
      BY <2>2, <3>1 DEF LoopEnds, Goto, WorkLeft
  <2>3. CASE StartEmpty
    BY <2>3 DEF StartEmpty, NothingDone, SetupPCs
  <2>4. QED
    BY <1>1, <2>1, <2>2, <2>3, Places
<1>2. QED
  BY <1>1 DEF Settled

\* Counting what Placed, OneOutcome and Settled say of one modem.
LEMMA OnePlace ==
    ASSUME IInv, Settled, pc \in LoopPCs \cup {"finish"}, NEW m \in Modem
    PROVE  Cardinality({i \in Open : i.modem = m}) + Len(results[m]) = IF m \in Work THEN 1 ELSE 0
<1> DEFINE S == {i \in Open : i.modem = m}
<1>0. results[m] \in {<<>>, <<TRUE>>, <<FALSE>>} /\ (results[m] # <<>> => m \in Work)
  BY DEF IInv, OneOutcome, AllAnswered
<1>1. pc = "finish" => S = {}
  BY DEF Settled, Open, Taken
<1>2. m \notin Work => S = {}
  BY <1>1 DEF IInv, Placed, Work, Lifecycle
<1>3. results[m] # <<>> => S = {}
  BY <1>1 DEF IInv, Placed
<1>4. results[m] = <<>> /\ m \in Work => \E i \in Open : S = {i}
  <2> SUFFICES ASSUME results[m] = <<>>, m \in Work PROVE \E i \in Open : S = {i}
    OBVIOUS
  <2>1. pc \in LoopPCs
    BY DEF IInv, AllAnswered
  <2>2. PICK i \in Open : i.modem = m
    BY <2>1 DEF IInv, Placed, Work
  <2>3. \A j \in Open : j.modem = m => j = i
    BY <2>1, <2>2 DEF IInv, Placed
  <2>4. QED
    BY <2>2, <2>3
<1>5. Len(results[m]) = IF results[m] = <<>> THEN 0 ELSE 1
  <2>1. Len(<<>>) = 0 /\ Len(<<TRUE>>) = 1 /\ Len(<<FALSE>>) = 1
    OBVIOUS
  <2>2. <<TRUE>> # <<>> /\ <<FALSE>> # <<>>
    OBVIOUS
  <2>3. QED
    BY <1>0, <2>1, <2>2
<1>6. Cardinality(S) = IF results[m] = <<>> /\ m \in Work THEN 1 ELSE 0
  <2> HIDE DEF S
  <2>1. QED
    BY <1>0, <1>2, <1>3, <1>4, FS_EmptySet, FS_Singleton
<1>7. QED
  <2> HIDE DEF S
  <2>1. Cardinality(S) + Len(results[m]) = IF m \in Work THEN 1 ELSE 0
    BY <1>0, <1>5, <1>6
  <2>2. QED
    BY <2>1 DEF S

\* AccountedFor: timeouts, retries and late answers neither lose nor double a modem.
THEOREM Accounted == Spec => []AccountedFor
<1>1. IInv /\ Settled => AccountedFor
  <2> SUFFICES ASSUME IInv, Settled, pc \in LoopPCs \cup {"finish"}
               PROVE  /\ queue \cap retry = {} /\ pending \cap (queue \cup retry) = {}
                      /\ Taken \cap (queue \cup retry \cup pending) = {}
    BY OnePlace DEF AccountedFor
  <2>1. CASE pc \in LoopPCs
    BY <2>1 DEF IInv, Placed
  <2>2. CASE pc = "finish"
    BY <2>2 DEF Settled, Taken
  <2>3. QED
    BY <2>1, <2>2
<1>2. QED
  BY <1>1, InductiveInvariant, SettledInit, SettledNext, PTL DEF Spec

-----------------------------------------------------------------------------
(* The counters *)

\* A state that claims no more outcomes than there are on disk.
Covered(s, ok, bad) == s.success <= ok /\ s.failed <= bad
Backed ==
    LET ok == Cardinality(Recorded(TRUE))
        bad == Cardinality(Recorded(FALSE))
    IN  Covered(file, ok, bad) /\ Covered(mem, ok, bad) /\ \A c \in Client : Covered(seen[c], ok, bad)

LEMMA RecordedFinite ==
    \A ok \in BOOLEAN : IsFiniteSet(Recorded(ok)) /\ Cardinality(Recorded(ok)) \in Nat
<1>1. \A ok \in BOOLEAN : Recorded(ok) \in SUBSET Modem
  BY DEF Recorded
<1>2. QED
  BY <1>1, ModemAssumption, FS_Subset, FS_CardinalityType

LEMMA BackedInit == Init => Backed
<1> SUFFICES ASSUME Init PROVE Backed
  OBVIOUS
<1>1. Cardinality(Recorded(TRUE)) \in Nat /\ Cardinality(Recorded(FALSE)) \in Nat
  BY RecordedFinite
<1>2. /\ file.success = 0 /\ file.failed = 0 /\ mem = file
      /\ \A c \in Client : seen[c] = file
  BY DEF Init
<1> DEFINE ok == Cardinality(Recorded(TRUE))
           bad == Cardinality(Recorded(FALSE))
<1>3. ok \in Nat /\ bad \in Nat
  BY <1>1
<1> HIDE DEF ok, bad
<1>4. /\ Covered(file, ok, bad) /\ Covered(mem, ok, bad)
      /\ \A c \in Client : Covered(seen[c], ok, bad)
  BY <1>2, <1>3 DEF Covered
<1>5. QED
  BY <1>4 DEF Backed, ok, bad

\* The counters of a state are those of a state that was there before, but for a new record.
Counts(s) == <<s.success, s.failed>>
LEMMA CountsMove ==
    ASSUME TypeOK, [Next]_vars, ~\E r \in todo : RecordResult(r)
    PROVE  LET old == {Counts(file), Counts(mem)} \cup {Counts(seen[c]) : c \in Client}
           IN  /\ Counts(file') \in old /\ Counts(mem') \in old
               /\ \A c \in Client : Counts(seen'[c]) \in old
               /\ results' = results
<1> DEFINE old == {Counts(file), Counts(mem)} \cup {Counts(seen[c]) : c \in Client}
           Kept == /\ Counts(file') \in old /\ Counts(mem') \in old
                   /\ \A c \in Client : Counts(seen'[c]) \in old
<1> SUFFICES Kept /\ results' = results
  OBVIOUS
<1> USE DEF Counts, runner, clients
<1>0. /\ \A s \in OpState, t \in States : Counts([s EXCEPT !.state = t]) = Counts(s)
      /\ \A s \in OpState, n \in Nat : Counts([s EXCEPT !.total = n]) = Counts(s)
      /\ file \in OpState /\ mem \in OpState /\ \A c \in Client : seen[c] \in OpState
  BY DEF OpState, TypeOK
<1>1. results' = results
  BY QuietSteps DEF Quiet, SaveTotal, Dispatch, Collect, HandleRetry
<1>2. ASSUME LoadState PROVE Kept
  BY <1>2, <1>0 DEF LoadState, States
<1>3. ASSUME StartRunning \/ StartEmpty \/ SaveCounters \/ MarkSave PROVE Kept
  BY <1>3 DEF StartRunning, StartEmpty, SaveCounters, MarkSave, Save
<1>4. ASSUME SaveTotal PROVE Kept
  BY <1>4, <1>0, ScopeSize DEF SaveTotal, Save
<1>5. ASSUME LoopEnds \/ SeeCancel \/ SeeDeadline \/ IterationEnds \/ WriteRaises \/ Join \/ MarkRaises PROVE Kept
  BY <1>5 DEF LoopEnds, SeeCancel, SeeDeadline, IterationEnds, WriteRaises, Join, MarkRaises, Goto
<1>6. ASSUME Dispatch \/ Collect PROVE Kept
  BY <1>6 DEF Dispatch, Collect
<1>7. ASSUME NEW r \in todo, HandleRetry(r)
      PROVE  Kept
  BY <1>7 DEF HandleRetry, Save
<1>8. ASSUME Finish PROVE Kept
  <2>1. TerminalState \in States
    BY DEF TerminalState, States, Terminal
  <2>2. Counts(mem') = Counts(mem) /\ seen' = seen
    BY <1>8, <2>1, <1>0 DEF Finish
  <2>3. file' \in {file, mem'}
    BY <1>8 DEF Finish, Save
  <2>4. QED
    BY <1>1, <2>2, <2>3
<1>9. ASSUME MarkCancelled \/ MarkFailed PROVE Kept
  <2>1. \E t \in States : mem' = [file EXCEPT !.state = t]
    BY <1>9 DEF MarkCancelled, MarkFailed, MarkLoad, States, Terminal
  <2>2. UNCHANGED <<file, seen>>
    BY <1>9 DEF MarkCancelled, MarkFailed, MarkLoad
  <2>3. Counts(mem') = Counts(file)
    BY <2>1, <1>0
  <2>4. QED
    BY <2>2, <2>3
<1>10. ASSUME NEW c \in Client, CancelLoad(c) \/ CancelTouch(c)
       PROVE  Kept
  BY <1>10 DEF CancelLoad, CancelTouch, TypeOK
<1>11. ASSUME NEW c \in Client, CancelSave(c)
       PROVE  Kept
  BY <1>11, <1>0 DEF CancelSave, Save, States
<1>12. ASSUME NEW i \in Item, WorkerEnds(i) PROVE Kept
  BY <1>12 DEF WorkerEnds
<1>13. ASSUME DeadlinePasses \/ Crash \/ UNCHANGED vars PROVE Kept
  BY <1>13 DEF DeadlinePasses, Crash, vars
<1>14. ASSUME RunnerStep PROVE Kept
  <2>1. ASSUME \E r \in todo : HandleRetry(r) \/ RecordResult(r) PROVE Kept
    <3>1. PICK r \in todo : HandleRetry(r) \/ RecordResult(r)
      BY <2>1
    <3>2. HandleRetry(r)
      BY <3>1
    <3> HIDE DEF Kept
    <3>3. QED
      BY <3>2, <1>7
  <2> HIDE DEF Kept
  <2>2. QED
    BY <1>14, <1>2, <1>3, <1>4, <1>5, <1>6, <1>8, <1>9, <2>1 DEF RunnerStep
<1>15. ASSUME \E c \in Client : ClientStep(c) PROVE Kept
  <2>1. PICK c \in Client : ClientStep(c)
    BY <1>15
  <2> HIDE DEF Kept
  <2>2. QED
    BY <2>1, <1>10, <1>11 DEF ClientStep
<1>16. Kept
  <2> HIDE DEF Kept
  <2>1. QED
    BY <1>5, <1>12, <1>13, <1>14, <1>15 DEF Next
<1>17. QED
  BY <1>16, <1>1

LEMMA BackedNext == IInv /\ Backed /\ [Next]_vars => Backed'
<1> SUFFICES ASSUME IInv, Backed, [Next]_vars PROVE Backed'
  OBVIOUS
<1> DEFINE ok == Cardinality(Recorded(TRUE))
           bad == Cardinality(Recorded(FALSE))
<1>0. ok \in Nat /\ bad \in Nat
  BY RecordedFinite
<1>1. CASE \E r \in todo : RecordResult(r)
  <2>1. PICK r \in todo : RecordResult(r)
    BY <1>1
  <2> DEFINE m == r.item.modem
  <2>2. /\ m \in Modem /\ r.ok \in BOOLEAN /\ results[m] = <<>>
        /\ results' = [results EXCEPT ![m] = <<r.ok>>]
    BY <2>1, RecordsOnce DEF IInv
  <2>3. \A b \in BOOLEAN : Recorded(b)' = IF b = r.ok THEN Recorded(b) \cup {m} ELSE Recorded(b)
    <3>1. \A n \in Modem : n # m => results'[n] = results[n]
      BY <2>2 DEF IInv, TypeOK
    <3>2. results'[m] = <<r.ok>>
      BY <2>2 DEF IInv, TypeOK
    <3>3. \A b \in BOOLEAN, n \in Modem :
            n \in Recorded(b)' <=> IF n = m THEN b = r.ok ELSE n \in Recorded(b)
      BY <3>1, <3>2 DEF Recorded
    <3>4. \A b \in BOOLEAN : m \notin Recorded(b)
      BY <2>2 DEF Recorded
    <3>5. \A b \in BOOLEAN : Recorded(b)' \subseteq Modem /\ Recorded(b) \subseteq Modem
      BY DEF Recorded
    <3>6. QED
      BY <2>2, <3>3, <3>4, <3>5
  <2>4. \A b \in BOOLEAN : m \notin Recorded(b)
    BY <2>2 DEF Recorded
  <2>5. ok' = (IF r.ok THEN ok + 1 ELSE ok) /\ bad' = (IF r.ok THEN bad ELSE bad + 1)
    <3>1. \A b \in BOOLEAN : Cardinality(Recorded(b) \cup {m}) = Cardinality(Recorded(b)) + 1
      BY <2>4, RecordedFinite, FS_AddElement
    <3>2. QED
      BY <2>2, <2>3, <3>1
  <2>6. /\ UNCHANGED <<file, seen>>
        /\ mem' = IF r.ok THEN [mem EXCEPT !.success = @ + 1] ELSE [mem EXCEPT !.failed = @ + 1]
    BY <2>1 DEF RecordResult, clients
  <2>7. /\ file \in OpState /\ mem \in OpState /\ \A c \in Client : seen[c] \in OpState
    BY DEF IInv, TypeOK
  <2>8. Covered(file, ok, bad) /\ Covered(mem, ok, bad) /\ \A c \in Client : Covered(seen[c], ok, bad)
    BY DEF Backed
  <2> HIDE DEF ok, bad, m
  <2>9. /\ Covered(file', ok', bad') /\ Covered(mem', ok', bad')
        /\ \A c \in Client : Covered(seen'[c], ok', bad')
    BY <1>0, <2>2, <2>5, <2>6, <2>7, <2>8 DEF Covered, OpState
  <2>10. QED
    BY <2>9 DEF Backed, ok, bad
<1>2. CASE ~\E r \in todo : RecordResult(r)
  <2> DEFINE old == {Counts(file), Counts(mem)} \cup {Counts(seen[c]) : c \in Client}
  <2>1. /\ Counts(file') \in old /\ Counts(mem') \in old
        /\ \A c \in Client : Counts(seen'[c]) \in old
        /\ results' = results
    BY <1>2, CountsMove DEF IInv
  <2>2. ok' = ok /\ bad' = bad
    BY <2>1 DEF Recorded
  <2>3. \A p \in old : p[1] <= ok /\ p[2] <= bad
    <3>1. \A s : Covered(s, ok, bad) => Counts(s)[1] <= ok /\ Counts(s)[2] <= bad
      BY DEF Covered, Counts
    <3>2. /\ Covered(file, ok, bad) /\ Covered(mem, ok, bad)
          /\ \A c \in Client : Covered(seen[c], ok, bad)
      BY DEF Backed
    <3> HIDE DEF ok, bad
    <3>3. QED
      BY <3>1, <3>2
  <2> HIDE DEF ok, bad, old
  <2>4. /\ Covered(file', ok', bad') /\ Covered(mem', ok', bad')
        /\ \A c \in Client : Covered(seen'[c], ok', bad')
    BY <2>1, <2>2, <2>3 DEF Covered, Counts
  <2>5. QED
    BY <2>4 DEF Backed, ok, bad
<1>3. QED
  BY <1>1, <1>2

\* CountersNeverAhead: whatever older state a cancel request writes back, the counters a client
\* polls are covered by records on disk.
THEOREM CountersBacked == Spec => []CountersNeverAhead
<1>1. Backed => CountersNeverAhead
  BY DEF Backed, Covered, CountersNeverAhead
<1>2. QED
  BY <1>1, InductiveInvariant, BackedInit, BackedNext, PTL DEF Spec

=============================================================================
