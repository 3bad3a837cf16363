----------------------- MODULE GroupRequestsProofs -----------------------
(* Proofs about GroupRequests, for any groups, modems, tables, requests and bounds. *)
EXTENDS GroupRequests, TLAPS, FiniteSetTheorems

\* The steps in groups, by the part of the state they touch.
Background == StartupPublishes \/ StartupFails \/ StartCycle \/ PollEnds \/ GuardRestarts
              \/ \E sg \in ServiceGroups : Turn(sg)
Asking ==
    \/ Receive \/ ReadStatus \/ ReadStore \/ ReadManager \/ BaselineRead \/ RefreshRequested
    \/ RefreshQueued \/ WaitEnds \/ ScopeRead \/ Answer
    \/ \E sg \in ServiceGroups : ReadBaseline(sg) \/ RequestRefresh(sg) \/ ReadScope(sg)

LEMMA Steps ==
    ASSUME [Next]_vars
    PROVE  \/ pc # "answered" /\ (Background \/ \E m \in Modems : LinkChanges(m))
           \/ Asking
           \/ \E sg \in ServiceGroups : ReadGroup(sg) \/ Job(sg)
           \/ UNCHANGED vars
BY DEF Next, Around, Poll, Serve, Done, Background, Asking

-----------------------------------------------------------------------------
(* Types *)

Entry == [time : Nat, heavy : BOOLEAN, rows : Tables \union {NoEntry.rows}]
Loops == [state : {"off", "cycle", "poll"}, gen : Stores, todo : SUBSET ServiceGroups,
          cur : SUBSET ServiceGroups, mode : {"none", "light", "heavy"}]
Works == [state : {"idle", "run", "done", "missing"}, todo : SUBSET Modems, ip : SUBSET Modems,
          cur : SUBSET Modems, pings : Nat, count : Nat, ok : SUBSET Modems, bad : SUBSET Modems]

\* The types the proofs need; what a request collects is left open.
Types ==
    /\ store \in Nat /\ store <= MaxRestarts + 1
    /\ epoch \in Nat /\ loop \in Loops
    /\ cache \in [Stores -> [ServiceGroups -> Entry]]
    /\ \A g \in Stores, sg \in ServiceGroups : cache[g][sg].time <= epoch
    /\ link \subseteq Modems
    /\ todo \subseteq ServiceGroups
    /\ DOMAIN work = ServiceGroups

LEMMA ModemCount == \A ms \in SUBSET Modems : Cardinality(ms) \in Nat
BY BoundsAssumption, FS_Subset, FS_CardinalityType

LEMMA GroupsExist == Groups \subseteq ServiceGroups
BY DEF Groups, Resolve

LEMMA TypesInit == Init => Types
<1> SUFFICES ASSUME Init PROVE Types
  OBVIOUS
<1>1. NoEntry \in Entry /\ NoEntry.time = 0 /\ 1 \in Stores
  BY BoundsAssumption DEF NoEntry, Entry, Stores
<1>3. loop \in Loops /\ loop.gen = 1
  BY <1>1 DEF Init, Loops
<1>4. /\ cache \in [Stores -> [ServiceGroups -> Entry]]
      /\ \A g \in Stores, sg \in ServiceGroups : cache[g][sg].time = 0
  BY <1>1 DEF Init
<1>5. DOMAIN work = ServiceGroups
  BY DEF Init
<1>6. /\ store = 0 /\ epoch = 0 /\ link = Modems /\ todo = {}
  BY DEF Init
<1>7. QED
  BY <1>3, <1>4, <1>5, <1>6, BoundsAssumption DEF Types

\* An entry of one group is stored.
LEMMA StoredEntry ==
    ASSUME Types, NEW g0 \in Stores, NEW sg0 \in ServiceGroups, NEW e \in Entry, e.time = epoch,
           cache' = [cache EXCEPT ![g0] = [cache[g0] EXCEPT ![sg0] = e]]
    PROVE  /\ cache' \in [Stores -> [ServiceGroups -> Entry]]
           /\ \A g \in Stores, sg \in ServiceGroups : cache'[g][sg].time \in {cache[g][sg].time, epoch}
<1>1. \A g \in Stores, sg \in ServiceGroups :
        cache'[g][sg] = IF g = g0 /\ sg = sg0 THEN e ELSE cache[g][sg]
  BY DEF Types
<1>2. cache' \in [Stores -> [ServiceGroups -> Entry]]
  BY DEF Types
<1>3. QED
  BY <1>1, <1>2

\* What stays true when an entry is stored, or none.
LEMMA Renewed ==
    ASSUME Types, loop' \in Loops, UNCHANGED <<store, epoch, link, todo, work, req>>,
           NEW g0 \in Stores, NEW sg0 \in ServiceGroups,
           \/ cache' = cache
           \/ \E e \in Entry : e.time = epoch /\ cache' = [cache EXCEPT ![g0] = [cache[g0] EXCEPT ![sg0] = e]]
           \/ cache' = [cache EXCEPT ![g0] = [cache[g0] EXCEPT ![sg0] = [cache[g0][sg0] EXCEPT !.time = epoch]]]
    PROVE  /\ Types'
           /\ \A g \in Stores, sg \in ServiceGroups : cache[g][sg].time <= cache'[g][sg].time
<1>1. [cache[g0][sg0] EXCEPT !.time = epoch] \in Entry /\ [cache[g0][sg0] EXCEPT !.time = epoch].time = epoch
  <2>1. cache[g0][sg0] \in Entry /\ epoch \in Nat
    BY DEF Types
  <2>2. \A e \in Entry : [e EXCEPT !.time = epoch] \in Entry /\ [e EXCEPT !.time = epoch].time = epoch
    BY <2>1 DEF Entry
  <2>3. QED
    BY <2>1, <2>2
<1>2. /\ cache' \in [Stores -> [ServiceGroups -> Entry]]
      /\ \A g \in Stores, sg \in ServiceGroups : cache'[g][sg].time \in {cache[g][sg].time, epoch}
  <2>1. CASE cache' = cache
    BY <2>1 DEF Types
  <2>2. CASE \E e \in Entry : e.time = epoch /\ cache' = [cache EXCEPT ![g0] = [cache[g0] EXCEPT ![sg0] = e]]
    BY <2>2, StoredEntry
  <2>3. QED
    BY <1>1, <2>1, <2>2
<1>3. \A g \in Stores, sg \in ServiceGroups : cache[g][sg].time <= epoch /\ cache[g][sg].time \in Nat
  BY DEF Types, Entry
<1>4. epoch \in Nat
  BY DEF Types
<1>5. \A g \in Stores, sg \in ServiceGroups :
        cache[g][sg].time <= cache'[g][sg].time /\ cache'[g][sg].time <= epoch
  BY <1>2, <1>3, <1>4
<1>6. QED
  BY <1>2, <1>5 DEF Types

\* A cycle stores its own time.
LEMMA BackgroundTypes ==
    ASSUME Types, Background
    PROVE  /\ Types'
           /\ \A g \in Stores, sg \in ServiceGroups : cache[g][sg].time <= cache'[g][sg].time
           /\ UNCHANGED <<req, modems, pc, call, todo, work, answer>>
<1> USE DEF Types, call, modems, poller, runtime
<1>1. CASE StartupPublishes \/ StartupFails \/ StartCycle \/ GuardRestarts
  <2>1. store' \in Nat /\ store' <= MaxRestarts + 1 /\ epoch' \in Nat /\ epoch <= epoch'
    BY <1>1, BoundsAssumption DEF StartupPublishes, StartupFails, StartCycle, GuardRestarts
  <2>2. loop' \in Loops
    <3>1. CASE StartupPublishes \/ StartupFails \/ StartCycle
      BY <3>1 DEF StartupPublishes, StartupFails, StartCycle, Loops
    <3>2. CASE GuardRestarts
      BY <3>2 DEF GuardRestarts, Loops, Stores
    <3>3. QED
      BY <1>1, <3>1, <3>2
  <2>3. UNCHANGED <<cache, req, modems, pc, call, todo, work, answer>>
    BY <1>1 DEF StartupPublishes, StartupFails, StartCycle, GuardRestarts
  <2>4. \A g \in Stores, sg \in ServiceGroups : cache[g][sg].time \in Nat
    BY DEF Entry
  <2>5. QED
    BY <2>1, <2>2, <2>3, <2>4
<1>2. ASSUME NEW sg \in ServiceGroups, Turn(sg)
      PROVE  /\ Types'
             /\ \A g \in Stores, k \in ServiceGroups : cache[g][k].time <= cache'[g][k].time
             /\ UNCHANGED <<req, modems, pc, call, todo, work, answer>>
  <2>1. loop' \in Loops
    <3>1. PICK mode \in {"heavy", "light", "none"} :
            loop' = [loop EXCEPT !.todo = @ \ {sg}, !.cur = {sg}, !.mode = mode,
                                 !.state = IF mode = "none" THEN "cycle" ELSE "poll"]
      BY <1>2 DEF Turn
    <3>2. QED
      BY <3>1 DEF Loops
  <2>2. loop.gen \in Stores
    BY DEF Loops
  <2>3. cache' = cache \/ cache' = [cache EXCEPT ![loop.gen] =
                                     [cache[loop.gen] EXCEPT ![sg] = [cache[loop.gen][sg] EXCEPT !.time = epoch]]]
    BY <1>2 DEF Turn
  <2>4. UNCHANGED <<store, epoch, req, modems, pc, call, todo, work, answer>>
    BY <1>2 DEF Turn
  <2>5. QED
    BY <2>1, <2>2, <2>3, <2>4, Renewed
<1>3. CASE PollEnds
  <2>1. PICK sg \in loop.cur :
           \/ \E rows \in Tables :
                cache' = [cache EXCEPT ![loop.gen] = [cache[loop.gen] EXCEPT ![sg] =
                            [time |-> epoch, heavy |-> TRUE, rows |-> rows]]]
           \/ cache' = [cache EXCEPT ![loop.gen] =
                            [cache[loop.gen] EXCEPT ![sg] = [cache[loop.gen][sg] EXCEPT !.time = epoch]]]
    BY <1>3 DEF PollEnds
  <2>2. loop' \in Loops /\ loop.gen \in Stores /\ sg \in ServiceGroups
    BY <1>3 DEF PollEnds, Loops
  <2>3. UNCHANGED <<store, epoch, req, modems, pc, call, todo, work, answer>>
    BY <1>3 DEF PollEnds
  <2>4. \A rows \in Tables : [time |-> epoch, heavy |-> TRUE, rows |-> rows] \in Entry
    BY DEF Entry
  <2>5. QED
    BY <2>1, <2>2, <2>3, <2>4, Renewed
<1>4. QED
  BY <1>1, <1>2, <1>3 DEF Background

LEMMA AskingTypes ==
    ASSUME Types, Asking
    PROVE  Types' /\ UNCHANGED <<cache, epoch, req, modems>>
<1>1. UNCHANGED <<runtime, cache, loop, epoch, req, modems, work>>
  BY DEF Asking, Receive, ReadStatus, ReadStore, ReadManager, BaselineRead, RefreshRequested,
         RefreshQueued, WaitEnds, ScopeRead, Answer, ReadBaseline, RequestRefresh, ReadScope, call, poller
<1>2. todo' \subseteq ServiceGroups
  BY DEF Types, Resolve, Asking, Receive, ReadStatus, ReadStore, ReadManager, BaselineRead, RefreshRequested,
         RefreshQueued, WaitEnds, ScopeRead, Answer, ReadBaseline, RequestRefresh, ReadScope, call
<1>3. QED
  BY <1>1, <1>2 DEF Types, runtime, modems

-----------------------------------------------------------------------------
(* The worker of a group, for a reset *)

\* The step of a worker: what becomes of its record w.
Moves(w, w2) ==
    \/ (\E e : w2 = Worker(e)) /\ UNCHANGED modems
    \/ \E m \in w.todo : w2 = Worked(w, m, FALSE) /\ resets' \in {resets, resets \union ({m} \intersect link)}
                          /\ UNCHANGED <<link, dropped>>
    \/ \E m \in w.todo : w2 = [w EXCEPT !.cur = {m}, !.pings = 0] /\ m \in link
                          /\ resets' = resets \union {m} /\ UNCHANGED <<link, dropped>>
    \/ \E m \in w.cur : /\ UNCHANGED modems
                         /\ \/ m \notin link /\ w2 = Worked(w, m, TRUE)
                            \/ w2 = Worked(w, m, FALSE)
                            \/ w2 = [w EXCEPT !.pings = @ + 1]
    \/ w.todo = {} /\ w2 = [w EXCEPT !.state = "done", !.ip = {}] /\ UNCHANGED modems

LEMMA JobSteps ==
    ASSUME req.kind = "reset", DOMAIN work = ServiceGroups, NEW sg \in ServiceGroups, Job(sg)
    PROVE  /\ \E w2 : work' = [work EXCEPT ![sg] = w2] /\ Moves(work[sg], w2)
           /\ todo' \subseteq todo
           /\ UNCHANGED <<runtime, poller, pc, call, answer>>
<1> DEFINE Moved == /\ \E w2 : work' = [work EXCEPT ![sg] = w2] /\ Moves(work[sg], w2)
                    /\ todo' \subseteq todo
                    /\ UNCHANGED <<runtime, poller, pc, call, answer>>
           w == work[sg]
<1>1. ASSUME StartWorker(sg) PROVE Moved
  <2>1. work' = [work EXCEPT ![sg] = Worker(cache[taken.store][sg])] /\ UNCHANGED modems
    BY <1>1 DEF StartWorker
  <2>2. Moves(work[sg], Worker(cache[taken.store][sg]))
    BY <2>1 DEF Moves
  <2>3. todo' \subseteq todo /\ UNCHANGED <<runtime, poller, pc, call, answer>>
    BY <1>1 DEF StartWorker
  <2>4. QED
    BY <2>1, <2>2, <2>3
<1>2. ASSUME NEW m \in Modems, SendReset(sg, m) PROVE Moved
  <2>1. m \in w.todo /\ UNCHANGED <<link, dropped>>
    BY <1>2 DEF SendReset
  <2>2. UNCHANGED <<todo, runtime, poller, pc, call, answer>>
    BY <1>2 DEF SendReset
  <2>3. CASE work' = [work EXCEPT ![sg] = Worked(@, m, FALSE)]
    <3>1. resets' \in {resets, resets \union ({m} \intersect link)}
      BY <1>2 DEF SendReset
    <3>2. Moves(w, Worked(w, m, FALSE))
      BY <2>1, <3>1 DEF Moves
    <3>3. work' = [work EXCEPT ![sg] = Worked(w, m, FALSE)]
      BY <2>3
    <3>4. QED
      BY <2>2, <3>2, <3>3
  <2>4. CASE /\ m \in link /\ resets' = resets \union {m}
             /\ work' = [work EXCEPT ![sg].cur = {m}, ![sg].pings = 0]
    <3>1. Moves(w, [w EXCEPT !.cur = {m}, !.pings = 0])
      BY <2>1, <2>4 DEF Moves
    <3>2. work' = [work EXCEPT ![sg] = [w EXCEPT !.cur = {m}, !.pings = 0]]
      BY <2>4
    <3>3. QED
      BY <2>2, <3>1, <3>2
  <2>5. QED
    BY <1>2, <2>3, <2>4 DEF SendReset
<1>3. ASSUME NEW m \in Modems, Ping(sg, m) PROVE Moved
  <2>1. m \in w.cur /\ UNCHANGED modems
    BY <1>3 DEF Ping
  <2>2. UNCHANGED <<todo, runtime, poller, pc, call, answer>>
    BY <1>3 DEF Ping
  <2>3. CASE m \notin link /\ work' = [work EXCEPT ![sg] = Worked(@, m, TRUE)]
    <3>1. Moves(w, Worked(w, m, TRUE))
      BY <2>1, <2>3 DEF Moves
    <3>2. work' = [work EXCEPT ![sg] = Worked(w, m, TRUE)]
      BY <2>3
    <3>3. QED
      BY <2>2, <3>1, <3>2
  <2>4. CASE work' = [work EXCEPT ![sg] = Worked(@, m, FALSE)]
    <3>1. Moves(w, Worked(w, m, FALSE))
      BY <2>1, <2>4 DEF Moves
    <3>2. work' = [work EXCEPT ![sg] = Worked(w, m, FALSE)]
      BY <2>4
    <3>3. QED
      BY <2>2, <3>1, <3>2
  <2>5. CASE work' = [work EXCEPT ![sg].pings = @ + 1]
    <3>1. Moves(w, [w EXCEPT !.pings = @ + 1])
      BY <2>1 DEF Moves
    <3>2. work' = [work EXCEPT ![sg] = [w EXCEPT !.pings = @ + 1]]
      BY <2>5
    <3>3. QED
      BY <2>2, <3>1, <3>2
  <2>6. QED
    BY <1>3, <2>3, <2>4, <2>5 DEF Ping
<1>4. ASSUME WorkerDone(sg) PROVE Moved
  <2>1. w.todo = {} /\ UNCHANGED modems
    BY <1>4 DEF WorkerDone
  <2>2. UNCHANGED <<todo, runtime, poller, pc, call, answer>>
    BY <1>4 DEF WorkerDone
  <2>3. work' = [work EXCEPT ![sg] = [w EXCEPT !.state = "done", !.ip = {}]]
    BY <1>4 DEF WorkerDone
  <2>4. Moves(w, [w EXCEPT !.state = "done", !.ip = {}])
    BY <2>1 DEF Moves
  <2>5. QED
    BY <2>2, <2>3, <2>4
<1>5. ~PollSysDescr(sg)
  BY DEF PollSysDescr
<1>6. Moved
  <2> HIDE DEF Moved
  <2>1. QED
    BY <1>1, <1>2, <1>3, <1>4, <1>5 DEF Job
<1>7. QED
  BY <1>6

\* A worker's record: every modem of the group is in one place, and the number of modems is kept.
WellWorked(w) ==
    /\ w \in Works
    /\ w.cur \subseteq w.todo
    /\ w.ok \intersect w.bad = {} /\ (w.ok \union w.bad) \intersect w.todo = {}
    /\ w.count = Cardinality(w.ok \union w.bad \union w.todo)
    /\ w.state \in {"idle", "missing", "done"} => w.todo = {}

LEMMA IdleWell == WellWorked(Idle) /\ Idle.count = 0 /\ Idle.ok = {} /\ Idle.cur = {}
BY FS_EmptySet DEF WellWorked, Idle, Works

LEMMA WorkerWell ==
    ASSUME NEW e PROVE WellWorked(Worker(e)) /\ Worker(e).ok = {} /\ Worker(e).cur = {}
<1>1. CASE e.time = 0
  <2>1. Worker(e) = [Idle EXCEPT !.state = "missing"]
    BY <1>1 DEF Worker
  <2>2. QED
    BY <2>1, FS_EmptySet DEF WellWorked, Idle, Works
<1>2. CASE e.time # 0
  <2> DEFINE s == Selected(req, e)
             ip == {m \in s : e.rows[m].ip}
  <2>1. s \in SUBSET Modems /\ ip \in SUBSET Modems
    BY DEF Selected, Listed
  <2>2. Cardinality(s) \in Nat
    BY <2>1, ModemCount
  <2>3. Worker(e) = [Idle EXCEPT !.state = "run", !.todo = s, !.count = Cardinality(s), !.ip = ip]
    BY <1>2 DEF Worker
  <2> HIDE DEF s, ip
  <2>4. {} \union {} \union s = s
    OBVIOUS
  <2>5. Worker(e) = [state |-> "run", todo |-> s, ip |-> ip, cur |-> {}, pings |-> 0,
                     count |-> Cardinality(s), ok |-> {}, bad |-> {}]
    BY <2>3 DEF Idle
  <2>6. QED
    BY <2>1, <2>2, <2>4, <2>5 DEF WellWorked, Works
<1>3. QED
  BY <1>1, <1>2

LEMMA WorkedWell ==
    ASSUME NEW w, WellWorked(w), NEW m \in w.todo, NEW b \in BOOLEAN
    PROVE  /\ WellWorked(Worked(w, m, b)) /\ Worked(w, m, b).cur = {}
           /\ Worked(w, m, b).ok = IF b THEN w.ok \union {m} ELSE w.ok
<1> DEFINE ok == IF b THEN w.ok \union {m} ELSE w.ok
           bad == IF b THEN w.bad ELSE w.bad \union {m}
           v == Worked(w, m, b)
<1>1. w \in Works /\ m \in Modems
  BY DEF WellWorked, Works
<1>2. v = [w EXCEPT !.todo = w.todo \ {m}, !.cur = {}, !.pings = 0, !.ok = ok, !.bad = bad]
  BY <1>1 DEF Worked, Works
<1>3. ok \union bad \union (w.todo \ {m}) = w.ok \union w.bad \union w.todo
  OBVIOUS
<1>4. ok \in SUBSET Modems /\ bad \in SUBSET Modems
  BY <1>1 DEF Works
<1>5. /\ ok \intersect bad = {} /\ (ok \union bad) \intersect (w.todo \ {m}) = {}
  BY DEF WellWorked
<1> HIDE DEF ok, bad, v
<1>6. /\ v \in Works /\ v.todo = w.todo \ {m} /\ v.cur = {} /\ v.ok = ok /\ v.bad = bad
      /\ v.state = w.state /\ v.count = w.count
  BY <1>1, <1>2, <1>4 DEF Works
<1>7. WellWorked(v)
  BY <1>3, <1>5, <1>6 DEF WellWorked
<1>8. QED
  BY <1>6, <1>7 DEF v, ok

LEMMA MovesWell ==
    ASSUME NEW w, WellWorked(w), NEW w2, Moves(w, w2)
    PROVE  WellWorked(w2)
<1>0. w \in Works /\ w.cur \subseteq w.todo
  BY DEF WellWorked
<1>1. CASE \E e : w2 = Worker(e)
  BY <1>1, WorkerWell
<1>2. CASE \E m \in w.todo, b \in BOOLEAN : w2 = Worked(w, m, b)
  <2>1. PICK m \in w.todo, b \in BOOLEAN : w2 = Worked(w, m, b)
    BY <1>2
  <2>2. WellWorked(Worked(w, m, b))
    BY WorkedWell
  <2>3. QED
    BY <2>1, <2>2
<1>3. CASE \E m \in w.todo : w2 = [w EXCEPT !.cur = {m}, !.pings = 0]
  <2>1. PICK m \in w.todo : w2 = [w EXCEPT !.cur = {m}, !.pings = 0]
    BY <1>3
  <2>2. /\ w2 \in Works /\ w2.cur = {m} /\ w2.todo = w.todo /\ w2.ok = w.ok /\ w2.bad = w.bad
        /\ w2.count = w.count /\ w2.state = w.state
    BY <1>0, <2>1 DEF Works
  <2>3. QED
    BY <2>2 DEF WellWorked
<1>4. CASE w2 = [w EXCEPT !.pings = @ + 1]
  BY <1>0, <1>4 DEF WellWorked, Works
<1>5. CASE w.todo = {} /\ w2 = [w EXCEPT !.state = "done", !.ip = {}]
  <2>1. /\ w2 \in Works /\ w2.cur = w.cur /\ w2.todo = w.todo /\ w2.ok = w.ok /\ w2.bad = w.bad
        /\ w2.count = w.count
    BY <1>0, <1>5 DEF Works
  <2>2. QED
    BY <1>5, <2>1 DEF WellWorked
<1>6. QED
  BY <1>0, <1>1, <1>2, <1>3, <1>4, <1>5 DEF Moves

-----------------------------------------------------------------------------
(* A reset is verified *)

\* A modem that took the command is reachable, or has been lost since.
Sound ==
    /\ resets \subseteq link \union dropped
    /\ dropped \subseteq resets
    /\ req.kind = "reset" =>
         \A sg \in ServiceGroups : /\ WellWorked(work[sg])
                                   /\ work[sg].ok \subseteq dropped /\ work[sg].cur \subseteq resets

LEMMA SoundInit == Init => Sound
BY IdleWell DEF Init, Sound

LEMMA JobKeeps ==
    ASSUME Types, NEW sg \in ServiceGroups, Job(sg) \/ ReadGroup(sg)
    PROVE  Types' /\ UNCHANGED <<cache, epoch, pc, call, answer>> /\ DOMAIN work' = ServiceGroups
<1>1. UNCHANGED <<runtime, poller, pc, call, answer, link>>
  BY DEF Job, ReadGroup, StartWorker, SendReset, Ping, PollSysDescr, WorkerDone, modems
<1>2. todo' \subseteq todo
  BY DEF Job, ReadGroup, StartWorker, SendReset, Ping, PollSysDescr, WorkerDone
<1>3. DOMAIN work' = DOMAIN work
  BY DEF Job, ReadGroup, StartWorker, SendReset, Ping, PollSysDescr, WorkerDone
<1>4. QED
  BY <1>1, <1>2, <1>3 DEF Types, runtime, poller, call

LEMMA SoundNext == Types /\ Sound /\ [Next]_vars => Sound'
<1> SUFFICES ASSUME Types, Sound, [Next]_vars PROVE Sound'
  OBVIOUS
<1>1. ASSUME NEW m \in Modems, LinkChanges(m) PROVE Sound'
  <2>1. UNCHANGED <<resets, req, work>>
    BY <1>1 DEF LinkChanges, call
  <2>2. dropped' = dropped \union ({m} \intersect link \intersect resets)
        /\ link \ {m} \subseteq link' /\ (m \notin link => link \subseteq link')
    BY <1>1 DEF LinkChanges
  <2>3. QED
    BY <2>1, <2>2 DEF Sound
<1>2. ASSUME NEW sg \in ServiceGroups, Job(sg) PROVE Sound'
  <2>1. UNCHANGED <<req, link, dropped>> /\ resets \subseteq resets'
    BY <1>2 DEF Job, StartWorker, SendReset, Ping, PollSysDescr, WorkerDone, call, modems
  <2>2. resets' \subseteq resets \union link
    BY <1>2 DEF Job, StartWorker, SendReset, Ping, PollSysDescr, WorkerDone, modems
  <2>3. CASE req.kind # "reset"
    BY <2>1, <2>2, <2>3 DEF Sound
  <2>4. CASE req.kind = "reset"
    <3> DEFINE w == work[sg]
    <3>1. PICK w2 : work' = [work EXCEPT ![sg] = w2] /\ Moves(w, w2)
      BY <1>2, <2>4, JobSteps DEF Types
    <3>2. WellWorked(w) /\ w.ok \subseteq dropped /\ w.cur \subseteq resets
      BY <2>4 DEF Sound
    <3>3. WellWorked(w2)
      BY <3>1, <3>2, MovesWell
    <3>4. w2.ok \subseteq dropped /\ w2.cur \subseteq resets'
      <4>0. w \in Works /\ w.cur \subseteq w.todo
        BY <3>2 DEF WellWorked
      <4>1. CASE \E e : w2 = Worker(e)
        BY <4>1, WorkerWell
      <4>2. CASE \E m \in w.todo : w2 = Worked(w, m, FALSE)
        <5>1. PICK m \in w.todo : w2 = Worked(w, m, FALSE)
          BY <4>2
        <5>2. w2.ok = w.ok /\ w2.cur = {}
          BY <3>2, <5>1, WorkedWell
        <5>3. QED
          BY <3>2, <5>2
      <4>3. CASE \E m \in w.todo : w2 = [w EXCEPT !.cur = {m}, !.pings = 0] /\ m \in resets'
        BY <3>2, <4>0, <4>3 DEF Works
      <4>4. CASE \E m \in w.cur : m \notin link /\ w2 = Worked(w, m, TRUE)
        <5>1. PICK m \in w.cur : m \notin link /\ w2 = Worked(w, m, TRUE)
          BY <4>4
        <5>2. w2.ok = w.ok \union {m} /\ w2.cur = {}
          BY <3>2, <4>0, <5>1, WorkedWell
        <5>3. m \in dropped
          BY <3>2, <5>1 DEF Sound
        <5>4. QED
          BY <3>2, <5>2, <5>3
      <4>5. CASE w2 = [w EXCEPT !.pings = @ + 1] \/ w2 = [w EXCEPT !.state = "done", !.ip = {}]
        BY <2>1, <3>2, <4>0, <4>5 DEF Works
      <4>6. QED
        BY <3>1, <4>0, <4>1, <4>2, <4>3, <4>4, <4>5 DEF Moves
    <3>5. \A k \in ServiceGroups : work'[k] = IF k = sg THEN w2 ELSE work[k]
      BY <3>1 DEF Types
    <3>6. QED
      BY <2>1, <2>2, <2>4, <3>3, <3>4, <3>5 DEF Sound
  <2>5. QED
    BY <2>3, <2>4
<1>3. ASSUME NEW sg \in ServiceGroups, ReadGroup(sg) PROVE Sound'
  BY <1>3 DEF ReadGroup, RunsJob, Sound, call, modems
<1>4. CASE Background \/ Asking \/ UNCHANGED vars
  <2>1. UNCHANGED <<req, work, modems>>
    BY <1>4 DEF Background, StartupPublishes, StartupFails, StartCycle, PollEnds, GuardRestarts, Turn,
         Asking, Receive, ReadStatus, ReadStore, ReadManager, BaselineRead, RefreshRequested,
         RefreshQueued, WaitEnds, ScopeRead, Answer, ReadBaseline, RequestRefresh, ReadScope, call, vars
  <2>2. QED
    BY <2>1 DEF Sound, modems
<1>5. QED
  BY <1>1, <1>2, <1>3, <1>4, Steps

LEMMA TypesNext == Types /\ [Next]_vars => Types'
<1> SUFFICES ASSUME Types, [Next]_vars PROVE Types'
  OBVIOUS
<1>1. ASSUME NEW m \in Modems, LinkChanges(m) PROVE Types'
  BY <1>1 DEF LinkChanges, Types, runtime, poller, call
<1>2. CASE UNCHANGED vars
  BY <1>2 DEF Types, vars, runtime, poller, call, modems
<1>3. QED
  BY <1>1, <1>2, BackgroundTypes, AskingTypes, JobKeeps, Steps

\* ResetVerified: a modem is reported reset only if it took the command and was then lost.
THEOREM ResetsVerified == Spec => []ResetVerified
<1>1. Sound => ResetVerified
  BY DEF Sound, ResetVerified
<1>2. QED
  BY <1>1, TypesInit, TypesNext, SoundInit, SoundNext, PTL DEF Spec

-----------------------------------------------------------------------------
(* A refresh that advanced is later than the request *)

Later(sg) == baseline[sg] >= before[taken.store][sg]
Chosen == taken.store \in Stores

\* The store a request took is the one it reads to its end, and its baseline is read there after
\* the request came in.
Based ==
    /\ todo \subseteq Groups
    /\ DOMAIN taken = {"store", "manager"}
    /\ DOMAIN refresh = {"applied", "advanced"}
    /\ before \in [Stores -> [ServiceGroups -> Nat]] /\ baseline \in [ServiceGroups -> Nat]
    /\ \A g \in Stores, sg \in ServiceGroups : before[g][sg] <= cache[g][sg].time
    /\ refresh.advanced => pc \notin {"idle", "status", "store", "manager", "baseline"}
    /\ pc = "baseline" => Chosen /\ \A sg \in Groups \ todo : Later(sg)
    /\ pc = "refresh" /\ req.kind # "restart" => Chosen /\ \A sg \in Groups : Later(sg)
    /\ pc = "wait" => Chosen /\ \A sg \in Groups : Later(sg)
    /\ pc = "manager" /\ req.kind # "restart" => Chosen
    /\ refresh.advanced => Chosen
    /\ AdvancedFresh

LEMMA BasedInit == Init => Based
<1> SUFFICES ASSUME Init PROVE Based
  OBVIOUS
<1>1. \A g \in Stores, sg \in ServiceGroups : before[g][sg] = 0 /\ cache[g][sg].time = 0
  BY DEF Init, NoEntry
<1>2. refresh.advanced = FALSE /\ pc = "idle" /\ todo = {}
  BY DEF Init
<1>3. /\ before \in [Stores -> [ServiceGroups -> Nat]] /\ baseline \in [ServiceGroups -> Nat]
      /\ DOMAIN taken = {"store", "manager"} /\ DOMAIN refresh = {"applied", "advanced"}
  BY DEF Init
<1>4. QED
  BY <1>1, <1>2, <1>3 DEF Based, AdvancedFresh

LEMMA BasedNext == Types /\ Based /\ [Next]_vars => Based'
<1> SUFFICES ASSUME Types, Based, [Next]_vars PROVE Based'
  OBVIOUS
<1>0. \A g \in Stores, sg \in ServiceGroups : cache[g][sg].time \in Nat /\ before[g][sg] \in Nat
  BY DEF Types, Entry, Based
<1>1. ASSUME UNCHANGED <<pc, call, todo>>,
             \A g \in Stores, sg \in ServiceGroups :
                 cache[g][sg].time <= cache'[g][sg].time /\ cache'[g][sg].time \in Nat
      PROVE  Based'
  <2>1. UNCHANGED <<req, taken, before, baseline, refresh>>
    BY <1>1 DEF call
  <2>2. Groups' = Groups /\ Groups \subseteq ServiceGroups
    BY <2>1, GroupsExist DEF Groups, Resolve
  <2>3. \A g \in Stores, sg \in ServiceGroups : before[g][sg] <= cache'[g][sg].time
    BY <1>0, <1>1 DEF Based
  <2>4. AdvancedFresh'
    <3>1. SUFFICES ASSUME refresh.advanced
                   PROVE  \E sg \in Groups : cache'[taken.store][sg].time > before[taken.store][sg]
      BY <2>1, <2>2 DEF AdvancedFresh
    <3>2. PICK sg \in Groups : cache[taken.store][sg].time > before[taken.store][sg]
      BY <3>1 DEF Based, AdvancedFresh
    <3>3. taken.store \in Stores
      BY <3>1 DEF Based, Chosen
    <3>4. QED
      BY <1>0, <1>1, <2>2, <3>2, <3>3
  <2>5. Chosen' = Chosen /\ \A sg : Later(sg)' = Later(sg)
    BY <2>1 DEF Chosen, Later
  <2>6. QED
    BY <1>1, <2>1, <2>2, <2>3, <2>4, <2>5 DEF Based
<1>2. CASE Background
  <2>1. \A g \in Stores, sg \in ServiceGroups :
           cache[g][sg].time <= cache'[g][sg].time /\ cache'[g][sg].time \in Nat
    BY <1>2, BackgroundTypes DEF Types, Entry
  <2>2. QED
    BY <1>1, <1>2, <2>1, BackgroundTypes
<1>3. CASE (\E m \in Modems : LinkChanges(m)) \/ UNCHANGED vars
  BY <1>0, <1>1, <1>3 DEF LinkChanges, vars, poller
<1>4. ASSUME UNCHANGED <<cache, req, before, baseline>>, taken'.store = taken.store,
             DOMAIN taken' = DOMAIN taken, DOMAIN refresh' = DOMAIN refresh,
             refresh'.advanced = refresh.advanced, todo' \subseteq Groups,
             refresh.advanced => pc' \notin {"idle", "status", "store", "manager", "baseline"},
             pc' = "baseline" => Chosen /\ \A sg \in Groups \ todo' : Later(sg),
             pc' = "refresh" /\ req.kind # "restart" => Chosen /\ \A sg \in Groups : Later(sg),
             pc' = "wait" => Chosen /\ \A sg \in Groups : Later(sg),
             pc' = "manager" /\ req.kind # "restart" => Chosen
      PROVE  Based'
  <2>1. Groups' = Groups
    BY <1>4 DEF Groups, Resolve
  <2>2. Chosen' = Chosen /\ (\A sg : Later(sg)' = Later(sg)) /\ AdvancedFresh' = AdvancedFresh
    BY <1>4, <2>1 DEF Chosen, Later, AdvancedFresh
  <2>3. QED
    BY <1>4, <2>1, <2>2 DEF Based
<1>5. ASSUME NEW sg \in ServiceGroups, Job(sg) \/ ReadGroup(sg) PROVE Based'
  <2>1. pc = "collect" /\ todo' \subseteq todo
    BY <1>5 DEF Job, ReadGroup, StartWorker, SendReset, Ping, PollSysDescr, WorkerDone
  <2>2. UNCHANGED <<cache, pc, call>>
    BY <1>5, JobKeeps
  <2>3. QED
    BY <1>4, <2>1, <2>2 DEF Based, call
<1>6. CASE Receive
  <2>1. /\ UNCHANGED <<cache, req, taken, baseline, refresh, todo>> /\ pc = "idle"
        /\ pc' \in {"manager", "status"} /\ (pc' = "manager" => req.kind = "restart")
    BY <1>6 DEF Receive, poller
  <2>2. \/ before' = before
        \/ before' = [g \in Stores |-> [sg \in ServiceGroups |-> cache[g][sg].time]]
    BY <1>6 DEF Receive
  <2>3. /\ before' \in [Stores -> [ServiceGroups -> Nat]]
        /\ \A g \in Stores, sg \in ServiceGroups : before'[g][sg] <= cache[g][sg].time
    BY <1>0, <2>2 DEF Based
  <2>4. Groups' = Groups /\ ~refresh.advanced
    BY <2>1 DEF Groups, Resolve, Based
  <2>5. QED
    BY <2>1, <2>3, <2>4 DEF Based, AdvancedFresh
<1>7. CASE ReadStatus
  <2>1. UNCHANGED <<cache, call, todo>> /\ pc = "status" /\ pc' \in {"answered", "store"}
    BY <1>7 DEF ReadStatus, StateDirRefused, Finish, poller
  <2>2. QED
    BY <1>4, <2>1 DEF Based, call
<1>8. CASE ReadStore
  <2>1. /\ UNCHANGED <<cache, req, before, baseline, refresh>> /\ pc = "store"
        /\ taken' = [taken EXCEPT !.store = store]
    BY <1>8 DEF ReadStore, poller
  <2>2. \/ pc' = "answered" /\ todo' = todo
        \/ store # 0 /\ pc' \in {"manager", "baseline", "collect"} /\ todo' = Resolve(req)
    BY <1>8 DEF ReadStore, Finish
  <2>3. store # 0 => store \in Stores
    BY BoundsAssumption DEF Types, Stores
  <2>4. Groups' = Groups /\ ~refresh.advanced /\ Groups = Resolve(req) /\ DOMAIN taken' = DOMAIN taken
        /\ taken'.store = store
    BY <2>1 DEF Groups, Resolve, Based
  <2>5. store # 0 => Chosen'
    BY <2>3, <2>4 DEF Chosen
  <2>6. QED
    BY <2>1, <2>2, <2>4, <2>5 DEF Based, AdvancedFresh
<1>9. CASE ReadManager
  <2>1. /\ UNCHANGED <<cache, req, before, baseline, refresh>>
        /\ taken' = [taken EXCEPT !.manager = manager] /\ todo' = Resolve(req)
    BY <1>9 DEF ReadManager, poller
  <2>2. DOMAIN taken' = DOMAIN taken /\ taken'.store = taken.store /\ Groups = Resolve(req)
    BY <2>1 DEF Based, Groups
  <2>3. \/ /\ pc = "manager" /\ pc' \in {"answered", "baseline", "refresh", "scope"}
           /\ pc' = "refresh" => req.kind = "restart"
           /\ pc' = "baseline" => WantsRefresh(req)
        \/ pc = "baseline" /\ todo = {} /\ pc' = "refresh"
    BY <1>9 DEF ReadManager
  <2>4. WantsRefresh(req) => req.kind # "restart"
    BY DEF WantsRefresh
  <2>5. QED
    BY <1>4, <2>1, <2>2, <2>3, <2>4 DEF Based
<1>10. ASSUME NEW sg \in ServiceGroups, ReadBaseline(sg) PROVE Based'
  <2>1. /\ UNCHANGED <<cache, pc, req, taken, before, refresh>> /\ pc = "baseline"
        /\ baseline' = [baseline EXCEPT ![sg] = cache[taken.store][sg].time] /\ todo' = todo \ {sg}
    BY <1>10 DEF ReadBaseline, poller
  <2>2. Groups' = Groups /\ Groups \subseteq ServiceGroups
    BY <2>1, GroupsExist DEF Groups, Resolve
  <2>3. Chosen /\ Chosen'
    BY <2>1 DEF Based, Chosen
  <2>4. cache[taken.store][sg].time \in Nat /\ before[taken.store][sg] <= cache[taken.store][sg].time
    BY <1>0, <2>3 DEF Based, Chosen
  <2>5. baseline' \in [ServiceGroups -> Nat]
    BY <2>1, <2>4 DEF Based
  <2>6. Later(sg)' /\ \A k \in ServiceGroups \ {sg} : Later(k)' = Later(k)
    BY <2>1, <2>4 DEF Later, Based
  <2>7. ~refresh.advanced
    BY <2>1 DEF Based
  <2>8. \A k \in Groups \ todo' : Later(k)'
    BY <2>1, <2>2, <2>6 DEF Based
  <2>9. QED
    BY <2>1, <2>2, <2>3, <2>5, <2>7, <2>8 DEF Based, AdvancedFresh
<1>11. CASE BaselineRead
  <2>1. UNCHANGED <<cache, call>> /\ pc = "baseline" /\ todo = {} /\ pc' = "refresh" /\ todo' = Groups
    BY <1>11 DEF BaselineRead, poller, Groups
  <2>2. QED
    BY <1>4, <2>1 DEF Based, call
<1>12. ASSUME NEW sg \in ServiceGroups, RequestRefresh(sg) PROVE Based'
  <2>1. UNCHANGED <<cache, pc, req, taken, before, baseline>> /\ pc = "refresh" /\ todo' \subseteq todo
        /\ refresh' \in {refresh, [refresh EXCEPT !.applied = TRUE]}
    BY <1>12 DEF RequestRefresh
  <2>2. DOMAIN refresh' = DOMAIN refresh /\ refresh'.advanced = refresh.advanced
    BY <2>1 DEF Based
  <2>3. QED
    BY <1>4, <2>1, <2>2 DEF Based
<1>13. CASE RefreshRequested \/ RefreshQueued
  <2>1. UNCHANGED <<cache, call>> /\ pc = "refresh" /\ todo' \subseteq Groups
        /\ pc' \in {"wait", "scope", "collect", "answered"} /\ (pc' = "wait" => req.kind # "restart")
    BY <1>13 DEF RefreshRequested, RefreshQueued, Finish, poller, Groups, Based
  <2>2. QED
    BY <1>4, <2>1 DEF Based, call
<1>14. CASE WaitEnds
  <2>1. /\ UNCHANGED <<cache, req, taken, before, baseline, todo>> /\ pc = "wait"
        /\ pc' \in {"scope", "collect"} /\ refresh' = [refresh EXCEPT !.advanced = Advanced]
    BY <1>14 DEF WaitEnds, poller
  <2>2. DOMAIN refresh' = DOMAIN refresh /\ refresh'.advanced = Advanced
    BY <2>1 DEF Based
  <2>3. Chosen /\ \A sg \in Groups : Later(sg)
    BY <2>1 DEF Based
  <2>4. Groups' = Groups /\ Chosen' /\ Groups = Resolve(req) /\ Groups \subseteq ServiceGroups
    BY <2>1, <2>3, GroupsExist DEF Groups, Resolve, Chosen
  <2>5. Advanced => \E sg \in Groups : cache[taken.store][sg].time > before[taken.store][sg]
    <3>1. SUFFICES ASSUME NEW sg \in Groups, cache[taken.store][sg].time > baseline[sg]
                   PROVE  cache[taken.store][sg].time > before[taken.store][sg]
      BY <2>4 DEF Advanced
    <3>2. cache[taken.store][sg].time \in Nat /\ before[taken.store][sg] \in Nat /\ baseline[sg] \in Nat
      BY <1>0, <2>3, <2>4 DEF Chosen, Based
    <3>3. QED
      BY <2>3, <3>1, <3>2 DEF Later
  <2>6. AdvancedFresh'
    BY <2>1, <2>2, <2>4, <2>5 DEF AdvancedFresh
  <2>7. QED
    BY <2>1, <2>2, <2>4, <2>6 DEF Based
<1>15. CASE ScopeRead \/ Answer \/ \E sg \in ServiceGroups : ReadScope(sg)
  <2>1. UNCHANGED <<cache, req, taken, before, baseline, refresh>> /\ pc \in {"scope", "collect"}
        /\ pc' \in {"scope", "collect", "answered"} /\ todo' \subseteq Groups
    BY <1>15 DEF ScopeRead, Answer, Finish, ReadScope, poller, call, Groups, Based
  <2>2. QED
    BY <1>4, <2>1 DEF Based
<1>16. CASE Asking
  BY <1>6, <1>7, <1>8, <1>9, <1>10, <1>11, <1>12, <1>13, <1>14, <1>15, <1>16 DEF Asking
<1>17. QED
  BY <1>2, <1>3, <1>5, <1>16, Steps

\* AdvancedFresh: a refresh reported as advanced is later than the request, in the store it reads.
THEOREM AdvancesFresh == Spec => []AdvancedFresh
<1>1. Based => AdvancedFresh
  BY DEF Based
<1>2. QED
  BY <1>1, TypesInit, TypesNext, BasedInit, BasedNext, PTL DEF Spec

-----------------------------------------------------------------------------
(* The verdict of a reset *)

\* What SUCCESS says of the groups, their modems and what was asked for.
Deserved ==
    /\ req.sgs \subseteq ServiceGroups
    /\ \A m \in req.macs : \E sg \in Groups : <<sg, m>> \in scope
    /\ \A sg \in Groups : Cardinality(work[sg].ok) + Cardinality(work[sg].bad) = work[sg].count
    /\ dropped # {} \/ \A sg \in Groups : work[sg].count = 0

LEMMA FinishedWell ==
    ASSUME NEW w, WellWorked(w), w.todo = {}
    PROVE  Cardinality(w.ok) + Cardinality(w.bad) = w.count /\ w.count \in Nat
<1>1. w.ok \in SUBSET Modems /\ w.bad \in SUBSET Modems /\ w.ok \intersect w.bad = {} /\ w.count \in Nat
  BY DEF WellWorked, Works
<1>2. IsFiniteSet(w.ok) /\ IsFiniteSet(w.bad) /\ Cardinality(w.ok) \in Nat /\ Cardinality(w.bad) \in Nat
  BY <1>1, BoundsAssumption, FS_Subset, FS_CardinalityType
<1>3. Cardinality(w.ok \union w.bad) = Cardinality(w.ok) + Cardinality(w.bad) - Cardinality(w.ok \intersect w.bad)
  BY <1>2, FS_Union
<1>4. Cardinality(w.ok \intersect w.bad) = 0
  BY <1>1, FS_EmptySet
<1>5. w.count = Cardinality(w.ok \union w.bad)
  <2>1. w.ok \union w.bad \union w.todo = w.ok \union w.bad
    OBVIOUS
  <2>2. QED
    BY <2>1 DEF WellWorked
<1>6. QED
  BY <1>1, <1>2, <1>3, <1>4, <1>5

LEMMA AnswerDeserved ==
    ASSUME Sound, scope \subseteq Groups \X Modems, Answer, req.kind = "reset", answer'.status = "SUCCESS"
    PROVE  Deserved
<1>1. ResetStatus = "SUCCESS" /\ \A sg \in Groups : work[sg].state \in {"done", "missing"}
  BY DEF Answer, Finish
<1>2. MissingMacs = {} /\ MissingGroups(req) = {} /\ ~NoneSucceeded
  BY <1>1 DEF ResetStatus
<1>3. req.sgs \subseteq ServiceGroups
  BY <1>2 DEF MissingGroups
<1>4. \A m \in req.macs : \E sg \in Groups : <<sg, m>> \in scope
  BY <1>2 DEF MissingMacs
<1>5. \A sg \in Groups : WellWorked(work[sg]) /\ work[sg].todo = {} /\ work[sg].ok \subseteq dropped
  BY <1>1, GroupsExist DEF Sound, WellWorked
<1>6. \A sg \in Groups : Cardinality(work[sg].ok) + Cardinality(work[sg].bad) = work[sg].count
                         /\ work[sg].count \in Nat
  BY <1>5, FinishedWell
<1>7. dropped # {} \/ \A sg \in Groups : work[sg].count = 0
  BY <1>2, <1>5, <1>6 DEF NoneSucceeded
<1>8. QED
  BY <1>3, <1>4, <1>6, <1>7 DEF Deserved

\* The scope of a request is of its groups, and SUCCESS is deserved.
Justified ==
    /\ scope \subseteq Groups \X Modems
    /\ Answered("reset") /\ answer.status = "SUCCESS" => Deserved

LEMMA JustifiedNext == Types /\ Sound /\ Based /\ Justified /\ [Next]_vars => Justified'
<1> SUFFICES ASSUME Types, Sound, Based, Justified, [Next]_vars PROVE Justified'
  OBVIOUS
<1> USE DEF Justified
<1>1. CASE UNCHANGED vars
  <2>1. UNCHANGED <<req, scope, pc, answer, work, dropped>>
    BY <1>1 DEF vars, call, modems
  <2>2. QED
    BY <2>1 DEF Deserved, Answered, Groups, Resolve
<1>2. ASSUME UNCHANGED <<req, scope>>, pc' # "answered" \/ req.kind # "reset" \/ answer'.status = "FAILURE"
      PROVE  Justified'
  BY <1>2 DEF Groups, Resolve, Answered
<1>3. CASE pc # "answered" /\ (Background \/ \E m \in Modems : LinkChanges(m))
  <2>1. UNCHANGED <<pc, call>>
    BY <1>3, BackgroundTypes DEF LinkChanges
  <2>2. QED
    BY <1>2, <1>3, <2>1 DEF call
<1>4. ASSUME NEW sg \in ServiceGroups, ReadGroup(sg) \/ Job(sg) PROVE Justified'
  <2>1. pc = "collect"
    BY <1>4 DEF Job, ReadGroup, StartWorker, SendReset, Ping, PollSysDescr, WorkerDone
  <2>2. UNCHANGED <<pc, call>>
    BY <1>4, JobKeeps
  <2>3. QED
    BY <1>2, <2>1, <2>2 DEF call
<1>5. CASE Answer
  <2>1. UNCHANGED <<req, scope, work, dropped>> /\ pc' = "answered"
    BY <1>5 DEF Answer, Finish, call, modems
  <2>2. Deserved' = Deserved /\ Groups' = Groups
    BY <2>1 DEF Deserved, Groups, Resolve
  <2>3. QED
    BY <1>5, <2>1, <2>2, AnswerDeserved DEF Answered
<1>6. ASSUME NEW sg \in ServiceGroups, ReadScope(sg) PROVE Justified'
  <2>1. UNCHANGED req /\ pc' = pc /\ pc = "scope" /\ sg \in todo
        /\ scope' = scope \union ({sg} \X Selected(req, cache[taken.store][sg]))
    BY <1>6 DEF ReadScope, First
  <2>2. sg \in Groups /\ Selected(req, cache[taken.store][sg]) \subseteq Modems
    BY <2>1 DEF Based, Selected, Listed
  <2>3. QED
    BY <2>1, <2>2 DEF Groups, Resolve, Answered
<1>7. CASE Receive \/ BaselineRead \/ RefreshRequested \/ WaitEnds \/ ScopeRead
           \/ \E sg \in ServiceGroups : ReadBaseline(sg) \/ RequestRefresh(sg)
  <2>1. UNCHANGED <<req, scope>> /\ pc' # "answered"
    BY <1>7 DEF Receive, BaselineRead, RefreshRequested, WaitEnds, ScopeRead, ReadBaseline, RequestRefresh, call
  <2>2. QED
    BY <1>2, <2>1
<1>8. CASE ReadStatus \/ ReadStore \/ ReadManager \/ RefreshQueued
  <2>1. UNCHANGED <<req, scope>>
    BY <1>8 DEF ReadStatus, ReadStore, ReadManager, RefreshQueued, call
  <2>2. pc' = "answered" => answer'.status = "FAILURE" \/ req.kind \in {"ids", "restart"}
    BY <1>8 DEF ReadStatus, ReadStore, ReadManager, RefreshQueued, StateDirRefused, Finish, Refused
  <2>3. QED
    BY <1>2, <2>1, <2>2
<1>9. QED
  BY <1>1, <1>3, <1>4, <1>5, <1>6, <1>7, <1>8, Steps DEF Asking

\* VerdictTrue: SUCCESS for a reset means that all that was named was found, every modem is
\* accounted for, and some reset was verified unless there was none to make.
THEOREM VerdictsTrue == Spec => []VerdictTrue
<1>1. Init => Justified
  BY DEF Init, Justified, Answered
<1>2. Justified => VerdictTrue
  BY DEF Justified, VerdictTrue, Deserved
<1>3. QED
  BY <1>1, <1>2, TypesInit, TypesNext, SoundInit, SoundNext, BasedInit, BasedNext, JustifiedNext, PTL DEF Spec
=============================================================================
