------------------------ MODULE OrchestratorProofs ------------------------
(* Proofs about Orchestrator, for any nodes, groups, deployments and faults. *)
EXTENDS Orchestrator, TLAPS, FiniteSetTheorems, NaturalsInduction, WellFoundedInduction

-----------------------------------------------------------------------------
(* Facts about the constants and the plan *)

LEMMA DeploymentFacts ==
    ASSUME cfg \in Deployments
    PROVE  /\ Mode \in [Node -> Modes] /\ Bound \in [Node -> SG \cup {Unbound}]
           /\ Enabled \subseteq SG /\ Configured \subseteq SG /\ Requested \in Nat /\ cfg.cap \in Nat
           /\ cfg.inventories \subseteq SUBSET SG /\ cfg.discovers \in BOOLEAN
BY DeploymentAssumption DEF Deployment, Mode, Bound, Enabled, Configured, Requested

LEMMA CountIsNat == \A g \in SUBSET SG : Cardinality(g) \in Nat
BY GroupAssumption, FS_Subset, FS_CardinalityType

LEMMA PlanTypes ==
    ASSUME cfg \in Deployments, NEW n \in Node, NEW g \in SUBSET SG
    PROVE  /\ Desired(n, g) \in SUBSET SG
           /\ WorkerCount(n, g) \in Nat
           /\ EffectiveTarget(n, g) \in Nat
<1>1. Desired(n, g) \in SUBSET SG
  BY DeploymentFacts DEF Desired
<1>2. Cardinality(g) \in Nat /\ Cardinality(Desired(n, g)) \in Nat
  BY <1>1, CountIsNat
<1>3. \A c, r \in Nat : r # 0 => (c + r - 1) \div r \in Nat
  OBVIOUS
<1>4. WorkerCount(n, g) \in Nat
  BY <1>2, <1>3, DeploymentFacts DEF WorkerCount
<1>5. EffectiveTarget(n, g) \in Nat
  BY <1>2, DeploymentFacts DEF EffectiveTarget
<1>6. QED
  BY <1>1, <1>4, <1>5

\* Two nodes that write one file have one role.
LEMMA FilesApart ==
    ASSUME cfg \in Deployments, NEW m \in Node, NEW n \in Node
    PROVE  /\ PidFile(n) \in PidFiles
           /\ PidFile(m) = PidFile(n) => SamePidFile(m, n)
<1>1. Bound[m] \in SG \cup {Unbound} /\ Bound[n] \in SG \cup {Unbound}
  BY DeploymentFacts
<1>2. ControllerFile \notin SG \cup {Unbound}
  BY GroupAssumption DEF ControllerFile, Unbound
<1>3. QED
  BY <1>1, <1>2 DEF PidFile, PidFiles, SamePidFile

\* The group that is tested is one that was acquired or is held.
LEMMA LowestIn == \A s \in SUBSET SG : s # {} => Lowest(s) \in s
<1> SUFFICES ASSUME NEW s \in SUBSET SG, s # {} PROVE Lowest(s) \in s
  OBVIOUS
<1>1. \E g \in s : \A h \in s : ~ (<<h, g>> \in OpToRel(<, Nat))
  BY GroupAssumption, NatLessThanWellFounded, WFMin
<1>2. \A g, h \in Nat : ~ (<<h, g>> \in OpToRel(<, Nat)) => g <= h
  BY DEF OpToRel
<1>3. \E g \in s : \A h \in s : g <= h
  BY <1>1, <1>2, GroupAssumption
<1>4. QED
  BY <1>3 DEF Lowest

-----------------------------------------------------------------------------
(* Types *)

LEMMA TypeInit == Init => TypeOK
BY BoundAssumption DEF Init, TypeOK, PCs, NoSnapshot, PidFiles, Unbound

LEMMA StartTypes == TypeOK => \A n \in Node : StartGroups(n) \in SUBSET SG
BY DeploymentFacts, GroupAssumption DEF StartGroups, TypeOK

LEMMA TypeBuild == ASSUME TypeOK, NEW n \in Node, Build(n), UNCHANGED cfg PROVE TypeOK'
<1> USE DEF TypeOK, PCs, Goto, memory, leases, files
<1>1. CASE Start(n)
  BY <1>1, StartTypes, PlanTypes DEF Start, Begin, Adopt
<1>2. CASE StartFails(n) \/ StartProbe(n) \/ Publish(n)
  BY <1>2 DEF StartFails, StartProbe, Publish
<1>3. CASE Enter(n)
  BY <1>3, FilesApart DEF Enter
<1>4. QED
  BY <1>1, <1>2, <1>3 DEF Build

LEMMA TypeDiscovery ==
    ASSUME TypeOK, NEW n \in Node, UNCHANGED cfg,
           Truncate(n) \/ ProbeFails(n) \/ Persist(n) \/ PersistFails(n)
    PROVE  TypeOK'
<1> USE DEF TypeOK, PCs, Goto, memory, leases, files, Fault
<1>1. CASE Truncate(n)
  BY <1>1, DeploymentFacts DEF Truncate, Torn
<1>2. CASE ProbeFails(n) \/ PersistFails(n)
  BY <1>2, BoundAssumption DEF ProbeFails, PersistFails, AfterError
<1>3. CASE Persist(n)
  <2>1. /\ snapshot' \in [state : {"none", "torn", "whole"}, groups : SUBSET SG]
        /\ faults' \in 0..MaxFaults
    BY <1>3, BoundAssumption DEF Persist, Whole
  <2>2. Desired(n, groups[n]) \in SUBSET SG /\ WorkerCount(n, groups[n]) \in Nat
        /\ EffectiveTarget(n, groups[n]) \in Nat
    BY PlanTypes
  <2>3. CASE pc[n] = "writing"
    <3>1. /\ groups' \in [Node -> SUBSET SG] /\ desired' \in [Node -> SUBSET SG]
          /\ workers' \in [Node -> Nat]
      BY <1>3, <2>2, <2>3 DEF Persist, Adopt
    <3>2. ready' \in [Node -> BOOLEAN] /\ pc' \in [Node -> PCs]
      BY <1>3, <2>3 DEF Persist
    <3>3. QED
      BY <1>3, <2>1, <2>3, <3>1, <3>2 DEF Persist
  <2>4. CASE pc[n] # "writing"
    BY <1>3, <2>1, <2>2, <2>4 DEF Persist, Begin, Adopt
  <2>5. QED
    BY <2>3, <2>4
<1>4. QED
  BY <1>1, <1>2, <1>3

LEMMA TypeEmit == ASSUME TypeOK, NEW n \in Node, Emit(n), UNCHANGED cfg PROVE TypeOK'
<1> USE DEF TypeOK, PCs, Goto, memory, leases, files
<1>1. CASE EmitRefreshes(n) \/ EmitFails(n) \/ EmitAsIs(n)
  BY <1>1 DEF EmitRefreshes, EmitFails, EmitAsIs, AfterError
<1>0. CASE EmitAgain(n)
  BY <1>0, StartTypes, PlanTypes DEF EmitAgain, Adopt
<1>2. CASE EmitPublishes(n)
  <2> DEFINE g == IF Present THEN snapshot.groups ELSE Enabled
  <2>1. g \in SUBSET SG
    BY DeploymentFacts
  <2>2. Desired(n, g) \in SUBSET SG /\ WorkerCount(n, g) \in Nat
    BY <2>1, PlanTypes
  <2>3. groups' \in [Node -> SUBSET SG] /\ desired' \in [Node -> SUBSET SG]
        /\ workers' \in [Node -> Nat] /\ ready' \in [Node -> BOOLEAN]
    <3>1. \/ Adopt(n, g) /\ ready' = [ready EXCEPT ![n] = TRUE]
          \/ groups' = [groups EXCEPT ![n] = g] /\ UNCHANGED <<desired, workers, ready>>
      BY <1>2 DEF EmitPublishes
    <3> HIDE DEF g
    <3>2. CASE Adopt(n, g) /\ ready' = [ready EXCEPT ![n] = TRUE]
      BY <2>1, <2>2, <3>2 DEF Adopt
    <3>3. CASE groups' = [groups EXCEPT ![n] = g] /\ UNCHANGED <<desired, workers, ready>>
      BY <2>1, <3>3
    <3>4. QED
      BY <3>1, <3>2, <3>3
  <2>4. snapshot' \in [state : {"none", "torn", "whole"}, groups : SUBSET SG]
    BY <1>2 DEF EmitPublishes, Torn
  <2>5. pc' \in [Node -> PCs]
    BY <1>2 DEF EmitPublishes
  <2>6. QED
    BY <1>2, <2>3, <2>4, <2>5 DEF EmitPublishes
<1>3. QED
  BY <1>0, <1>1, <1>2 DEF Emit

\* A tick of a manager drops the leases it has lost and takes some of those that are free.
Takes(n, a) ==
    /\ owner' = [g \in SG |-> IF g \in a THEN n ELSE owner[g]]
    /\ held' = [held EXCEPT ![n] = {g \in held[n] : owner[g] = n} \cup a]
    /\ acquired' = [acquired EXCEPT ![n] = a]

LEMMA TickTakes ==
    ASSUME TypeOK, NEW n \in Node, Coordinate(n)
    PROVE  UNCHANGED <<owner, held, acquired>> \/ \E a \in SUBSET FreeFor(n) : Takes(n, a)
<1>1. CASE Mode[n] = "controller"
  BY <1>1 DEF Coordinate
<1>2. CASE Mode[n] # "controller"
  BY <1>2 DEF Coordinate, Takes
<1>3. QED
  BY <1>1, <1>2

\* What a node that leaves changes besides its leases.
LEMMA LeaveFrame ==
    ASSUME NEW n \in Node, Leave(n)
    PROVE  /\ pc[n] = "leaving" /\ pc' = [pc EXCEPT ![n] = "ended"]
           /\ pidfile' = [pidfile EXCEPT ![PidFile(n)] = None]
           /\ UNCHANGED <<groups, desired, workers, target, acquired, ready, probed, tested>>
           /\ UNCHANGED <<stop, snapshot>>
BY DEF Leave, Goto

\* A node that leaves gives back some of its own leases.
LEMMA LeaveGives ==
    ASSUME NEW n \in Node, Leave(n)
    PROVE  \E given \in SUBSET Mine(n), resigns \in BOOLEAN : ReleaseAll(n, given, resigns)
<1>1. TRUE \in BOOLEAN /\ Mine(n) \in SUBSET Mine(n)
  OBVIOUS
<1>2. \/ ReleaseAll(n, Mine(n), TRUE)
      \/ \E given \in SUBSET Mine(n), resigns \in BOOLEAN : ReleaseAll(n, given, resigns)
  BY Zenon DEF Leave
<1>3. QED
  BY <1>1, <1>2, Zenon

LEMMA TypeLoop ==
    ASSUME TypeOK, NEW n \in Node, UNCHANGED cfg,
           Coordinate(n) \/ RunTests(n) \/ TestOnce(n) \/ Wake(n) \/ Leave(n)
    PROVE  TypeOK'
<1> USE DEF TypeOK, PCs, Goto, memory, leases, files
<1>1. CASE Coordinate(n)
  <2>1. FreeFor(n) \subseteq SG
    BY DEF FreeFor
  <2>2. /\ owner' \in [SG -> Node \cup {None}]
        /\ held' \in [Node -> SUBSET SG] /\ acquired' \in [Node -> SUBSET SG]
    <3>1. CASE UNCHANGED <<owner, held, acquired>>
      BY <3>1
    <3>2. CASE \E a \in SUBSET FreeFor(n) : Takes(n, a)
      BY <2>1, <3>2 DEF Takes
    <3>3. QED
      BY <1>1, <3>1, <3>2, TickTakes
  <2>3. leader' \in Node \cup {None}
    BY <1>1 DEF Coordinate, Elect
  <2>4. QED
    BY <1>1, <2>2, <2>3 DEF Coordinate
<1>2. CASE RunTests(n) \/ TestOnce(n)
  <2>1. held[n] # {} => WorkGroup(n) \in SG
    BY LowestIn DEF WorkGroup
  <2>2. CASE RunTests(n)
    BY <2>1, <2>2 DEF RunTests
  <2>3. CASE TestOnce(n)
    BY <2>1, <2>3 DEF TestOnce
  <2>4. QED
    BY <1>2, <2>2, <2>3
<1>3. CASE Wake(n)
  BY <1>3 DEF Wake, AfterSleep
<1>4. CASE Leave(n)
  <2>1. PICK given \in SUBSET Mine(n), resigns \in BOOLEAN : ReleaseAll(n, given, resigns)
    BY <1>4, LeaveGives, Zenon
  <2>2. faults' \in 0..MaxFaults
    <3>1. UNCHANGED faults \/ Fault
      BY <1>4 DEF Leave
    <3>2. QED
      BY <3>1, BoundAssumption DEF Fault
  <2>3. /\ owner' \in [SG -> Node \cup {None}] /\ leader' \in Node \cup {None}
        /\ held' \in [Node -> SUBSET SG] /\ kept' \in [Node -> SUBSET SG]
    BY <2>1 DEF ReleaseAll, Mine
  <2>4. pidfile' \in [PidFiles -> Node \cup {None}] /\ pc' \in [Node -> PCs]
    BY <1>4, LeaveFrame, FilesApart
  <2>5. QED
    BY <1>4, <2>2, <2>3, <2>4, LeaveFrame
<1>5. QED
  BY <1>1, <1>2, <1>3, <1>4

LEMMA TypeNext == TypeOK /\ [Next]_vars => TypeOK'
<1> SUFFICES ASSUME TypeOK, [Next]_vars PROVE TypeOK'
  OBVIOUS
<1>1. ASSUME NEW n \in Node, Stop(n), UNCHANGED cfg PROVE TypeOK'
  BY <1>1 DEF TypeOK, memory, leases, files, Stop
<1>2. ASSUME NEW n \in Node, Die(n) \/ Restart(n), UNCHANGED cfg PROVE TypeOK'
  <2>1. faults' \in 0..MaxFaults /\ pc' \in [Node -> PCs]
    BY <1>2, BoundAssumption DEF Die, Restart, Fault, Goto, TypeOK, PCs
  <2>2. Forget(n) /\ UNCHANGED <<cfg, leases, files>>
    BY <1>2 DEF Die, Restart
  <2>3. /\ groups' \in [Node -> SUBSET SG] /\ desired' \in [Node -> SUBSET SG]
        /\ workers' \in [Node -> Nat] /\ target' \in [Node -> Nat]
        /\ held' \in [Node -> SUBSET SG] /\ kept' \in [Node -> SUBSET SG]
        /\ acquired' \in [Node -> SUBSET SG]
        /\ ready' \in [Node -> BOOLEAN] /\ probed' \in [Node -> BOOLEAN]
        /\ stop' \in [Node -> BOOLEAN] /\ tested' \in [Node -> SG \cup {Unbound}]
    BY <2>2 DEF TypeOK, Forget
  <2>4. QED
    BY <2>1, <2>2, <2>3 DEF TypeOK, leases, files
<1>3. ASSUME (\E g \in SG : Expire(g)) \/ LeaderExpires, UNCHANGED cfg PROVE TypeOK'
  BY <1>3 DEF TypeOK, memory, files, Expire, LeaderExpires
<1>4. CASE UNCHANGED vars
  BY <1>4 DEF TypeOK, vars, memory, leases, files
<1>5. QED
  BY <1>1, <1>2, <1>3, <1>4, TypeBuild, TypeDiscovery, TypeEmit, TypeLoop
     DEF Next, Step, Loop, Tick, TickOnce

\* TypeOK: the types of what a node keeps, and of the files.
THEOREM TypeCorrect == Spec => []TypeOK
BY TypeInit, TypeNext, PTL DEF Spec

-----------------------------------------------------------------------------
(* What a node that leaves gives back *)

\* A node that is not in its loop believes to hold nothing, or nothing that is still its.
Outside == {"off", "probing_start", "writing_start", "built", "published", "dead"}
Left ==
    /\ \A n \in Node : pc[n] \in Outside => held[n] = {}
    /\ GivenBack

LEMMA LeftInit == Init => Left
BY DEF Init, Left, Outside, GivenBack

LEMMA LeftNext == TypeOK /\ Left /\ [Next]_vars => Left'
<1> SUFFICES ASSUME TypeOK, Left, [Next]_vars PROVE Left'
  OBVIOUS
<1> USE DEF Left, Outside, GivenBack, TypeOK, Goto, memory, leases, files
<1>1. ASSUME NEW n \in Node, Build(n) PROVE Left'
  BY <1>1 DEF Build, Start, Begin, Adopt, StartFails, StartProbe, Publish, Enter
<1>2. ASSUME NEW n \in Node, Tick(n) \/ TickOnce(n) PROVE Left'
  <2>1. pc[n] \in {"ready", "built"} /\ pc' = [pc EXCEPT ![n] = "ticked"] /\ Coordinate(n)
    BY <1>2 DEF Tick, TickOnce, Coordinate
  <2>2. CASE UNCHANGED <<owner, held, acquired>>
    BY <2>1, <2>2 DEF Coordinate
  <2>3. ASSUME NEW a \in SUBSET FreeFor(n), Takes(n, a) PROVE Left'
    <3>1. \A m \in Node \ {n} : held'[m] = held[m] /\ pc'[m] = pc[m] /\ kept'[m] = kept[m]
      BY <2>1, <2>3 DEF Takes, Coordinate
    <3>2. \A g \in SG : owner'[g] \in {owner[g], n}
      BY <2>3 DEF Takes
    <3>3. QED
      BY <2>1, <3>1, <3>2
  <2>4. QED
    BY <2>1, <2>2, <2>3, TickTakes
<1>3. ASSUME NEW n \in Node,
             Emit(n) \/ Truncate(n) \/ RunTests(n) \/ TestOnce(n) \/ Wake(n) \/ Persist(n)
      PROVE  Left'
  <2>1. held' = held /\ owner' = owner /\ kept' = kept
    BY <1>3 DEF Emit, EmitRefreshes, EmitPublishes, EmitFails, EmitAgain, EmitAsIs, Truncate, RunTests,
                TestOnce, Wake, Persist, Begin
  <2>2. /\ \A m \in Node \ {n} : pc'[m] = pc[m]
        /\ pc'[n] # "ended" /\ (pc'[n] \in Outside => pc[n] \in Outside)
    <3>1. CASE Emit(n)
      BY <3>1 DEF Emit, EmitRefreshes, EmitPublishes, EmitFails, EmitAgain, EmitAsIs, AfterError
    <3>2. CASE Truncate(n) \/ RunTests(n) \/ TestOnce(n) \/ Wake(n)
      BY <3>2 DEF Truncate, RunTests, TestOnce, Wake, AfterSleep, Probing
    <3>3. CASE Persist(n)
      BY <3>3 DEF Persist, Begin, Writing
    <3>4. QED
      BY <1>3, <3>1, <3>2, <3>3
  <2>3. QED
    BY <2>1, <2>2
<1>4. ASSUME NEW n \in Node, Leave(n) PROVE Left'
  <2>1. pc' = [pc EXCEPT ![n] = "ended"]
    BY <1>4, LeaveFrame
  <2>2. PICK given \in SUBSET Mine(n), resigns \in BOOLEAN : ReleaseAll(n, given, resigns)
    BY <1>4, LeaveGives, Zenon
  <2>3. \A m \in Node \ {n} : held'[m] = held[m] /\ kept'[m] = kept[m]
    BY <2>2 DEF ReleaseAll
  <2>4. \A g \in SG : owner'[g] = owner[g] \/ owner'[g] = None
    BY <2>2 DEF ReleaseAll
  <2>5. ASSUME NEW g \in held'[n], owner'[g] = n PROVE g \in kept'[n]
    <3>1. g \in held[n] \ given /\ owner[g] = n
      BY <2>2, <2>5, NodeAssumption DEF ReleaseAll
    <3>2. kept'[n] = Mine(n) \ given
      BY <2>2 DEF ReleaseAll
    <3>3. QED
      BY <3>1, <3>2 DEF Mine
  <2>6. QED
    BY <2>1, <2>3, <2>4, <2>5, NodeAssumption
<1>5. ASSUME NEW n \in Node, ProbeFails(n) \/ PersistFails(n) \/ Stop(n) PROVE Left'
  BY <1>5 DEF ProbeFails, PersistFails, Stop, Probing, Writing, AfterError
<1>6. ASSUME NEW n \in Node, Die(n) \/ Restart(n) PROVE Left'
  <2>1. /\ held' = [held EXCEPT ![n] = {}] /\ owner' = owner
        /\ kept' = [kept EXCEPT ![n] = {}]
    BY <1>6 DEF Die, Restart, Forget
  <2>2. \A m \in Node \ {n} : pc'[m] = pc[m]
    BY <1>6 DEF Die, Restart
  <2>3. QED
    BY <2>1, <2>2
<1>7. ASSUME (\E g \in SG : Expire(g)) \/ LeaderExpires PROVE Left'
  BY <1>7, NodeAssumption DEF Expire, LeaderExpires
<1>8. CASE UNCHANGED vars
  BY <1>8 DEF vars
<1>9. QED
  BY <1>1, <1>2, <1>3, <1>4, <1>5, <1>6, <1>7, <1>8 DEF Next, Step, Loop

\* GivenBack: however its loop ended, a node that has ended owns none of the leases it held, but
\* those whose release failed or was skipped.
THEOREM AllGivenBack == Spec => []GivenBack
<1>1. Left => GivenBack
  BY DEF Left
<1>2. QED
  BY <1>1, TypeInit, TypeNext, LeftInit, LeftNext, PTL DEF Spec

-----------------------------------------------------------------------------
(* Pid files *)

\* Only a node that discovers writes before it is in its loop, and one that makes a single turn
\* never has a loop to enter or to leave.
Prober ==
    \A n \in Node :
        /\ pc[n] \in {"probing_start", "writing_start"} => cfg.discovers
        /\ n \in cfg.once => pc[n] \notin {"published", "ready", "sleeping", "leaving"}

LEMMA ProberNext == TypeOK /\ Prober /\ [Next]_vars => Prober'
<1> SUFFICES ASSUME TypeOK, Prober, [Next]_vars PROVE Prober'
  OBVIOUS
<1>1. cfg' = cfg
  BY DEF Next, vars
<1> USE <1>1 DEF Prober, Goto, TypeOK
<1>2. ASSUME NEW n \in Node, Build(n) \/ Stop(n) \/ Die(n) \/ Restart(n) PROVE Prober'
  BY <1>2 DEF Build, Start, Begin, StartFails, StartProbe, Publish, Enter, Stop, Die, Restart
<1>3. ASSUME NEW n \in Node, Truncate(n) \/ ProbeFails(n) \/ Persist(n) \/ PersistFails(n) PROVE Prober'
  BY <1>3 DEF Truncate, ProbeFails, Persist, PersistFails, Begin, Probing, Writing, AfterError
<1>4. ASSUME NEW n \in Node,
             Coordinate(n) \/ Emit(n) \/ RunTests(n) \/ TestOnce(n) \/ Wake(n)
      PROVE  Prober'
  BY <1>4 DEF Coordinate, Emit, EmitRefreshes, EmitPublishes, EmitFails, EmitAgain, EmitAsIs, RunTests,
              TestOnce, Wake, AfterSleep, AfterError
<1>7. ASSUME NEW n \in Node, Leave(n) PROVE Prober'
  BY <1>7, LeaveFrame
<1>5. ASSUME (\E g \in SG : Expire(g)) \/ LeaderExpires \/ UNCHANGED vars PROVE Prober'
  BY <1>5 DEF Expire, LeaderExpires, vars
<1>6. QED
  BY <1>2, <1>3, <1>4, <1>5, <1>7 DEF Next, Step, Loop, Tick, TickOnce

\* The file of a node in its loop that shares its role with nobody.
LEMMA TruthNext == TypeOK /\ Prober /\ PidFileTruth /\ [Next]_vars => PidFileTruth'
<1> SUFFICES ASSUME TypeOK, Prober, PidFileTruth, [Next]_vars,
                    NEW n \in Looping', InLoop(n)', \A m \in Looping' \ {n} : ~SamePidFile(m, n)'
             PROVE  pidfile'[PidFile(n)'] = n
  BY DEF PidFileTruth
<1>1. cfg' = cfg /\ Looping' = Looping
  BY DEF Next, vars, Looping
<1>0. n \in Node /\ n \notin cfg.once
  BY <1>1 DEF Looping
<1>2. /\ PidFile(n)' = PidFile(n)
      /\ \A m \in Looping \ {n} : ~SamePidFile(m, n) /\ PidFile(m) # PidFile(n)
  BY <1>0, <1>1, FilesApart DEF PidFile, SamePidFile, Mode, Bound, TypeOK, Looping
<1>3. PidFile(n) \in PidFiles
  BY <1>0, FilesApart DEF TypeOK
<1> USE <1>0 DEF InLoop, Alive, Goto, TypeOK
<1>4. CASE Enter(n)
  BY <1>2, <1>3, <1>4 DEF Enter
<1>5. CASE ~Enter(n)
  <2>1. InLoop(n)
    <3>1. ASSUME NEW m \in Node, Build(m) PROVE InLoop(n)
      <4>1. CASE m # n
        <5>1. pc'[n] = pc[n]
          BY <3>1, <4>1 DEF Build, Start, Begin, StartFails, StartProbe, Publish, Enter
        <5>2. QED
          BY <5>1
      <4>2. CASE m = n
        <5>1. Start(n) \/ StartFails(n) \/ StartProbe(n) \/ Publish(n)
          BY <1>5, <3>1, <4>2 DEF Build
        <5>2. pc'[n] \in {"built", "ended", "probing_start", "published"}
          BY <5>1 DEF Start, Begin, StartFails, StartProbe, Publish
        <5>3. QED
          BY <5>2
      <4>3. QED
        BY <4>1, <4>2
    <3>2. ASSUME NEW m \in Node, Loop(m) PROVE InLoop(n)
      <4>1. CASE Tick(m) \/ RunTests(m) \/ Wake(m) \/ Leave(m) \/ Truncate(m)
        BY <4>1 DEF Tick, Coordinate, RunTests, Wake, AfterSleep, Leave, Truncate, Probing
      <4>5. CASE TickOnce(m) \/ TestOnce(m)
        BY <4>5 DEF TickOnce, Coordinate, TestOnce
      <4>2. CASE Emit(m)
        BY <4>2 DEF Emit, EmitRefreshes, EmitPublishes, EmitFails, EmitAgain, EmitAsIs
      <4>3. CASE Persist(m)
        BY <4>3 DEF Persist, Begin, Writing
      <4>4. QED
        BY <3>2, <4>1, <4>2, <4>3, <4>5 DEF Loop
    <3>3. ASSUME NEW m \in Node, ProbeFails(m) \/ PersistFails(m) \/ Stop(m) PROVE InLoop(n)
      BY <3>3 DEF ProbeFails, PersistFails, Stop, Probing, Writing, Prober
    <3>4. ASSUME NEW m \in Node, Die(m) \/ Restart(m) PROVE InLoop(n)
      BY <3>4 DEF Die, Restart
    <3>5. ASSUME (\E g \in SG : Expire(g)) \/ LeaderExpires \/ UNCHANGED vars PROVE InLoop(n)
      BY <3>5 DEF Expire, LeaderExpires, vars
    <3>6. QED
      BY <3>1, <3>2, <3>3, <3>4, <3>5 DEF Next, Step
  <2>2. pidfile[PidFile(n)] = n
    BY <1>2, <2>1 DEF PidFileTruth, Looping
  <2>3. ~Leave(n)
    BY DEF Leave
  <2>4. pidfile'[PidFile(n)] = pidfile[PidFile(n)]
    <3>1. ASSUME NEW m \in Node \ {n}, Enter(m) \/ Leave(m) PROVE pidfile'[PidFile(n)] = pidfile[PidFile(n)]
      <4>1. pc[m] \in {"published", "leaving"} /\ \E o : pidfile' = [pidfile EXCEPT ![PidFile(m)] = o]
        BY <3>1, LeaveFrame DEF Enter
      <4>2. QED
        BY <1>2, <1>3, <3>1, <4>1 DEF Prober, Looping
    <3>2. CASE UNCHANGED pidfile
      BY <3>2
    <3>3. (\E m \in Node \ {n} : Enter(m) \/ Leave(m)) \/ UNCHANGED pidfile
      BY <1>5, <2>3 DEF Next, Step, Build, Start, StartFails, StartProbe, Publish, Loop, Tick, TickOnce,
         Coordinate, Emit, EmitRefreshes, EmitPublishes, EmitFails, EmitAgain, EmitAsIs, Truncate, Persist,
         RunTests, TestOnce, Wake, ProbeFails, PersistFails, Stop, Die, Restart, Expire, LeaderExpires, files, vars
    <3>4. QED
      BY <3>1, <3>2, <3>3
  <2>5. QED
    BY <1>2, <2>2, <2>4
<1>6. QED
  BY <1>4, <1>5

\* PidFileTruth: a running node's pid file names it, unless another node has its role.
THEOREM PidFilesTrue == Spec => []PidFileTruth
<1>1. Init => PidFileTruth /\ Prober
  BY DEF Init, PidFileTruth, Looping, InLoop, Alive, Prober
<1>2. QED
  BY <1>1, TypeInit, TypeNext, TruthNext, ProberNext, PTL DEF Spec

-----------------------------------------------------------------------------
(* What is tested *)

\* Since its last tick, and unless it has spent the time in a discovery, a node owns what it
\* holds: only a silent node's records expire, and only free records are taken.
AfterTick == {"ticked", "writing", "emitting"}
Fresh ==
    \A n \in Node :
        /\ Mode[n] = "controller" => held[n] = {} /\ acquired[n] = {}
        /\ pc[n] = "probing" => probed[n]
        /\ pc[n] \in AfterTick /\ ~probed[n] =>
              acquired[n] \subseteq held[n] /\ \A g \in held[n] : owner[g] = n

LEMMA FreshInit == Init => Fresh
BY DEF Init, Fresh, AfterTick

LEMMA FreshNext == TypeOK /\ Fresh /\ [Next]_vars => Fresh'
<1> SUFFICES ASSUME TypeOK, Fresh, [Next]_vars PROVE Fresh'
  OBVIOUS
<1>0. cfg' = cfg /\ Mode' = Mode
  BY DEF Next, vars, Mode
<1> USE <1>0 DEF Fresh, AfterTick, TypeOK, Goto, memory, leases, files
<1>1. ASSUME NEW n \in Node, Build(n) \/ Stop(n) PROVE Fresh'
  <2>1. UNCHANGED <<held, acquired, probed, owner>>
    BY <1>1 DEF Build, Start, Begin, StartFails, StartProbe, Publish, Enter, Stop
  <2>2. \A m \in Node : pc'[m] = pc[m] \/ pc'[m] \notin AfterTick \cup {"probing"}
    BY <1>1 DEF Build, Start, Begin, StartFails, StartProbe, Publish, Enter, Stop
  <2>3. QED
    BY <2>1, <2>2
<1>2. ASSUME NEW n \in Node, Coordinate(n) PROVE Fresh'
  <2>1. pc' = [pc EXCEPT ![n] = "ticked"] /\ UNCHANGED probed
    BY <1>2 DEF Coordinate
  <2>2. CASE Mode[n] = "controller"
    BY <1>2, <2>1, <2>2 DEF Coordinate
  <2>3. CASE Mode[n] # "controller"
    <3>1. PICK a \in SUBSET FreeFor(n) : Takes(n, a)
      BY <1>2, <2>3 DEF Coordinate, Takes
    <3>2. a \subseteq SG /\ \A g \in a : owner[g] \in {None, n}
      BY DEF FreeFor
    <3>3. acquired'[n] \subseteq held'[n] /\ \A g \in held'[n] : owner'[g] = n
      BY <3>1, <3>2 DEF Takes
    <3>4. \A m \in Node \ {n} : /\ UNCHANGED <<held[m], acquired[m], probed[m], pc[m]>>
                                /\ \A g \in SG : owner[g] = m => owner'[g] = m
      BY <2>1, <3>1, <3>2, NodeAssumption DEF Takes
    <3>5. QED
      BY <2>1, <2>3, <3>3, <3>4
  <2>4. QED
    BY <2>2, <2>3
<1>3. ASSUME NEW n \in Node, Emit(n) PROVE Fresh'
  <2>1. UNCHANGED <<held, acquired, owner>>
    BY <1>3 DEF Emit, EmitRefreshes, EmitPublishes, EmitFails, EmitAgain, EmitAsIs, AfterError
  <2>2. \A m \in Node \ {n} : UNCHANGED <<pc[m], probed[m]>>
    BY <1>3 DEF Emit, EmitRefreshes, EmitPublishes, EmitFails, EmitAgain, EmitAsIs, AfterError
  <2>3. pc[n] = "ticked" /\ (UNCHANGED probed[n] \/ probed'[n])
        /\ (pc'[n] = "probing" => probed'[n])
    BY <1>3 DEF Emit, EmitRefreshes, EmitPublishes, EmitFails, EmitAgain, EmitAsIs, AfterError
  <2>4. QED
    BY <2>1, <2>2, <2>3
<1>4. ASSUME NEW n \in Node, Truncate(n) \/ ProbeFails(n) \/ Persist(n) \/ PersistFails(n) PROVE Fresh'
  <2>1. UNCHANGED <<held, acquired, probed, owner>>
    BY <1>4 DEF Truncate, ProbeFails, Persist, PersistFails, Begin
  <2>2. /\ \A m \in Node \ {n} : pc'[m] = pc[m]
        /\ pc'[n] # "probing" /\ (pc'[n] \in AfterTick => pc[n] = "probing" \/ pc[n] = "writing")
    <3>1. CASE Truncate(n) \/ ProbeFails(n) \/ PersistFails(n)
      BY <3>1 DEF Truncate, ProbeFails, PersistFails, Probing, Writing, AfterError
    <3>2. CASE Persist(n)
      BY <3>2 DEF Persist, Begin, Writing
    <3>3. QED
      BY <1>4, <3>1, <3>2
  <2>3. QED
    BY <2>1, <2>2
<1>5. ASSUME NEW n \in Node, RunTests(n) \/ TestOnce(n) \/ Wake(n) PROVE Fresh'
  BY <1>5 DEF RunTests, TestOnce, Wake, AfterSleep
<1>6. ASSUME NEW n \in Node, Leave(n) PROVE Fresh'
  <2>1. PICK given \in SUBSET Mine(n), resigns \in BOOLEAN : ReleaseAll(n, given, resigns)
    BY <1>6, LeaveGives, Zenon
  <2>2. held' = [held EXCEPT ![n] = held[n] \ given] /\ \A g \in given : owner[g] = n
    BY <2>1 DEF ReleaseAll, Mine
  <2>3. \A g \in SG : owner'[g] = owner[g] \/ (owner'[g] = None /\ owner[g] = n)
    BY <2>1, <2>2 DEF ReleaseAll
  <2>4. pc' = [pc EXCEPT ![n] = "ended"] /\ UNCHANGED <<acquired, probed>>
    BY <1>6, LeaveFrame
  <2>5. QED
    BY <2>2, <2>3, <2>4
<1>7. ASSUME NEW n \in Node, Die(n) \/ Restart(n) PROVE Fresh'
  <2>1. /\ held' = [held EXCEPT ![n] = {}] /\ acquired' = [acquired EXCEPT ![n] = {}]
        /\ probed' = [probed EXCEPT ![n] = FALSE] /\ owner' = owner
    BY <1>7 DEF Die, Restart, Forget
  <2>2. pc' \in {[pc EXCEPT ![n] = "dead"], [pc EXCEPT ![n] = "off"]}
    BY <1>7 DEF Die, Restart
  <2>3. QED
    BY <2>1, <2>2
<1>8. ASSUME NEW g \in SG, Expire(g) PROVE Fresh'
  <2>1. \A m \in Node : pc[m] \in AfterTick => ~Silent(m)
    BY DEF Silent, InLoop, Alive, Probing
  <2>2. QED
    BY <1>8, <2>1 DEF Expire
<1>9. ASSUME LeaderExpires \/ UNCHANGED vars PROVE Fresh'
  BY <1>9 DEF LeaderExpires, vars
<1>10. QED
  BY <1>1, <1>2, <1>3, <1>4, <1>5, <1>6, <1>7, <1>8, <1>9 DEF Next, Step, Loop, Tick, TickOnce

\* TestsUnderLease: a node tests a group while it owns the lease, unless it has discovered
\* in between.
THEOREM TestedUnderLease == Spec => TestsUnderLease
<1>1. ASSUME TypeOK, Fresh, [Next]_vars,
             NEW n \in Node, tested'[n] # tested[n], tested'[n] # Unbound
      PROVE  owner[tested'[n]] = n \/ probed[n]
  <2>1. RunTests(n) \/ TestOnce(n)
    BY <1>1, LeaveFrame DEF Next, Step, Build, Start, StartFails, StartProbe, Publish, Enter, Begin, Loop, Tick, TickOnce,
         Coordinate, Emit, EmitRefreshes, EmitPublishes, EmitFails, EmitAgain, EmitAsIs, Truncate, Persist,
         RunTests, TestOnce, Wake, ProbeFails, PersistFails, Stop, Die, Restart, Forget, Expire, LeaderExpires, memory, vars, TypeOK
  <2>2. pc[n] = "emitting" /\ held[n] # {} /\ tested'[n] = WorkGroup(n)
    BY <1>1, <2>1 DEF RunTests, TestOnce, TypeOK
  <2>3. WorkGroup(n) \in acquired[n] \cup held[n]
    BY <1>1, <2>2, LowestIn DEF WorkGroup, TypeOK
  <2>4. QED
    BY <1>1, <2>2, <2>3 DEF Fresh, AfterTick
<1>2. TypeOK /\ Fresh /\ [Next]_vars =>
        [\A n \in Node : tested'[n] # tested[n] /\ tested'[n] # Unbound =>
              owner[tested'[n]] = n \/ probed[n]]_vars
  BY <1>1
<1>3. QED
  BY <1>2, TypeInit, TypeNext, FreshInit, FreshNext, PTL DEF Spec, TestsUnderLease

-----------------------------------------------------------------------------
(* The plan *)

\* Rounding up: enough for c groups of r, and none to spare.
LEMMA RoundsUp ==
    ASSUME NEW c \in Nat, NEW r \in Nat, r # 0
    PROVE  LET q == (c + r - 1) \div r
           IN  q \in Nat /\ q * r >= c /\ (q - 1) * r < c
<1> DEFINE q == (c + r - 1) \div r
<1>1. c + r - 1 \in Nat
  OBVIOUS
<1>2. \A a \in Nat : a \div r \in Nat /\ (a \div r) * r <= a /\ a < ((a \div r) + 1) * r
  OBVIOUS
<1>3. q \in Nat /\ q * r <= c + r - 1 /\ c + r - 1 < (q + 1) * r
  BY <1>1, <1>2
<1> HIDE DEF q
<1>4. q * r >= c /\ (q - 1) * r < c
  BY <1>3
<1>5. QED
  BY <1>3, <1>4 DEF q

\* A plan covers what is desired, unless the cap cuts it.
LEMMA CountCovers ==
    ASSUME cfg \in Deployments, NEW n \in Node, NEW g \in SUBSET SG, Controls(n), Requested > 0
    PROVE  LET count == Cardinality(Desired(n, g))
               w == WorkerCount(n, g)
           IN  /\ (w - 1) * Requested < count \/ Desired(n, g) = {}
               /\ w = cfg.cap \/ w * Requested >= count
<1> DEFINE count == Cardinality(Desired(n, g))
           needed == (count + Requested - 1) \div Requested
           w == WorkerCount(n, g)
<1>1. count \in Nat /\ Requested \in Nat /\ Requested # 0 /\ cfg.cap \in Nat /\ cfg.discovers \in BOOLEAN
  BY DeploymentFacts, PlanTypes, CountIsNat
<1>2. count = 0 => Desired(n, g) = {}
  BY PlanTypes, GroupAssumption, FS_Subset, FS_EmptySet
<1>3. w = IF count = 0 THEN 0 ELSE IF cfg.cap > 0 /\ cfg.cap < needed THEN cfg.cap ELSE needed
  BY <1>1 DEF WorkerCount
<1>4. needed \in Nat /\ needed * Requested >= count /\ (needed - 1) * Requested < count
  BY <1>1, RoundsUp
<1>5. \A a, b \in Nat : a < b => (a - 1) * Requested <= (b - 1) * Requested
  BY <1>1
<1> HIDE DEF count, needed, w
<1>6. (w - 1) * Requested < count \/ Desired(n, g) = {}
  <2>1. CASE count = 0
    BY <1>2, <2>1
  <2>2. CASE count # 0 /\ w = needed
    BY <1>4, <2>2
  <2>3. CASE w = cfg.cap /\ cfg.cap < needed
    <3>1. (w - 1) * Requested <= (needed - 1) * Requested
      BY <1>1, <1>4, <1>5, <2>3
    <3>2. (w - 1) * Requested \in Int /\ (needed - 1) * Requested \in Int
      BY <1>1, <1>4, <2>3
    <3>3. QED
      BY <1>1, <1>4, <3>1, <3>2
  <2>4. QED
    BY <1>3, <2>1, <2>2, <2>3
<1>7. w = cfg.cap \/ w * Requested >= count
  <2>1. 0 * Requested = 0
    BY <1>1
  <2>2. QED
    BY <1>1, <1>3, <1>4, <2>1
<1>8. QED
  BY <1>6, <1>7 DEF count, w

\* From its start on a node has a plan made from some inventory.
Unplanned == {"off", "probing_start", "writing_start", "ended", "gone", "dead"}
Planned ==
    \A n \in Node : pc[n] \notin Unplanned =>
        \E g \in SUBSET SG : desired[n] = Desired(n, g) /\ workers[n] = WorkerCount(n, g)

LEMMA PlannedNext == TypeOK /\ Prober /\ Planned /\ [Next]_vars => Planned'
<1> SUFFICES ASSUME TypeOK, Prober, Planned, [Next]_vars,
                    NEW n \in Node, pc'[n] \notin Unplanned
             PROVE  \E g \in SUBSET SG : desired'[n] = Desired(n, g)' /\ workers'[n] = WorkerCount(n, g)'
  BY DEF Planned
<1>0. cfg' = cfg
  BY DEF Next, vars
<1>1. \A g : Desired(n, g)' = Desired(n, g) /\ WorkerCount(n, g)' = WorkerCount(n, g)
  BY <1>0 DEF Desired, WorkerCount, Controls, Mode, Configured, Enabled, Requested
<1>2. CASE \E g \in SUBSET SG : Adopt(n, g)
  BY <1>1, <1>2 DEF Adopt, TypeOK
<1>3. CASE UNCHANGED <<desired[n], workers[n]>> /\ pc[n] \notin Unplanned
  BY <1>1, <1>3 DEF Planned
<1> USE DEF TypeOK, Goto, Unplanned
<1> DEFINE Kept == UNCHANGED <<desired[n], workers[n]>> /\ pc[n] \notin Unplanned
           Goal == (\E g \in SUBSET SG : Adopt(n, g)) \/ Kept
<1>4. ASSUME NEW m \in Node, Build(m) PROVE Goal
  <2>1. CASE Start(m)
    <3>1. StartGroups(m) \in SUBSET SG
      BY StartTypes
    <3>2. CASE m = n
      BY <2>1, <3>1, <3>2 DEF Start, Begin
    <3>3. CASE m # n
      BY <2>1, <3>3 DEF Start, Begin, Adopt
    <3>4. QED
      BY <3>2, <3>3
  <2>2. CASE StartFails(m) \/ StartProbe(m) \/ Publish(m) \/ Enter(m)
    BY <2>2 DEF StartFails, StartProbe, Publish, Enter, memory
  <2>3. QED
    BY <1>4, <2>1, <2>2 DEF Build
<1>5. ASSUME NEW m \in Node, Persist(m) PROVE Goal
  <2>1. Adopt(m, groups[m])
    BY <1>5 DEF Persist, Begin
  <2>2. CASE m = n
    BY <2>1, <2>2
  <2>3. CASE m # n
    <3>1. UNCHANGED <<desired[n], workers[n]>>
      BY <2>1, <2>3 DEF Adopt
    <3>2. pc'[n] = pc[n]
      BY <1>5, <2>3 DEF Persist, Begin
    <3>3. QED
      BY <3>1, <3>2
  <2>4. QED
    BY <2>2, <2>3
<1>6. ASSUME NEW m \in Node, EmitPublishes(m) PROVE Goal
  <2> DEFINE g == IF Present THEN snapshot.groups ELSE Enabled
  <2>1. g \in SUBSET SG
    BY DeploymentFacts
  <2>2. Adopt(m, g) \/ UNCHANGED <<desired, workers>>
    BY <1>6 DEF EmitPublishes
  <2>3. pc[m] = "ticked" /\ \A k \in Node \ {m} : pc'[k] = pc[k]
    BY <1>6 DEF EmitPublishes
  <2> HIDE DEF g
  <2>4. CASE m = n
    BY <2>1, <2>2, <2>3, <2>4
  <2>5. CASE m # n
    BY <2>2, <2>3, <2>5 DEF Adopt
  <2>6. QED
    BY <2>4, <2>5
<1>13. ASSUME NEW m \in Node, EmitAgain(m) PROVE Goal
  <2>1. Adopt(m, StartGroups(m)) /\ StartGroups(m) \in SUBSET SG
    BY <1>13, StartTypes DEF EmitAgain
  <2>2. pc[m] = "ticked" /\ \A k \in Node \ {m} : pc'[k] = pc[k]
    BY <1>13 DEF EmitAgain
  <2>3. CASE m = n
    BY <2>1, <2>3
  <2>4. CASE m # n
    BY <2>1, <2>2, <2>4 DEF Adopt
  <2>5. QED
    BY <2>3, <2>4
<1>7. ASSUME NEW m \in Node, Truncate(m) \/ ProbeFails(m) \/ PersistFails(m) \/ Stop(m) PROVE Kept
  BY <1>7 DEF Truncate, ProbeFails, PersistFails, Stop, Probing, Writing, Prober, AfterError, memory
<1>8. ASSUME NEW m \in Node, Tick(m) \/ TickOnce(m) \/ EmitRefreshes(m) \/ EmitFails(m) \/ EmitAsIs(m)
                             \/ RunTests(m) \/ TestOnce(m) \/ Wake(m) \/ Leave(m)
      PROVE  Kept
  BY <1>8 DEF Tick, TickOnce, Coordinate, EmitRefreshes, EmitFails, EmitAsIs, RunTests, TestOnce, Wake,
              AfterSleep, AfterError, Leave, memory
<1>9. ASSUME NEW m \in Node, Die(m) \/ Restart(m) PROVE Kept
  <2>1. m # n
    BY <1>9 DEF Die, Restart
  <2>2. QED
    BY <1>9, <2>1 DEF Die, Restart, Forget
<1>10. ASSUME (\E g \in SG : Expire(g)) \/ LeaderExpires \/ UNCHANGED vars PROVE Kept
  BY <1>10 DEF Expire, LeaderExpires, vars, memory
<1>11. Goal
  <2> HIDE DEF Goal
  <2>1. Kept => Goal
    BY DEF Goal
  <2> HIDE DEF Kept
  <2>2. QED
    BY <1>4, <1>5, <1>6, <1>7, <1>8, <1>9, <1>10, <1>13, <2>1 DEF Next, Step, Loop, Emit
<1>12. QED
  BY <1>2, <1>3, <1>11

\* PlanCovers: a controller's plan has as many workers as its groups need, also after a refresh.
THEOREM PlansCover == Spec => []PlanCovers
<1>1. Init => Planned
  BY DEF Init, Planned, Unplanned
<1>2. Init => Prober
  BY DEF Init, Prober
<1>3. TypeOK /\ Planned => PlanCovers
  <2> SUFFICES ASSUME TypeOK, Planned, NEW n \in Node, InLoop(n), Controls(n), Requested > 0
               PROVE  /\ (workers[n] - 1) * Requested < Cardinality(desired[n]) \/ desired[n] = {}
                      /\ workers[n] = cfg.cap \/ workers[n] * Requested >= Cardinality(desired[n])
    BY DEF PlanCovers
  <2>1. PICK g \in SUBSET SG : desired[n] = Desired(n, g) /\ workers[n] = WorkerCount(n, g)
    BY DEF Planned, InLoop, Alive, Unplanned
  <2>2. QED
    BY <2>1, CountCovers DEF TypeOK
<1>4. QED
  BY <1>1, <1>2, <1>3, TypeInit, TypeNext, ProberNext, PlannedNext, PTL DEF Spec
=============================================================================
