----------------------------- MODULE ToolProofs -----------------------------
(***************************************************************************)
(* Proofs about the tools around the program: Release, for any releasers,  *)
(* first documents and runs, and ProcessStatus, for any process ids and    *)
(* any number of starts.                                                   *)
(***************************************************************************)
EXTENDS Release, ProcessStatus, TLAPS, SequenceTheorems

-----------------------------------------------------------------------------
(* Release: types *)

LEMMA TypeInit == Init => TypeOK
<1> SUFFICES ASSUME Init PROVE TypeOK
  OBVIOUS
<1>1. \A clean \in BOOLEAN : FirstTree(clean) \in Tree
  BY DEF FirstTree, Tree, Version
<1>2. PICK clean \in BOOLEAN : commits = <<[tree |-> FirstTree(clean), history |-> {1}]>>
  BY DEF Init
<1>3. commits \in Seq([tree : Tree, history : SUBSET Nat]) /\ Len(commits) = 1
  BY <1>1, <1>2
<1>4. commits[1].tree \in Tree
  BY <1>1, <1>2
<1>5. FirstTree(TRUE).version \in Version
  BY DEF FirstTree, Version
<1>6. clone \in [Releasers -> [main : 1..Len(commits), head : 1..Len(commits), branch : Branches,
                              work : Tree, tags : SUBSET Ref]]
  <2>1. PICK branch \in [Releasers -> Branches] :
          clone = [r \in Releasers |-> [main |-> 1, head |-> 1, branch |-> branch[r],
                                        work |-> commits[1].tree, tags |-> {}]]
    BY DEF Init
  <2>2. QED
    BY <1>3, <1>4, <2>1
<1>7. run \in [Releasers -> [phase : Phases, test : BOOLEAN, new : Version, rc : 0..1, prev : Version]]
  <2> DEFINE first == [phase |-> "idle", test |-> FALSE, new |-> FirstTree(TRUE).version, rc |-> 0,
                       prev |-> FirstTree(TRUE).version]
  <2>1. first \in [phase : Phases, test : BOOLEAN, new : Version, rc : 0..1, prev : Version]
    <3>1. "idle" \in Phases
      BY DEF Phases, Resting
    <3>2. \A v \in Version, p \in Phases :
            [phase |-> p, test |-> FALSE, new |-> v, rc |-> 0, prev |-> v]
               \in [phase : Phases, test : BOOLEAN, new : Version, rc : 0..1, prev : Version]
      OBVIOUS
    <3>3. QED
      BY <1>5, <3>1, <3>2
  <2>2. run = [r \in Releasers |-> first]
    BY DEF Init
  <2> HIDE DEF first
  <2>3. QED
    BY <2>1, <2>2
<1>8. origin \in [main : 1..Len(commits), tags : SUBSET Ref]
  BY <1>3 DEF Init
<1>9. runs \in 0..MaxRuns
  BY BoundsAssumption DEF Init
<1>10. QED
  BY <1>3, <1>6, <1>7, <1>8, <1>9 DEF TypeOK

LEMMA CommitTypes ==
    ASSUME TypeOK
    PROVE  /\ Len(commits) \in Nat
           /\ \A c \in 1..Len(commits) :
                /\ commits[c] \in [tree : Tree, history : SUBSET Nat]
                /\ commits[c].tree \in Tree /\ commits[c].history \in SUBSET Nat
<1> DEFINE Commits == [tree : Tree, history : SUBSET Nat]
<1>1. commits \in Seq(Commits)
  BY DEF TypeOK
<1>2. \A c \in 1..Len(commits) : commits[c] \in Commits
  BY <1>1, ElementOfSeq
<1>3. QED
  BY <1>1, <1>2

LEMMA NewVersion ==
    \A v \in Version, mode \in {"maint", "build"} : NextVersion(v, mode) \in Version
BY DEF NextVersion, Version

LEMMA ChosenType == \A v \in Version : Chosen(v) \subseteq Version
BY NewVersion, BoundsAssumption DEF Chosen, Version

LEMMA BumpedType ==
    ASSUME NEW t \in Tree, NEW v \in Version, NEW rc \in 0..1
    PROVE  Bumped(t, v, rc) \in Tree /\ Retag(t, Tag(v, rc)) \in Tree
BY DEF Bumped, Retag, Tag, Tree, TagName

\* The steps of a releaser that leave the commits and origin alone.
Local(r) ==
    \/ Plan(r) \/ EnsureClean(r) \/ CheckoutAndPull(r) \/ StayOnBranch(r) \/ Bump(r) \/ Check(r)
    \/ Smoke(r) \/ Restore(r) \/ CreateTag(r) \/ Tidy(r)

LEMMA Steps ==
    ASSUME [Next]_vars
    PROVE  \/ \E r \in Releasers : Local(r) \/ Commit(r) \/ PushBranch(r) \/ PushTag(r)
           \/ UNCHANGED vars
BY DEF Next, Step, Local

\* What a local step does to its own clone and run.
LEMMA LocalStep ==
    ASSUME TypeOK, NEW r \in Releasers, Local(r)
    PROVE  /\ UNCHANGED <<commits, origin>>
           /\ clone' = [clone EXCEPT ![r] = clone'[r]] /\ run' = [run EXCEPT ![r] = run'[r]]
<1> USE DEF TypeOK, To
<1>1. CASE Plan(r)
  BY <1>1 DEF Plan
<1>2. CASE EnsureClean(r) \/ StayOnBranch(r) \/ Check(r) \/ Smoke(r)
  BY <1>2 DEF EnsureClean, StayOnBranch, Check, Smoke
<1>3. CASE CheckoutAndPull(r) \/ Bump(r) \/ Restore(r) \/ CreateTag(r) \/ Tidy(r)
  BY <1>3 DEF CheckoutAndPull, Bump, Restore, CreateTag, Tidy
<1>4. QED
  BY <1>1, <1>2, <1>3 DEF Local

LEMMA TypeLocal ==
    ASSUME TypeOK, NEW r \in Releasers, Local(r)
    PROVE  TypeOK'
<1> DEFINE Clone == [main : 1..Len(commits), head : 1..Len(commits), branch : Branches,
                     work : Tree, tags : SUBSET Ref]
           Run == [phase : Phases, test : BOOLEAN, new : Version, rc : 0..1, prev : Version]
<1>1. clone[r] \in Clone /\ run[r] \in Run /\ clone[r].work \in Tree
  BY DEF TypeOK
<1>2. \A c \in 1..Len(commits) : commits[c].tree \in Tree
  BY CommitTypes
<1>3. clone'[r] \in Clone /\ run'[r] \in Run /\ runs' \in 0..MaxRuns
  <2>1. CASE Plan(r)
    <3>1. PICK which \in {"tool", "script"}, new \in Chosen(clone[r].work.version), test \in BOOLEAN :
             /\ \E pin \in Pins(which, clone[r].work) : clone' = [clone EXCEPT ![r].work.pin = pin]
             /\ \E rc \in Candidates(which, clone[r].work.version, new) :
                   run' = [run EXCEPT ![r] = [phase |-> "planned", test |-> test, new |-> new,
                                              rc |-> rc, prev |-> clone[r].work.version]]
      BY <2>1 DEF Plan
    <3>2. clone[r].work.version \in Version /\ new \in Version
      BY <1>1, ChosenType DEF Tree
    <3>3. run'[r] \in Run
      BY <1>1, <3>1, <3>2 DEF Candidates, Phases, TypeOK
    <3>4. clone'[r] \in Clone
      <4>1. PICK pin \in Pins(which, clone[r].work) : clone' = [clone EXCEPT ![r].work.pin = pin]
        BY <3>1
      <4>2. pin \in {"committed", "rewritten"}
        BY <1>1 DEF Pins, Tree
      <4>3. [clone[r].work EXCEPT !.pin = pin] \in Tree
        BY <1>1, <4>2 DEF Tree
      <4>4. clone'[r] = [clone[r] EXCEPT !.work = [clone[r].work EXCEPT !.pin = pin]]
        BY <4>1, <1>1 DEF TypeOK
      <4>5. QED
        BY <1>1, <4>3, <4>4
    <3>5. runs' \in 0..MaxRuns
      BY <2>1, BoundsAssumption DEF Plan, TypeOK
    <3>6. QED
      BY <3>3, <3>4, <3>5
  <2>2. ASSUME NEW phase \in Phases, To(r, phase), UNCHANGED runs, clone'[r] \in Clone
        PROVE  clone'[r] \in Clone /\ run'[r] \in Run /\ runs' \in 0..MaxRuns
    BY <1>1, <2>2 DEF To, TypeOK
  <2>3. CASE EnsureClean(r) \/ StayOnBranch(r) \/ Check(r) \/ Smoke(r)
    <3>1. \E p \in Phases : To(r, p)
      BY <2>3 DEF EnsureClean, StayOnBranch, Check, Smoke, Phases, Resting
    <3>2. UNCHANGED <<clone, runs>>
      BY <2>3 DEF EnsureClean, StayOnBranch, Check, Smoke
    <3>3. QED
      BY <1>1, <2>2, <3>1, <3>2
  <2>4. \A c \in 1..Len(commits), tags \in SUBSET Ref : CheckedOut(r, c, tags) \in Clone
    BY <1>1, <1>2 DEF CheckedOut, Branches
  <2>5. CASE CheckoutAndPull(r) \/ Tidy(r)
    <3>1. clone'[r] \in Clone
      <4>1. {t \in origin.tags : InHistory(t.commit, origin.main)} \in SUBSET Ref
            /\ origin.main \in 1..Len(commits) /\ clone[r].main \in 1..Len(commits)
        BY <1>1 DEF TypeOK
      <4>2. [clone[r] EXCEPT !.work = HeadTree(r)] \in Clone
        BY <1>1, <1>2 DEF HeadTree
      <4>3. CASE CheckoutAndPull(r)
        <5>1. \E c \in 1..Len(commits), tags \in SUBSET Ref : clone' = [clone EXCEPT ![r] = CheckedOut(r, c, tags)]
          BY <4>1, <4>3 DEF CheckoutAndPull
        <5>2. QED
          BY <2>4, <5>1 DEF TypeOK
      <4>4. CASE Tidy(r)
        BY <2>4, <4>1, <4>2, <4>4 DEF Tidy, TypeOK
      <4>5. QED
        BY <2>5, <4>3, <4>4
    <3>2. QED
      BY <2>2, <2>5, <3>1 DEF CheckoutAndPull, Tidy, Phases, Resting
  <2>6. CASE Bump(r) \/ Restore(r) \/ CreateTag(r)
    <3>1. \A t \in Tree : [clone[r] EXCEPT !.work = t] \in Clone
      BY <1>1
    <3>2. CASE Bump(r)
      <4>1. Bumped(clone[r].work, run[r].new, run[r].rc) \in Tree
            /\ [clone[r].work EXCEPT !.version = run[r].new] \in Tree
        BY <1>1, BumpedType DEF Tree
      <4>2. \/ clone'[r] = [clone[r] EXCEPT !.work = Bumped(clone[r].work, run[r].new, run[r].rc)]
            \/ clone'[r] = [clone[r] EXCEPT !.work = [clone[r].work EXCEPT !.version = run[r].new]]
        BY <3>2 DEF Bump, TypeOK
      <4>3. QED
        BY <2>2, <3>1, <3>2, <4>1, <4>2 DEF Bump, Phases, Resting
    <3>3. CASE Restore(r)
      <4>1. Bumped(clone[r].work, run[r].prev, 0) \in Tree
        BY <1>1, BumpedType
      <4>2. clone'[r] = [clone[r] EXCEPT !.work = Bumped(clone[r].work, run[r].prev, 0)]
        BY <3>3 DEF Restore, TypeOK
      <4>3. QED
        BY <2>2, <3>1, <3>3, <4>1, <4>2 DEF Restore, Phases, Resting
    <3>4. CASE CreateTag(r)
      <4>1. [tag |-> Tag(run[r].new, run[r].rc), commit |-> clone[r].head] \in Ref
        BY <1>1 DEF Tag, Ref, TagName
      <4>2. clone'[r] \in Clone
        <5> DEFINE ref == [tag |-> Tag(run[r].new, run[r].rc), commit |-> clone[r].head]
        <5>1. clone'[r] = clone[r] \/ clone'[r] = [clone[r] EXCEPT !.tags = @ \union {ref}]
          BY <3>4 DEF CreateTag, TypeOK
        <5>2. ref \in Ref
          BY <4>1
        <5> HIDE DEF ref
        <5>3. clone[r].tags \union {ref} \in SUBSET Ref
          BY <1>1, <5>2
        <5>4. QED
          BY <1>1, <5>1, <5>3
      <4>3. QED
        BY <2>2, <3>4, <4>2 DEF CreateTag, Phases, Resting
    <3>5. QED
      BY <2>6, <3>2, <3>3, <3>4
  <2>7. QED
    BY <2>1, <2>3, <2>5, <2>6 DEF Local
<1>4. QED
  BY <1>3, LocalStep DEF TypeOK, Ref

LEMMA TypeNext == TypeOK /\ [Next]_vars => TypeOK'
<1> SUFFICES ASSUME TypeOK, [Next]_vars PROVE TypeOK'
  OBVIOUS
<1> DEFINE Commits == [tree : Tree, history : SUBSET Nat]
<1>1. ASSUME NEW r \in Releasers, Commit(r) PROVE TypeOK'
  <2>1. run' \in [Releasers -> [phase : Phases, test : BOOLEAN, new : Version, rc : 0..1, prev : Version]]
    <3>1. \E p \in Phases : To(r, p)
      BY <1>1 DEF Commit, Phases, Resting
    <3>2. QED
      BY <3>1 DEF TypeOK, To
  <2>2. CASE UNCHANGED <<commits, clone>>
    BY <1>1, <2>1, <2>2 DEF Commit, TypeOK, Ref
  <2>3. CASE ~ UNCHANGED <<commits, clone>>
    <3> DEFINE new == Len(commits) + 1
               added == [tree |-> Added(r), history |-> commits[clone[r].head].history \union {new}]
    <3>1. /\ commits' = Append(commits, added)
          /\ clone' = [clone EXCEPT ![r] = [@ EXCEPT !.main = new, !.head = new]]
      BY <1>1, <2>3 DEF Commit, TypeOK
    <3>2. added \in Commits
      <4>1. clone[r].head \in 1..Len(commits) /\ clone[r].work \in Tree
        BY DEF TypeOK
      <4>2. Added(r) \in Tree /\ commits[clone[r].head].history \in SUBSET Nat
        BY <4>1, CommitTypes DEF Added, HeadTree, Tree
      <4>3. new \in Nat
        BY CommitTypes
      <4>4. QED
        BY <4>2, <4>3
    <3> HIDE DEF added
    <3>3. commits \in Seq(Commits) /\ commits' \in Seq(Commits) /\ Len(commits') = Len(commits) + 1
      BY <3>1, <3>2 DEF TypeOK
    <3>4. new \in 1..Len(commits') /\ 1..Len(commits) \subseteq 1..Len(commits')
      BY <3>3, CommitTypes
    <3>5. Ref \subseteq Ref'
      BY <3>4 DEF Ref
    <3>6. clone' \in [Releasers -> [main : 1..Len(commits'), head : 1..Len(commits'), branch : Branches,
                                    work : Tree, tags : SUBSET Ref']]
      <4>1. \A c \in [main : 1..Len(commits), head : 1..Len(commits), branch : Branches, work : Tree,
                      tags : SUBSET Ref] :
              /\ c \in [main : 1..Len(commits'), head : 1..Len(commits'), branch : Branches,
                        work : Tree, tags : SUBSET Ref']
              /\ [c EXCEPT !.main = new, !.head = new]
                    \in [main : 1..Len(commits'), head : 1..Len(commits'), branch : Branches,
                         work : Tree, tags : SUBSET Ref']
        <5> HIDE DEF new
        <5>1. QED
          BY <3>4, <3>5
      <4> HIDE DEF new
      <4>2. QED
        BY <3>1, <4>1 DEF TypeOK
    <3>7. origin' \in [main : 1..Len(commits'), tags : SUBSET Ref'] /\ runs' \in 0..MaxRuns
      BY <1>1, <3>4, <3>5 DEF Commit, TypeOK
    <3>8. QED
      BY <2>1, <3>3, <3>6, <3>7 DEF TypeOK
  <2>4. QED
    BY <2>2, <2>3
<1>2. ASSUME NEW r \in Releasers, PushBranch(r) \/ PushTag(r) PROVE TypeOK'
  <2>1. run' \in [Releasers -> [phase : Phases, test : BOOLEAN, new : Version, rc : 0..1, prev : Version]]
    <3>1. \E p \in Phases : To(r, p)
      BY <1>2 DEF PushBranch, PushTag, Phases, Resting
    <3>2. QED
      BY <3>1 DEF TypeOK, To
  <2>2. origin' \in [main : 1..Len(commits), tags : SUBSET Ref]
    BY <1>2 DEF PushBranch, PushTag, Named, TypeOK
  <2>3. UNCHANGED <<commits, clone, runs>>
    BY <1>2 DEF PushBranch, PushTag
  <2>4. QED
    BY <2>1, <2>2, <2>3 DEF TypeOK, Ref
<1>3. CASE UNCHANGED vars
  BY <1>3 DEF vars, TypeOK, Ref
<1>4. QED
  BY <1>1, <1>2, <1>3, Steps, TypeLocal

-----------------------------------------------------------------------------
(* Release: the inductive invariant *)

\* A commit's history holds the histories of all it holds.
Histories ==
    \A c \in 1..Len(commits) :
        /\ c \in commits[c].history /\ commits[c].history \subseteq 1..c
        /\ \A d \in commits[c].history : commits[d].history \subseteq commits[c].history

\* A tree whose two version files both say v.
Says(tree, v) == tree.version = v /\ tree.project = v

\* No commit holds a half-made bump.
WholeBumps == \A c \in 1..Len(commits) : Says(commits[c].tree, commits[c].tree.version)

\* A tag names a commit of its version.
Truthful(t) == Says(commits[t.commit].tree, t.tag.version)

TagsTrue ==
    /\ \A r \in Releasers : \A t \in clone[r].tags : Truthful(t)
    /\ \A t \in origin.tags : Truthful(t) /\ InHistory(t.commit, origin.main)

Ended == {"idle", "aborted", "published"}

\* What a run has made of the clone so far.
Progress(r) ==
    LET work == clone[r].work
        head == clone[r].head
        phase == run[r].phase
        tag == Tag(run[r].new, run[r].rc)
    IN
    /\ phase \notin Ended => run[r].new # run[r].prev
    /\ phase = "ready" => Says(work, work.version)
    /\ phase \in {"bumped", "tested", "checked"} => Says(work, run[r].new)
    /\ phase = "restored" => Says(work, run[r].prev)
    /\ phase = "clean" => work = HeadTree(r)
    /\ phase \in {"committed", "tagged", "pushed"} =>
         clone[r].main = head /\ Says(commits[head].tree, run[r].new)
    /\ phase \in {"tagged", "pushed"} => Named(clone[r].tags, tag) = {[tag |-> tag, commit |-> head]}
    /\ phase = "pushed" => InHistory(head, origin.main)

IInv == TypeOK /\ Histories /\ WholeBumps /\ TagsTrue /\ \A r \in Releasers : Progress(r)

LEMMA InvInit == Init => IInv
<1> SUFFICES ASSUME Init PROVE IInv
  OBVIOUS
<1>1. PICK clean \in BOOLEAN : commits = <<[tree |-> FirstTree(clean), history |-> {1}]>>
  BY DEF Init
<1>2. Len(commits) = 1 /\ commits[1].history = {1} /\ Says(commits[1].tree, commits[1].tree.version)
  BY <1>1 DEF FirstTree, Says
<1>3. Histories /\ WholeBumps
  BY <1>2 DEF Histories, WholeBumps
<1>4. TagsTrue /\ \A r \in Releasers : Progress(r)
  BY DEF Init, TagsTrue, Progress, Ended
<1>5. QED
  BY <1>3, <1>4, TypeInit DEF IInv

LEMMA InvLocal ==
    ASSUME IInv, NEW r \in Releasers, Local(r)
    PROVE  IInv'
<1> USE DEF IInv
<1>1. /\ UNCHANGED <<commits, origin>> /\ TypeOK'
      /\ \A q \in Releasers : q # r => clone'[q] = clone[q] /\ run'[q] = run[q]
  BY LocalStep, TypeLocal DEF TypeOK
<1>2. Histories' /\ WholeBumps'
  BY <1>1 DEF Histories, WholeBumps, Says
<1>3. \A q \in Releasers : q # r => Progress(q)'
  BY <1>1 DEF Progress, HeadTree, Says, Named, InHistory
<1>4. TagsTrue' /\ Progress(r)'
  <2> USE <1>1
  <2>a. /\ run[r].phase \in Phases /\ clone[r].work \in Tree /\ run[r] \in [phase : Phases,
                test : BOOLEAN, new : Version, rc : 0..1, prev : Version]
        /\ \A t \in clone[r].tags \union origin.tags : Truthful(t)
        /\ \A c \in 1..Len(commits) : commits[c].tree \in Tree
        /\ clone[r].head \in 1..Len(commits) /\ clone[r].main \in 1..Len(commits)
        /\ origin.main \in 1..Len(commits)
    BY CommitTypes DEF TypeOK, TagsTrue
  <2>t. ASSUME \A t \in clone'[r].tags : Truthful(t) PROVE TagsTrue'
    BY <2>t DEF TagsTrue, Truthful, InHistory, Says
  <2>p. ASSUME NEW p, To(r, p)
        PROVE  /\ run'[r].phase = p /\ run'[r].new = run[r].new /\ run'[r].prev = run[r].prev
               /\ run'[r].rc = run[r].rc /\ run'[r].test = run[r].test
    <3>1. run'[r] = [run[r] EXCEPT !.phase = p]
      BY <2>p DEF To, TypeOK
    <3>2. QED
      BY <3>1, <2>a
  <2>1. CASE Plan(r)
    <3>1. clone'[r].tags = clone[r].tags
      BY <2>1, <2>a DEF Plan, TypeOK
    <3>2. run'[r].phase = "planned" /\ run'[r].new # run'[r].prev
      BY <2>1, <2>a DEF Plan, Chosen, TypeOK
    <3>3. QED
      BY <2>t, <2>a, <3>1, <3>2 DEF Progress
  <2>2. CASE EnsureClean(r)
    <3>1. clone' = clone
      BY <2>2 DEF EnsureClean
    <3>2. Progress(r)'
      BY <2>2, <2>a, <2>p DEF EnsureClean, Progress, Ended, HeadTree
    <3>3. QED
      BY <2>t, <2>a, <3>1, <3>2
  <2>3. CASE CheckoutAndPull(r)
    <3>1. \E c \in 1..Len(commits), tags \in SUBSET origin.tags, p \in {"ready", "aborted"} :
            clone' = [clone EXCEPT ![r] = CheckedOut(r, c, tags)] /\ To(r, p)
      BY <2>3, <2>a DEF CheckoutAndPull
    <3>2. PICK c \in 1..Len(commits), tags \in SUBSET origin.tags, p \in {"ready", "aborted"} :
            clone'[r] = CheckedOut(r, c, tags) /\ To(r, p)
      BY <3>1 DEF TypeOK
    <3>3. clone'[r].tags = clone[r].tags \union tags /\ clone'[r].work = commits[c].tree
      BY <3>2 DEF CheckedOut, TypeOK
    <3>4. Progress(r)'
      BY <2>3, <2>a, <2>p, <3>2, <3>3 DEF CheckoutAndPull, Progress, Ended, WholeBumps
    <3>5. QED
      BY <2>t, <2>a, <3>3, <3>4
  <2>4. CASE StayOnBranch(r)
    <3>1. clone' = clone
      BY <2>4 DEF StayOnBranch
    <3>2. clone[r].work = commits[clone[r].head].tree /\ run[r].new # run[r].prev
      BY <2>4 DEF StayOnBranch, Progress, Ended, HeadTree
    <3>3. Says(clone[r].work, clone[r].work.version)
      BY <2>a, <3>2 DEF WholeBumps
    <3>4. run'[r].phase = "ready" /\ run'[r].new # run'[r].prev
      BY <2>4, <2>p, <3>2 DEF StayOnBranch
    <3>5. Progress(r)'
      BY <3>1, <3>3, <3>4 DEF Progress
    <3>6. QED
      BY <2>t, <2>a, <3>1, <3>5
  <2>5. CASE Bump(r)
    <3>1. clone'[r].tags = clone[r].tags
      BY <2>5 DEF Bump, TypeOK
    <3>2. CASE To(r, "aborted")
      BY <2>t, <2>a, <2>p, <3>1, <3>2 DEF Progress, Ended
    <3>3. CASE To(r, "bumped") /\ clone' = [clone EXCEPT ![r].work = Bumped(@, run[r].new, run[r].rc)]
      <4>1. clone'[r].work = Bumped(clone[r].work, run[r].new, run[r].rc)
        BY <3>3 DEF TypeOK
      <4>2. Says(clone[r].work, clone[r].work.version) /\ run[r].new # run[r].prev
        BY <2>5 DEF Bump, Progress, Ended
      <4>3. Says(clone'[r].work, run[r].new)
        BY <2>a, <4>1, <4>2 DEF Says, Bumped, Retag, Tree
      <4>4. QED
        BY <2>t, <2>a, <2>p, <3>1, <3>3, <4>2, <4>3 DEF Progress
    <3>4. QED
      BY <2>5, <3>2, <3>3 DEF Bump
  <2>6. CASE Check(r) \/ Smoke(r)
    <3>1. clone' = clone
      BY <2>6 DEF Check, Smoke
    <3>2. Progress(r)'
      BY <2>6, <2>a, <2>p DEF Check, Smoke, Progress, Ended
    <3>3. QED
      BY <2>t, <2>a, <3>1, <3>2
  <2>7. CASE Restore(r)
    <3>1. clone'[r] = [clone[r] EXCEPT !.work = Bumped(@, run[r].prev, 0)]
      BY <2>7 DEF Restore, TypeOK
    <3>2. clone'[r].tags = clone[r].tags /\ clone'[r].work = Bumped(clone[r].work, run[r].prev, 0)
      BY <3>1 DEF TypeOK
    <3>3. Says(clone[r].work, run[r].new) /\ run[r].new # run[r].prev
      BY <2>7 DEF Restore, Progress, Ended
    <3>4. Says(clone'[r].work, run[r].prev)
      BY <2>a, <3>2, <3>3 DEF Says, Bumped, Retag, Tree
    <3>5. run'[r].phase = "restored" /\ run'[r].new # run'[r].prev /\ run'[r].prev = run[r].prev
      BY <2>7, <2>p, <3>3 DEF Restore
    <3>6. Progress(r)'
      BY <3>4, <3>5 DEF Progress
    <3>7. QED
      BY <2>t, <2>a, <3>2, <3>6
  <2>8. CASE CreateTag(r)
    <3> DEFINE tag == Tag(run[r].new, run[r].rc)
               ref == [tag |-> tag, commit |-> clone[r].head]
    <3>1. CASE To(r, "aborted") /\ clone' = clone
      BY <2>t, <2>a, <2>p, <3>1 DEF Progress, Ended
    <3>2. CASE To(r, "tagged") /\ Named(clone[r].tags, tag) = {}
               /\ clone' = [clone EXCEPT ![r].tags = @ \union {ref}]
      <4>1. clone'[r].tags = clone[r].tags \union {ref} /\ clone'[r].head = clone[r].head
            /\ clone'[r].main = clone[r].main
        BY <3>2 DEF TypeOK
      <4>2. /\ clone[r].main = clone[r].head /\ Says(commits[clone[r].head].tree, run[r].new)
            /\ run[r].new # run[r].prev
        BY <2>8 DEF CreateTag, Progress, Ended
      <4>3. Truthful(ref)
        BY <4>2 DEF Truthful, Tag
      <4>4. Named(clone'[r].tags, tag) = {ref}
        BY <3>2, <4>1 DEF Named
      <4>5. /\ run'[r].phase = "tagged" /\ run'[r].new # run'[r].prev /\ run'[r].new = run[r].new
            /\ Tag(run'[r].new, run'[r].rc) = tag
        BY <2>p, <3>2, <4>2
      <4> HIDE DEF tag
      <4>6. Progress(r)'
        BY <4>1, <4>2, <4>4, <4>5 DEF Progress
      <4>7. QED
        BY <2>t, <2>a, <4>1, <4>3, <4>6
    <3>3. QED
      BY <2>8, <3>1, <3>2 DEF CreateTag
  <2>9. CASE Tidy(r)
    <3>1. clone'[r].tags = clone[r].tags
      BY <2>9 DEF Tidy, CheckedOut, TypeOK
    <3>2. Progress(r)'
      BY <2>9, <2>a, <2>p DEF Tidy, Progress, Ended
    <3>3. QED
      BY <2>t, <2>a, <3>1, <3>2
  <2>10. QED
    BY <2>1, <2>2, <2>3, <2>4, <2>5, <2>6, <2>7, <2>8, <2>9 DEF Local
<1>5. QED
  BY <1>1, <1>2, <1>3, <1>4

\* The other clones are as they were, and so are the commits that were there.
LEMMA OthersStay ==
    ASSUME IInv, TypeOK', NEW r \in Releasers, NEW q \in Releasers, clone'[q] = clone[q],
           run'[q] = run[q], \A c \in 1..Len(commits) : commits'[c] = commits[c],
           \A c \in 1..Len(commits) : InHistory(c, origin.main) => InHistory(c, origin.main)'
    PROVE  Progress(q)'
<1>1. clone[q].head \in 1..Len(commits)
  BY DEF IInv, TypeOK
<1>2. HeadTree(q)' = HeadTree(q) /\ commits'[clone'[q].head] = commits[clone[q].head]
  BY <1>1 DEF HeadTree
<1>3. Progress(q)
  BY DEF IInv
<1>4. QED
  BY <1>1, <1>2, <1>3 DEF Progress, Named, Says

LEMMA InvCommit ==
    ASSUME IInv, NEW r \in Releasers, Commit(r)
    PROVE  IInv'
<1> DEFINE new == Len(commits) + 1
           added == [tree |-> Added(r), history |-> commits[clone[r].head].history \union {new}]
<1>1. TypeOK'
  BY TypeNext DEF IInv, Next, Step
<1>2. /\ clone[r].head \in 1..Len(commits) /\ origin.main \in 1..Len(commits)
      /\ clone[r].work \in Tree /\ Len(commits) \in Nat
      /\ \A c \in 1..Len(commits) : commits[c].history \in SUBSET Nat
  BY CommitTypes DEF IInv, TypeOK
<1>3. CASE UNCHANGED <<commits, clone>> /\ To(r, "aborted")
  <2>1. run'[r].phase = "aborted" /\ \A q \in Releasers : q # r => run'[q] = run[q]
    BY <1>3 DEF To, IInv, TypeOK
  <2>2. UNCHANGED origin
    BY DEF Commit
  <2>3. \A q \in Releasers : Progress(q)'
    <3>1. Progress(r)'
      BY <2>1 DEF Progress, Ended
    <3>2. \A q \in Releasers : q # r => Progress(q)'
      BY <1>1, <1>3, <2>1, <2>2, OthersStay DEF InHistory
    <3>3. QED
      BY <3>1, <3>2
  <2>4. QED
    BY <1>1, <1>3, <2>2, <2>3 DEF IInv, Histories, WholeBumps, Says, TagsTrue, Truthful, InHistory
<1>4. CASE /\ commits' = Append(commits, added) /\ To(r, "committed")
           /\ clone' = [clone EXCEPT ![r].main = new, ![r].head = new]
  <2>1. /\ Len(commits') = new /\ commits'[new] = added
        /\ \A c \in 1..Len(commits) : commits'[c] = commits[c]
    BY <1>2, <1>4 DEF IInv, TypeOK
  <2>2. UNCHANGED origin
    BY DEF Commit
  <2>3. Histories'
    <3>1. new \notin 1..Len(commits) /\ 1..Len(commits') = 1..Len(commits) \union {new}
      BY <1>2, <2>1
    <3>2. \A c \in 1..Len(commits) : c \in commits[c].history /\ commits[c].history \subseteq 1..c
      BY DEF IInv, Histories
    <3>3. ASSUME NEW c \in 1..Len(commits)
          PROVE  /\ c \in commits'[c].history /\ commits'[c].history \subseteq 1..c
                 /\ \A d \in commits'[c].history : commits'[d].history \subseteq commits'[c].history
      BY <1>2, <2>1, <3>2, <3>3 DEF IInv, Histories
    <3>4. /\ new \in added.history /\ added.history \subseteq 1..new
          /\ \A d \in added.history : commits'[d].history \subseteq added.history
      <4>1. commits[clone[r].head].history \subseteq 1..Len(commits)
        BY <1>2, <3>2
      <4>2. \A d \in commits[clone[r].head].history :
               commits'[d].history \subseteq commits[clone[r].head].history
        BY <1>2, <2>1, <4>1 DEF IInv, Histories
      <4>3. QED
        BY <1>2, <2>1, <4>1, <4>2
    <3> HIDE DEF added
    <3>5. QED
      BY <2>1, <3>1, <3>3, <3>4 DEF Histories
  <2>4. Says(added.tree, run[r].new) /\ run[r].new # run[r].prev
    <3>1. Says(clone[r].work, run[r].new) /\ run[r].new # run[r].prev
      BY DEF IInv, Commit, Progress, Ended
    <3>2. QED
      BY <1>2, <3>1 DEF Says, Added, Tree
  <2> HIDE DEF added
  <2>5. WholeBumps'
    BY <1>2, <2>1, <2>4 DEF IInv, WholeBumps, Says
  <2>6. TagsTrue'
    <3>1. \A q \in Releasers : clone'[q].tags = clone[q].tags
      BY <1>4 DEF IInv, TypeOK
    <3>2. \A t \in origin.tags : t.commit \in 1..Len(commits)
      BY DEF IInv, TypeOK, Ref
    <3>3. \A q \in Releasers : \A t \in clone[q].tags : t.commit \in 1..Len(commits)
      BY DEF IInv, TypeOK, Ref
    <3>4. QED
      BY <1>2, <2>1, <2>2, <3>1, <3>2, <3>3 DEF IInv, TagsTrue, Truthful, InHistory
  <2>7. \A q \in Releasers : q # r => Progress(q)'
    <3>1. \A q \in Releasers : q # r => clone'[q] = clone[q] /\ run'[q] = run[q]
      BY <1>4 DEF IInv, TypeOK, To
    <3>2. QED
      BY <1>1, <1>2, <2>1, <2>2, <3>1, OthersStay DEF InHistory
  <2>8. Progress(r)'
    <3>1. clone'[r].main = new /\ clone'[r].head = new
      BY <1>4 DEF IInv, TypeOK
    <3>2. run'[r].phase = "committed" /\ run'[r].new = run[r].new /\ run'[r].prev = run[r].prev
      BY <1>4 DEF IInv, TypeOK, To
    <3>3. QED
      BY <2>1, <2>4, <3>1, <3>2 DEF Progress
  <2>9. QED
    BY <1>1, <2>3, <2>5, <2>6, <2>7, <2>8 DEF IInv
<1>5. QED
  BY <1>3, <1>4 DEF Commit

\* What origin's branch holds it keeps when the branch moves forward.
LEMMA ForwardKeeps ==
    ASSUME IInv, NEW d \in 1..Len(commits), FastForward(origin.main, d)
    PROVE  commits[origin.main].history \subseteq commits[d].history
BY DEF IInv, Histories, FastForward, InHistory

LEMMA InvPush ==
    ASSUME IInv, NEW r \in Releasers, PushBranch(r) \/ PushTag(r)
    PROVE  IInv'
<1> DEFINE tag == Tag(run[r].new, run[r].rc)
<1>1. TypeOK'
  BY TypeNext DEF IInv, Next, Step
<1>2. UNCHANGED <<commits, clone>> /\ Histories' /\ WholeBumps'
  BY DEF PushBranch, PushTag, IInv, Histories, WholeBumps, Says
<1>3. \E p : To(r, p) /\ p \in {"pushed", "published", "aborted"}
  BY DEF PushBranch, PushTag
<1>4. /\ \A q \in Releasers : q # r => run'[q] = run[q]
      /\ run'[r].new = run[r].new /\ run'[r].rc = run[r].rc /\ run'[r].prev = run[r].prev
  BY <1>3 DEF To, IInv, TypeOK
<1>5. /\ clone[r].main = clone[r].head /\ Says(commits[clone[r].head].tree, run[r].new)
      /\ Named(clone[r].tags, tag) = {[tag |-> tag, commit |-> clone[r].head]}
      /\ run[r].new # run[r].prev /\ clone[r].head \in 1..Len(commits)
  BY DEF PushBranch, PushTag, IInv, Progress, Ended, TypeOK
<1>6. \A c : InHistory(c, origin.main) => InHistory(c, origin.main)'
  <2>1. CASE origin'.main = clone[r].main /\ FastForward(origin.main, clone[r].main)
    BY <1>2, <1>5, <2>1, ForwardKeeps DEF InHistory
  <2>2. CASE origin'.main = origin.main
    BY <1>2, <2>2 DEF InHistory
  <2>3. QED
    BY <2>1, <2>2 DEF PushBranch, PushTag, IInv, TypeOK
<1>7. \A q \in Releasers : q # r => Progress(q)'
  BY <1>1, <1>2, <1>4, <1>6, OthersStay
<1>8. CASE To(r, "aborted") /\ UNCHANGED origin
  <2>1. Progress(r)'
    BY <1>8 DEF To, Progress, Ended, IInv, TypeOK
  <2>2. QED
    BY <1>1, <1>2, <1>7, <1>8, <2>1 DEF IInv, TagsTrue, Truthful, InHistory
<1>9. CASE PushBranch(r) /\ To(r, "pushed") /\ origin' = [origin EXCEPT !.main = clone[r].main]
  <2>1. origin'.main = clone[r].main /\ origin'.tags = origin.tags
    BY <1>9 DEF IInv, TypeOK
  <2>2. TagsTrue'
    BY <1>2, <1>6, <2>1 DEF IInv, TagsTrue, Truthful
  <2>3. Progress(r)'
    <3>1. InHistory(clone[r].head, origin.main)'
      BY <1>2, <1>5, <2>1 DEF IInv, Histories, InHistory
    <3>2. run'[r].phase = "pushed"
      BY <1>9 DEF To, IInv, TypeOK
    <3>3. QED
      BY <1>2, <1>4, <1>5, <3>1, <3>2 DEF Progress
  <2>4. QED
    BY <1>1, <1>2, <1>7, <2>2, <2>3 DEF IInv
<1>10. CASE PushTag(r) /\ To(r, "published")
  <2>1. origin'.main = origin.main
    BY <1>10 DEF PushTag, IInv, TypeOK
  <2>2. \A t \in origin'.tags : t \in origin.tags \/ t = [tag |-> tag, commit |-> clone[r].head]
    BY <1>5, <1>10 DEF PushTag, IInv, TypeOK
  <2>3. InHistory(clone[r].head, origin.main) /\ Truthful([tag |-> tag, commit |-> clone[r].head])
    BY <1>5, <1>10 DEF PushTag, IInv, Progress, Truthful, Tag
  <2>4. TagsTrue'
    BY <1>2, <2>1, <2>2, <2>3 DEF IInv, TagsTrue, Truthful, InHistory
  <2>5. Progress(r)'
    BY <1>10 DEF To, Progress, Ended, IInv, TypeOK
  <2>6. QED
    BY <1>1, <1>2, <1>7, <2>4, <2>5 DEF IInv
<1>11. QED
  BY <1>8, <1>9, <1>10 DEF PushBranch, PushTag

LEMMA InvNext == IInv /\ [Next]_vars => IInv'
<1> SUFFICES ASSUME IInv, [Next]_vars PROVE IInv'
  OBVIOUS
<1>1. CASE UNCHANGED vars
  <2>1. TypeOK'
    BY <1>1, TypeNext DEF IInv
  <2>2. QED
    BY <1>1, <2>1 DEF vars, IInv, Histories, WholeBumps, Says, TagsTrue, Truthful, InHistory, Progress,
                      HeadTree, Named
<1>2. QED
  BY <1>1, Steps, InvLocal, InvCommit, InvPush

\* IInv: what a run has made of its clone, and what the commits and tags say at any moment.
THEOREM Invariant == Spec => []IInv
BY InvInit, InvNext, PTL DEF Spec

\* TypeOK: trees, tags and runs have the shape that the scripts give them.
THEOREM TypeCorrect == Spec => []TypeOK
<1>1. IInv => TypeOK
  BY DEF IInv
<1>2. QED
  BY <1>1, Invariant, PTL

\* TagTruth: whoever releases, overlaps, fails and tries again, a tag at origin is on origin's branch
\* and names a commit whose two version files say the tag's version.
THEOREM TagsAreTrue == Spec => []TagTruth
<1>1. IInv => TagTruth
  BY DEF IInv, TagsTrue, Truthful, Says, TagTruth
<1>2. QED
  BY <1>1, Invariant, PTL

\* TestRunUndone: a completed test release has put both version files back.
THEOREM TestRunsUndone == Spec => []TestRunUndone
<1>1. IInv => TestRunUndone
  BY DEF IInv, Progress, Says, TestRunUndone
<1>2. QED
  BY <1>1, Invariant, PTL

\* HistoryKept: origin's branch only grows.
THEOREM HistoryIsKept == Spec => HistoryKept
<1>1. ASSUME IInv, [Next]_vars
      PROVE  commits[origin.main].history \subseteq commits'[origin'.main].history
  <2>1. origin.main \in 1..Len(commits)
    BY <1>1 DEF IInv, TypeOK
  <2>2. ASSUME NEW r \in Releasers, Local(r) PROVE UNCHANGED <<commits, origin>>
    BY <1>1, <2>2, LocalStep DEF IInv
  <2>3. ASSUME NEW r \in Releasers, Commit(r)
        PROVE  origin' = origin /\ commits'[origin.main] = commits[origin.main]
    BY <1>1, <2>1, <2>3 DEF Commit, IInv, TypeOK
  <2>4. ASSUME NEW r \in Releasers, PushBranch(r) \/ PushTag(r)
        PROVE  commits[origin.main].history \subseteq commits'[origin'.main].history
    <3>1. UNCHANGED commits /\ clone[r].main \in 1..Len(commits)
      BY <1>1, <2>4 DEF PushBranch, PushTag, IInv, TypeOK
    <3>2. \/ origin'.main = origin.main
          \/ origin'.main = clone[r].main /\ FastForward(origin.main, clone[r].main)
      BY <1>1, <2>4 DEF PushBranch, PushTag, IInv, TypeOK
    <3>3. QED
      BY <1>1, <3>1, <3>2, ForwardKeeps
  <2>5. QED
    BY <1>1, <2>2, <2>3, <2>4, Steps DEF vars
<1>2. QED
  BY <1>1, Invariant, PTL DEF Spec, HistoryKept

-----------------------------------------------------------------------------
(* ProcessStatus *)

\* The steps in groups: processes, the endpoint and the tool.
AroundStep(p) == Start(p) \/ WritePidFile(p) \/ Cleanup(p) \/ End(p)
StatusStep ==
    \/ ListPidFiles \/ Probe \/ FilesRead \/ Scan \/ AnswerStatus
    \/ \E f \in Files : ReadPidFile(f)
    \/ \E p \in Pids : ProbeCandidate(p)
KillStep == ListProcesses \/ ListFails \/ ServeRow \/ KillDone \/ \E p \in Pids : KillRow(p)

LEMMA StatusSteps ==
    ASSUME [StatusNext]_statusVars
    PROVE  \/ pc # "done" /\ \E p \in Pids : AroundStep(p)
           \/ StatusStep \/ KillStep \/ UNCHANGED statusVars
BY DEF StatusNext, Tool, Done, AroundStep, StatusStep, KillStep

LEMMA StatusTypeInit == StatusInit => StatusTypeOK
<1>1. Free \in [kind : Kinds \union {"free", "foreign"}, stage : {"new", "entered", "left"}, ours : BOOLEAN]
  BY DEF Free
<1>2. [pid |-> NoPid, runs |-> FALSE] \in [pid : Pids \union {NoPid}, runs : BOOLEAN]
  OBVIOUS
<1>3. ASSUME StatusInit
      PROVE  /\ shown \in [pid : Pids \union {NoPid}, runs : BOOLEAN] /\ heads \subseteq Pids
             /\ failed \in BOOLEAN /\ running \in BOOLEAN
  BY <1>2, <1>3 DEF StatusInit
<1>4. ASSUME StatusInit
      PROVE  /\ proc \in [Pids -> [kind : Kinds \union {"free", "foreign"},
                                   stage : {"new", "entered", "left"}, ours : BOOLEAN]]
             /\ file \in [Files -> Pids \union {NoPid}] /\ serve \in Pids \union {NoPid}
             /\ steady \subseteq Pids /\ signalled \subseteq Pids /\ cur \in Pids \union {NoPid}
  BY <1>1, <1>4 DEF StatusInit
<1>5. QED
  BY <1>3, <1>4 DEF StatusTypeOK

LEMMA StatusTypeNext == StatusTypeOK /\ [StatusNext]_statusVars => StatusTypeOK'
<1> SUFFICES ASSUME StatusTypeOK, [StatusNext]_statusVars PROVE StatusTypeOK'
  OBVIOUS
<1> USE DEF StatusTypeOK, processes, scanVars
<1>1. ASSUME NEW p \in Pids, Start(p) PROVE StatusTypeOK'
  <2>1. serve' \in Pids \union {NoPid}
    BY <1>1 DEF Start
  <2>2. \E r \in [kind : Kinds \union {"free", "foreign"}, stage : {"new", "entered", "left"},
                  ours : BOOLEAN] : proc' = [proc EXCEPT ![p] = r]
    BY <1>1 DEF Start, Free
  <2>3. QED
    BY <1>1, <2>1, <2>2 DEF Start
<1>2. ASSUME NEW p \in Pids, WritePidFile(p) \/ Cleanup(p) PROVE StatusTypeOK'
  BY <1>2 DEF WritePidFile, Cleanup, Runner, FileOf, Files
<1>3. ASSUME NEW p \in Pids, End(p) PROVE StatusTypeOK'
  BY <1>3 DEF End, Free
<1>4. CASE StatusStep
  <2>1. ASSUME NEW p \in Pids, ProbeCandidate(p) PROVE StatusTypeOK'
    <3>1. Alive(p) \in BOOLEAN
      BY DEF Alive
    <3> HIDE DEF Alive
    <3>2. /\ shown' \in [pid : Pids \union {NoPid}, runs : BOOLEAN] /\ running' \in BOOLEAN
      <4>1. [pid |-> p, runs |-> Alive(p)] \in [pid : Pids \union {NoPid}, runs : BOOLEAN]
        BY <3>1
      <4>2. (running \/ Alive(p)) \in BOOLEAN
        OBVIOUS
      <4>3. CASE p \in heads
        BY <2>1, <4>1, <4>3 DEF ProbeCandidate
      <4>4. CASE p \notin heads
        BY <2>1, <4>2, <4>4 DEF ProbeCandidate
      <4>5. QED
        BY <4>3, <4>4
    <3>3. QED
      BY <2>1, <3>2 DEF ProbeCandidate
  <2>2. CASE Scan
    <3>1. PICK found \in SUBSET Findable :
            heads' = {p \in found : proc[p].kind = "controller"} /\ failed' = (found # Findable)
      BY <2>2 DEF Scan
    <3>2. heads' \subseteq Pids /\ failed' \in BOOLEAN
      BY <3>1 DEF Findable
    <3>3. QED
      BY <2>2, <3>2 DEF Scan
  <2>3. CASE ListPidFiles \/ Probe \/ FilesRead \/ AnswerStatus \/ \E f \in Files : ReadPidFile(f)
    BY <2>3 DEF ListPidFiles, Probe, FilesRead, AnswerStatus, ReadPidFile
  <2>4. QED
    BY <1>4, <2>1, <2>2, <2>3 DEF StatusStep
<1>5. CASE KillStep
  BY <1>5 DEF KillStep, ListProcesses, ListFails, ServeRow, KillDone, KillRow
<1>6. CASE UNCHANGED statusVars
  BY <1>6 DEF statusVars
<1>7. QED
  BY <1>1, <1>2, <1>3, <1>4, <1>5, <1>6, StatusSteps DEF AroundStep

-----------------------------------------------------------------------------
(* What a call or a run still has to do *)

\* A process noted when the call began is the one it was: a pid that is used again leaves steady.
\* As long as no worker's row has answered, those of its name are before the endpoint but for those in
\* mode controller, and one of these that has the row has answered.  The tool has those it may
\* signal before it or behind it.
Ahead ==
    /\ \A p \in steady : Runner(p)
    /\ pc \in {"idle", "files", "probe", "scan", "candidates", "serve", "kill", "done"}
    /\ pc = "candidates" /\ ~running /\ ~failed =>
          \A p \in steady : proc[p].ours => p \in left \/ proc[p].kind = "controller"
    /\ pc = "candidates" => \A p \in steady \cap heads : proc[p].kind = "controller"
    /\ shown.pid \in steady => shown.runs
    /\ pc = "idle" => shown.pid = NoPid
    /\ pc \in {"candidates", "files", "probe", "scan"} => tool = "status"
    /\ pc \in {"serve", "kill"} => tool = "kill"
    /\ pc = "serve" => steady \subseteq left
    /\ pc = "kill" => \A p \in steady : proc[p].ours => p \in left \union signalled
    /\ pc = "idle" => steady = {}
    /\ NotMissed /\ AllKilled

LEMMA AheadInit == StatusInit => Ahead
BY DEF StatusInit, Ahead, NotMissed, AllKilled

LEMMA AheadNext == StatusTypeOK /\ Ahead /\ [StatusNext]_statusVars => Ahead'
<1> SUFFICES ASSUME StatusTypeOK, Ahead, [StatusNext]_statusVars PROVE Ahead'
  OBVIOUS
<1> USE DEF StatusTypeOK, Ahead, NotMissed, AllKilled, processes, scanVars
<1>1. ASSUME pc # "done", NEW p \in Pids, AroundStep(p) PROVE Ahead'
  <2>1. UNCHANGED <<pc, tool, left, running, shown, heads, failed>>
    BY <1>1 DEF AroundStep, Start, WritePidFile, Cleanup, End
  <2>2. /\ steady' \subseteq steady
        /\ \A q \in steady' : /\ Runner(q)' /\ proc'[q].ours = proc[q].ours
                              /\ proc'[q].kind = proc[q].kind
                              /\ (q \in signalled => q \in signalled')
    <3>1. CASE Start(p)
      <4>1. p \notin steady /\ \A q \in Pids \ {p} : proc'[q] = proc[q]
        BY <3>1 DEF Start, Alive, Runner, Kinds
      <4>2. QED
        BY <3>1, <4>1 DEF Start, Runner
    <3>2. CASE WritePidFile(p) \/ Cleanup(p)
      BY <3>2 DEF WritePidFile, Cleanup, Runner
    <3>3. CASE End(p)
      BY <3>3 DEF End, Runner
    <3>4. QED
      BY <1>1, <3>1, <3>2, <3>3 DEF AroundStep
  <2>3. QED
    BY <1>1, <2>1, <2>2
<1>2. CASE StatusStep
  <2>1. UNCHANGED <<proc, tool, signalled>> /\ tool = "status"
    BY <1>2 DEF StatusStep, ListPidFiles, Probe, FilesRead, Scan, Findable, AnswerStatus, ReadPidFile, ProbeCandidate
  <2> USE DEF Runner
  <2>2. CASE ListPidFiles
    BY <2>1, <2>2, PidsAssumption DEF ListPidFiles
  <2>3. CASE Probe \/ FilesRead \/ \E f \in Files : ReadPidFile(f)
    BY <2>1, <2>3 DEF Probe, FilesRead, ReadPidFile
  <2>4. CASE AnswerStatus
    BY <2>1, <2>4 DEF AnswerStatus
  <2>7. CASE Scan
    <3>1. PICK found \in SUBSET Findable :
            /\ left' = found /\ heads' = {p \in found : proc[p].kind = "controller"}
            /\ failed' = (found # Findable)
      BY <2>7 DEF Scan
    <3>2. pc' = "candidates" /\ UNCHANGED <<running, shown, steady>>
      BY <2>7 DEF Scan
    <3>3. ~failed' => \A p \in steady : proc[p].ours => p \in left'
      BY <3>1 DEF Findable
    <3>4. \A p \in steady \cap heads' : proc[p].kind = "controller"
      BY <3>1
    <3>5. QED
      BY <2>1, <3>2, <3>3, <3>4
  <2>5. ASSUME NEW p \in Pids, ProbeCandidate(p) PROVE Ahead'
    <3>1. /\ pc = "candidates" /\ left' = left \ {p}
          /\ UNCHANGED <<pc, heads, failed, steady>>
      BY <2>5 DEF ProbeCandidate
    <3>2. p \in steady => Alive(p)
      BY DEF Alive, Kinds
    <3>3. CASE p \in heads
      <4>1. shown' = [pid |-> p, runs |-> Alive(p)] /\ UNCHANGED running
        BY <2>5, <3>3 DEF ProbeCandidate
      <4> HIDE DEF Runner
      <4>2. shown'.pid \in steady => shown'.runs
        BY <3>2, <4>1
      <4>3. QED
        BY <2>1, <3>1, <3>3, <4>1, <4>2 DEF Runner
    <3>4. CASE p \notin heads
      <4>1. running' = (running \/ Alive(p)) /\ UNCHANGED shown
        BY <2>5, <3>4 DEF ProbeCandidate
      <4>2. ~running' => ~running /\ p \notin steady
        BY <3>2, <4>1
      <4>3. QED
        BY <2>1, <3>1, <4>1, <4>2
    <3>5. QED
      BY <3>3, <3>4
  <2>6. QED
    BY <1>2, <2>2, <2>3, <2>4, <2>5, <2>7 DEF StatusStep
<1>3. CASE KillStep
  <2>1. UNCHANGED <<proc, tool>> /\ tool = "kill"
    BY <1>3 DEF KillStep, ListProcesses, ListFails, ServeRow, KillDone, KillRow
  <2> USE DEF Runner
  <2>2. CASE ListProcesses
    BY <2>1, <2>2, PidsAssumption DEF ListProcesses
  <2>5. CASE ListFails
    BY <2>1, <2>5 DEF ListFails
  <2>6. CASE ServeRow \/ KillDone
    BY <2>1, <2>6 DEF ServeRow, KillDone
  <2>3. ASSUME NEW p \in Pids, KillRow(p) PROVE Ahead'
    BY <2>1, <2>3 DEF KillRow, Alive, Kinds
  <2>4. QED
    BY <1>3, <2>2, <2>3, <2>5, <2>6 DEF KillStep
<1>4. CASE UNCHANGED statusVars
  BY <1>4 DEF statusVars, Runner
<1>5. QED
  BY <1>1, <1>2, <1>3, <1>4, StatusSteps

\* NotMissed: an ERROR of the endpoint with a ps that worked is right for each runner it could find
\* that was there all along, but for one in mode controller whose row another one has taken.
THEOREM NoneMissed == StatusSpec => []NotMissed
<1>1. Ahead => NotMissed
  BY DEF Ahead
<1>2. QED
  BY <1>1, StatusTypeInit, StatusTypeNext, AheadInit, AheadNext, PTL DEF StatusSpec

\* AllKilled: kill --all signals every runner of its table that is still there.
THEOREM EveryRunnerKilled == StatusSpec => []AllKilled
<1>1. Ahead => AllKilled
  BY DEF Ahead
<1>2. QED
  BY <1>1, StatusTypeInit, StatusTypeNext, AheadInit, AheadNext, PTL DEF StatusSpec
=============================================================================
