------------------------------ MODULE Release ------------------------------
(***************************************************************************)
(* Releasing: the two release scripts (src/pypnm_cmts/tools/               *)
(* release_tool.py and tools/release/release.py) and the script that       *)
(* bumps the version (tools/support/bump_version.py), run by several       *)
(* people from clones of one origin.  A step that fails ends the run       *)
(* where it is, and the next run starts from what that left.               *)
(***************************************************************************)
EXTENDS Integers, Sequences, FiniteSets

CONSTANTS
    Releasers,  \* the people that release, each with a clone
    FirstDocs,  \* the TAG token in README and docs at first, NoTokens for none
    Explicit,   \* versions somebody may pass with --version
    MaxRuns     \* bound of the runs that pass their first checks

ASSUME BoundsAssumption == MaxRuns \in Nat /\ Explicit \subseteq [maint : Nat, build : Nat]

VARIABLES
    commits,  \* every commit, each with its tree and the commits of its history
    origin,   \* the branch and the tags at origin
    clone,    \* main, what is checked out, the working tree and the tags of every clone
    run,      \* every releaser's current or last run
    runs      \* history: runs begun

vars == <<commits, origin, clone, run, runs>>

-----------------------------------------------------------------------------
(* Versions and trees *)

\* MAJOR.MINOR.MAINTENANCE.BUILD; a major or minor bump differs from maint only in how far.
NextVersion(v, mode) ==
    IF mode = "build" THEN [v EXCEPT !.build = @ + 1] ELSE [maint |-> v.maint + 1, build |-> 0]

Tag(v, rc) == [version |-> v, rc |-> rc]

NoTokens == Tag([maint |-> 0, build |-> 0], 0)

\* What a release touches: version.py, pyproject.toml (its version, and its pin of pypnm-docsis),
\* the TAG tokens of README and docs, and whether the golden configurations are sanitized.
FirstTree(clean) ==
    [version |-> [maint |-> 1, build |-> 0], project |-> [maint |-> 1, build |-> 0],
     pin |-> "committed", docs |-> FirstDocs, clean |-> clean]

Retag(tree, tag) == IF tree.docs = NoTokens THEN tree ELSE [tree EXCEPT !.docs = tag]

\* bump_version.py followed by _update_readme_tag; a version already there is no change.
Bumped(tree, v, rc) ==
    IF tree.version = v THEN Retag(tree, Tag(v, rc))
    ELSE Retag([tree EXCEPT !.version = v, !.project = v, !.clean = TRUE], Tag(v, rc))

InHistory(c, d) == c \in commits[d].history

\* A branch moves from c to d without losing anything.
FastForward(c, d) == InHistory(c, d)

HeadTree(r) == commits[clone[r].head].tree

\* The branch a clone is on.  Both scripts release the branch of --branch, which is main here.
Branches == {"main", "hot-fix", "other"}

Resting == {"idle", "aborted", "restored", "published"}

-----------------------------------------------------------------------------
(* The beginning of a run *)

Init ==
    /\ \E clean \in BOOLEAN : commits = <<[tree |-> FirstTree(clean), history |-> {1}]>>
    /\ origin = [main |-> 1, tags |-> {}]
    /\ \E branch \in [Releasers -> Branches] :
          clone = [r \in Releasers |-> [main |-> 1, head |-> 1, branch |-> branch[r],
                                        work |-> commits[1].tree, tags |-> {}]]
    /\ run = [r \in Releasers |-> [phase |-> "idle", test |-> FALSE, new |-> FirstTree(TRUE).version,
                                   rc |-> 0, prev |-> FirstTree(TRUE).version]]
    /\ runs = 0

To(r, phase) == run' = [run EXCEPT ![r].phase = phase]

\* The versions a run may choose: computed from the one in the working tree, or given.
Chosen(v) == ({NextVersion(v, "maint"), NextVersion(v, "build")} \union Explicit) \ {v}

\* pypnm-cmts-release asks for a release candidate's number except for a build bump.
Candidates(tool, v, new) == IF tool = "tool" /\ new.maint # v.maint THEN 0..1 ELSE {0}

\* A pin of pypnm-docsis that is not what is installed ends pypnm-cmts-release, and release.py
\* unless it may rewrite it.
Pins(tool, tree) == {tree.pin} \union (IF tool = "script" THEN {"rewritten"} ELSE {})

\* Only release.py looks at the branch first (ALLOWED_RELEASE_BRANCHES).
BranchAllowed(r, tool) == tool = "script" => clone[r].branch \in {"main", "hot-fix"}

\* The version files agree, a version is chosen, and the run is confirmed.  A run that ends
\* before has changed nothing.
Plan(r) ==
    LET tree == clone[r].work
        v == tree.version
    IN
    /\ run[r].phase \in Resting /\ runs < MaxRuns
    /\ v = tree.project
    /\ runs' = runs + 1
    /\ \E tool \in {"tool", "script"}, new \in Chosen(v), test \in BOOLEAN :
          /\ BranchAllowed(r, tool)
          /\ \E pin \in Pins(tool, tree) : clone' = [clone EXCEPT ![r].work.pin = pin]
          /\ \E rc \in Candidates(tool, v, new) :
                run' = [run EXCEPT ![r] = [phase |-> "planned", test |-> test,
                                           new |-> new, rc |-> rc, prev |-> v]]
    /\ UNCHANGED <<commits, origin>>

\* Nothing may be uncommitted, a pin rewritten a moment ago included.
EnsureClean(r) ==
    /\ run[r].phase = "planned"
    /\ To(r, IF clone[r].work = HeadTree(r) THEN "clean" ELSE "aborted")
    /\ UNCHANGED <<commits, origin, clone, runs>>

\* What a clone has after a checkout of main at commit c; a pull also brings the tags it reaches.
CheckedOut(r, c, tags) ==
    [clone[r] EXCEPT !.main = c, !.head = c, !.branch = "main", !.work = commits[c].tree,
                     !.tags = @ \union tags]

\* git checkout and pull --ff-only, after the version was chosen: it fails when main and origin
\* have diverged, or for reasons of its own, and main is checked out all the same.
CheckoutAndPull(r) ==
    LET local == clone[r].main IN
    /\ run[r].phase = "clean" /\ ~run[r].test
    /\ \/ /\ FastForward(local, origin.main) \/ FastForward(origin.main, local)
          /\ clone' = [clone EXCEPT ![r] =
                CheckedOut(r, IF FastForward(local, origin.main) THEN origin.main ELSE local,
                           {t \in origin.tags : InHistory(t.commit, origin.main)})]
          /\ To(r, "ready")
       \/ /\ clone' = [clone EXCEPT ![r] = CheckedOut(r, local, {})]
          /\ To(r, "aborted")
    /\ UNCHANGED <<commits, origin, runs>>

\* A test release stays on the branch it is on.
StayOnBranch(r) ==
    /\ run[r].phase = "clean" /\ run[r].test
    /\ To(r, "ready")
    /\ UNCHANGED <<commits, origin, clone, runs>>

-----------------------------------------------------------------------------
(* The bump, the checks and what follows *)

\* The bump may also fail between its two files.
Bump(r) ==
    /\ run[r].phase = "ready"
    /\ \/ /\ clone' = [clone EXCEPT ![r].work = Bumped(@, run[r].new, run[r].rc)]
          /\ To(r, "bumped")
       \/ /\ clone' = [clone EXCEPT ![r].work.version = run[r].new]
          /\ To(r, "aborted")
    /\ UNCHANGED <<commits, origin, runs>>

\* Hygiene scans, ruff or the pretest, and pytest: all pass, or one ends the run and leaves the
\* tree bumped.
Check(r) ==
    /\ run[r].phase = "bumped"
    /\ To(r, "tested") \/ To(r, "aborted")
    /\ UNCHANGED <<commits, origin, clone, runs>>

\* The docker and Kubernetes smoke tests, retried under sudo, and mkdocs.
Smoke(r) ==
    /\ run[r].phase = "tested"
    /\ To(r, "checked") \/ To(r, "aborted")
    /\ UNCHANGED <<commits, origin, clone, runs>>

\* Mutation: only the tokens are restored.
RestoreBug(r) ==
    /\ run[r].phase = "checked" /\ run[r].test
    /\ clone' = [clone EXCEPT ![r].work = Retag(@, Tag(run[r].prev, 0))]
    /\ To(r, "restored")
    /\ UNCHANGED <<commits, origin, runs>>

\* A test release puts the version back; a release candidate's suffix is not in the version,
\* and the configurations stay sanitized.
Restore(r) ==
    /\ run[r].phase = "checked" /\ run[r].test
    /\ clone' = [clone EXCEPT ![r].work = Bumped(@, run[r].prev, 0)]
    /\ To(r, "restored")
    /\ UNCHANGED <<commits, origin, runs>>

\* What git add takes: not the configurations.
Added(r) == [clone[r].work EXCEPT !.clean = HeadTree(r).clean]

\* git commit fails when there is nothing to commit.
Commit(r) ==
    LET new == Len(commits) + 1 IN
    /\ run[r].phase = "checked" /\ ~run[r].test
    /\ \/ /\ Added(r) = HeadTree(r)
          /\ To(r, "aborted") /\ UNCHANGED <<commits, clone>>
       \/ /\ Added(r) # HeadTree(r)
          /\ commits' = Append(commits, [tree |-> Added(r),
                                          history |-> commits[clone[r].head].history \union {new}])
          /\ clone' = [clone EXCEPT ![r].main = new, ![r].head = new]
          /\ To(r, "committed")
    /\ UNCHANGED <<origin, runs>>

Named(tags, tag) == {t \in tags : t.tag = tag}

\* git tag fails when the clone has a tag of that name.
CreateTag(r) ==
    LET tag == Tag(run[r].new, run[r].rc) IN
    /\ run[r].phase = "committed"
    /\ IF Named(clone[r].tags, tag) = {}
       THEN /\ clone' = [clone EXCEPT ![r].tags = @ \union {[tag |-> tag, commit |-> clone[r].head]}]
            /\ To(r, "tagged")
       ELSE UNCHANGED clone /\ To(r, "aborted")
    /\ UNCHANGED <<commits, origin, runs>>

\* Mutation: the push is forced.
PushBranchBug(r) ==
    /\ run[r].phase = "tagged"
    /\ \/ /\ origin' = [origin EXCEPT !.main = clone[r].main]
          /\ To(r, "pushed")
       \/ UNCHANGED origin /\ To(r, "aborted")
    /\ UNCHANGED <<commits, clone, runs>>

\* origin takes a branch only forward; it may be out of reach.
PushBranch(r) ==
    /\ run[r].phase = "tagged"
    /\ \/ /\ FastForward(origin.main, clone[r].main)
          /\ origin' = [origin EXCEPT !.main = clone[r].main]
          /\ To(r, "pushed")
       \/ UNCHANGED origin /\ To(r, "aborted")
    /\ UNCHANGED <<commits, clone, runs>>

\* Mutation: the tag is pushed first.
PushTagBug(r) ==
    LET tag == Tag(run[r].new, run[r].rc) IN
    /\ run[r].phase \in {"tagged", "pushed"}
    /\ Named(origin.tags, tag) = {}
    /\ origin' = [origin EXCEPT !.tags = @ \union Named(clone[r].tags, tag)]
    /\ To(r, IF run[r].phase = "tagged" THEN "tagged" ELSE "published")
    /\ UNCHANGED <<commits, clone, runs>>

\* origin takes a tag that it does not have.
PushTag(r) ==
    LET tag == Tag(run[r].new, run[r].rc) IN
    /\ run[r].phase = "pushed"
    /\ \/ /\ Named(origin.tags, tag) = {}
          /\ origin' = [origin EXCEPT !.tags = @ \union Named(clone[r].tags, tag)]
          /\ To(r, "published")
       \/ UNCHANGED origin /\ To(r, "aborted")
    /\ UNCHANGED <<commits, clone, runs>>

\* Between two runs a person throws the working tree's changes away, or all of main's as well.
Tidy(r) ==
    /\ run[r].phase \in Resting /\ run[r].phase # "idle"
    /\ clone' = [clone EXCEPT ![r] = IF @.branch = "main" THEN CheckedOut(r, origin.main, {})
                                  ELSE [@ EXCEPT !.work = HeadTree(r)]]
    /\ To(r, "idle")
    /\ UNCHANGED <<commits, origin, runs>>

Step(r) ==
    \/ Plan(r) \/ EnsureClean(r) \/ CheckoutAndPull(r) \/ StayOnBranch(r) \/ Bump(r) \/ Check(r)
    \/ Smoke(r) \/ Restore(r) \/ Commit(r) \/ CreateTag(r) \/ PushBranch(r) \/ PushTag(r) \/ Tidy(r)

Next == \E r \in Releasers : Step(r)

Spec == Init /\ [][Next]_vars

-----------------------------------------------------------------------------
(* Correctness *)

Version == [maint : Nat, build : Nat]
TagName == [version : Version, rc : 0..1]
Tree == [version : Version, project : Version, pin : {"committed", "rewritten"},
         docs : TagName \union {FirstDocs}, clean : BOOLEAN]
Ref == [tag : TagName, commit : 1..Len(commits)]

Phases == Resting \union {"planned", "clean", "ready", "bumped", "tested", "checked", "committed",
                          "tagged", "pushed"}

TypeOK ==
    /\ commits \in Seq([tree : Tree, history : SUBSET Nat])
    /\ origin \in [main : 1..Len(commits), tags : SUBSET Ref]
    /\ clone \in [Releasers -> [main : 1..Len(commits), head : 1..Len(commits), branch : Branches,
                                work : Tree, tags : SUBSET Ref]]
    /\ run \in [Releasers -> [phase : Phases, test : BOOLEAN, new : Version, rc : 0..1,
                              prev : Version]]
    /\ runs \in 0..MaxRuns

\* A tag at origin names a commit of origin's branch whose two version files both say the tag's
\* version, however releasers overlap, fail half way and try again: the version is chosen before
\* the pull, and a failed run leaves commits and tags that a later one pushes.
TagTruth ==
    \A t \in origin.tags :
        /\ InHistory(t.commit, origin.main)
        /\ commits[t.commit].tree.version = t.tag.version
        /\ commits[t.commit].tree.project = t.tag.version

\* No push takes a release away that another one has made: origin's branch only grows.
HistoryKept == [][commits[origin.main].history \subseteq commits'[origin'.main].history]_vars

\* A completed test release leaves both version files as it found them (_restore_previous_version
\* after a bump in the same working tree), so that the next run computes the same version.
TestRunUndone ==
    \A r \in Releasers : run[r].phase = "restored" =>
        clone[r].work.version = run[r].prev /\ clone[r].work.project = run[r].prev
=============================================================================
