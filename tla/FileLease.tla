------------------------------ MODULE FileLease ------------------------------
(***************************************************************************)
(* The file lease of pypnm_cmts.coordination: FileServiceGroupLease and    *)
(* FileLeaderElection are the same protocol over one JSON record file and  *)
(* one lock directory in the shared state_dir.  Every process runs         *)
(* try_acquire, renew and release; each takes the lock directory with      *)
(* mkdir, breaks it when its mtime is older than                           *)
(* STALE_LOCK_MULTIPLIER * ttl, reads the record and the clock, writes or  *)
(* unlinks the record and removes the lock directory.  Each file system    *)
(* call is a step of its own, so processes interleave between them.        *)
(*                                                                         *)
(* Adjacent reads of one call are one step: stat and now() in              *)
(* _is_lock_stale, _read_record and now() in the operations.  Time is the  *)
(* clock of the one host that shares state_dir.                            *)
(***************************************************************************)
EXTENDS Integers

CONSTANTS
    Proc,         \* processes that share state_dir
    Owner,        \* owner ids (leader ids for the election)
    OwnerOf,      \* the id each process was configured with
    TTL,          \* ttl_seconds, in clock units
    MaxHold,      \* longest time a live process keeps the lock directory
    SoleBreaker,  \* TRUE: never two processes between the stale check and rmdir
    Crashes,      \* TRUE: a process may die at any step and come back
    WriteErrors,  \* "none", "raised" (election) or "swallowed" (SG lease)
    MaxClock      \* bound on the clock, for model checking

ASSUME TTLAssumption == TTL \in Nat \ {0}
ASSUME BoundsAssumption == MaxHold \in Nat /\ MaxClock \in Nat
ASSUME OwnerAssumption == Owner # {} /\ OwnerOf \in [Proc -> Owner]
ASSUME SwitchAssumption ==
    /\ SoleBreaker \in BOOLEAN
    /\ Crashes \in BOOLEAN
    /\ WriteErrors \in {"none", "raised", "swallowed"}

VARIABLES
    clock,   \* time.time()
    lock,    \* the lock directory: exists, mtime and (history) who made it
    record,  \* the record file
    pc,      \* where each process is in its current call
    op,      \* which call that is
    seen,    \* the record the call read
    at,      \* the clock value the call read with it
    since,   \* when the process made the lock directory
    grant    \* history: the expiry each process was last told it holds until

vars == <<clock, lock, record, pc, op, seen, at, since, grant>>

Ops == {"try_acquire", "renew", "release"}
CriticalSection == {"read", "apply", "unlock"}
PCs == {"idle", "stale_check", "rmdir", "remkdir", "crashed"} \cup CriticalSection

Records == [state : {"missing", "corrupt", "valid"}, owner : Owner, expires : Nat]
Locks == [exists : BOOLEAN, mtime : Nat, maker : Proc]

\* _empty_record: what _read_record returns for an absent or unusable file.
Unusable(state) ==
    [state |-> state, owner |-> CHOOSE o \in Owner : TRUE, expires |-> 0]
NewRecord(p, now) ==
    [state |-> "valid", owner |-> OwnerOf[p], expires |-> now + TTL]

IsExpiredBug(rec, now) == rec.expires <= now + 1
IsExpired(rec, now) == rec.expires <= now

StaleLimit == 2 * TTL
IsLockStaleBug == lock.exists /\ clock - lock.mtime > TTL
IsLockStaleSwapped == lock.exists /\ lock.mtime - clock > StaleLimit
IsLockStale == lock.exists /\ clock - lock.mtime > StaleLimit

InCriticalSection(p) == pc[p] \in CriticalSection

Init ==
    /\ clock = 0
    /\ \E p \in Proc : lock = [exists |-> FALSE, mtime |-> 0, maker |-> p]
    /\ record = Unusable("missing")
    /\ pc = [p \in Proc |-> "idle"]
    /\ op = [p \in Proc |-> "try_acquire"]
    /\ seen = [p \in Proc |-> Unusable("missing")]
    /\ at = [p \in Proc |-> 0]
    /\ since = [p \in Proc |-> 0]
    /\ grant = [p \in Proc |-> 0]

-----------------------------------------------------------------------------
(* _acquire_lock *)

MadeBy(p) == [exists |-> TRUE, mtime |-> clock, maker |-> p]

\* The call starts and its mkdir succeeds.
Mkdir(p) ==
    /\ pc[p] = "idle"
    /\ ~lock.exists
    /\ \E o \in Ops : op' = [op EXCEPT ![p] = o]
    /\ lock' = MadeBy(p)
    /\ since' = [since EXCEPT ![p] = clock]
    /\ pc' = [pc EXCEPT ![p] = "read"]
    /\ UNCHANGED <<clock, record, seen, at, grant>>

\* The call starts and its mkdir raises FileExistsError.
MkdirExists(p) ==
    /\ pc[p] = "idle"
    /\ lock.exists
    /\ \E o \in Ops : op' = [op EXCEPT ![p] = o]
    /\ pc' = [pc EXCEPT ![p] = "stale_check"]
    /\ UNCHANGED <<clock, lock, record, seen, at, since, grant>>

\* _is_lock_stale answers yes.
JudgeStale(p) ==
    /\ pc[p] = "stale_check"
    /\ IsLockStale
    /\ SoleBreaker => \A q \in Proc : pc[q] # "rmdir"
    /\ pc' = [pc EXCEPT ![p] = "rmdir"]
    /\ UNCHANGED <<clock, lock, record, op, seen, at, since, grant>>

\* _is_lock_stale answers no: the call returns "busy"; the caller keeps
\* whatever it was told before.
Busy(p) ==
    /\ pc[p] = "stale_check"
    /\ ~IsLockStale
    /\ pc' = [pc EXCEPT ![p] = "idle"]
    /\ UNCHANGED <<clock, lock, record, op, seen, at, since, grant>>

\* rmdir removes whatever lock directory is there now; errors are suppressed.
Rmdir(p) ==
    /\ pc[p] = "rmdir"
    /\ lock' = [lock EXCEPT !.exists = FALSE]
    /\ pc' = [pc EXCEPT ![p] = "remkdir"]
    /\ UNCHANGED <<clock, record, op, seen, at, since, grant>>

RemkdirBug(p) ==
    /\ pc[p] = "remkdir"
    /\ lock' = MadeBy(p)
    /\ since' = [since EXCEPT ![p] = clock]
    /\ pc' = [pc EXCEPT ![p] = "read"]
    /\ UNCHANGED <<clock, record, op, seen, at, grant>>

\* The second mkdir wins the lock, or finds that somebody else has.
Remkdir(p) ==
    /\ pc[p] = "remkdir"
    /\ \/ /\ ~lock.exists
          /\ lock' = MadeBy(p)
          /\ since' = [since EXCEPT ![p] = clock]
          /\ pc' = [pc EXCEPT ![p] = "read"]
       \/ /\ lock.exists
          /\ pc' = [pc EXCEPT ![p] = "idle"]
          /\ UNCHANGED <<lock, since>>
    /\ UNCHANGED <<clock, record, op, seen, at, grant>>

\* _release_lock: an unconditional rmdir.
ReleaseLock(p) ==
    /\ pc[p] = "unlock"
    /\ lock' = [lock EXCEPT !.exists = FALSE]
    /\ pc' = [pc EXCEPT ![p] = "idle"]
    /\ seen' = [seen EXCEPT ![p] = Unusable("missing")]
    /\ at' = [at EXCEPT ![p] = 0]
    /\ since' = [since EXCEPT ![p] = 0]
    /\ UNCHANGED <<clock, record, op, grant>>

-----------------------------------------------------------------------------
(* The bodies of try_acquire, renew and release, under the lock *)

ReadRecord(p) ==
    /\ pc[p] = "read"
    /\ seen' = [seen EXCEPT ![p] = record]
    /\ at' = [at EXCEPT ![p] = clock]
    /\ pc' = [pc EXCEPT ![p] = "apply"]
    /\ UNCHANGED <<clock, lock, record, op, since, grant>>

\* The call answers e (0: the caller does not hold the lease) and goes on to
\* its finally clause.
Answer(p, e) ==
    /\ grant' = [grant EXCEPT ![p] = e]
    /\ pc' = [pc EXCEPT ![p] = "unlock"]
    /\ UNCHANGED <<clock, lock, op, seen, at, since>>

Applying(p, o) == pc[p] = "apply" /\ op[p] = o
SeenLive(p) == seen[p].state = "valid" /\ ~IsExpired(seen[p], at[p])
SeenOwn(p) == seen[p].owner = OwnerOf[p]

\* A write of rec answers its expiry.  An OSError in _write_record_replace is
\* swallowed by the SG lease, which still answers the new expiry, and raised
\* by the election, whose caller learns nothing.
WriteRecord(p, rec) ==
    \/ record' = rec /\ Answer(p, rec.expires)
    \/ /\ WriteErrors = "swallowed"
       /\ Answer(p, rec.expires)
       /\ UNCHANGED record
    \/ /\ WriteErrors = "raised"
       /\ Answer(p, grant[p])
       /\ UNCHANGED record

\* try_acquire
AcquireAlready(p) ==
    /\ Applying(p, "try_acquire")
    /\ SeenLive(p) /\ SeenOwn(p)
    /\ Answer(p, seen[p].expires)
    /\ UNCHANGED record

AcquireRefused(p) ==
    /\ Applying(p, "try_acquire")
    /\ SeenLive(p) /\ ~SeenOwn(p)
    /\ Answer(p, 0)
    /\ UNCHANGED record

AcquireNewBug(p) ==
    /\ Applying(p, "try_acquire")
    /\ WriteRecord(p, NewRecord(p, at[p]))

AcquireNew(p) ==
    /\ Applying(p, "try_acquire")
    /\ ~SeenLive(p)
    /\ WriteRecord(p, NewRecord(p, at[p]))

\* renew
RenewRefused(p) ==
    /\ Applying(p, "renew")
    /\ ~SeenLive(p) \/ ~SeenOwn(p)
    /\ Answer(p, 0)
    /\ UNCHANGED record

RenewExtend(p) ==
    /\ Applying(p, "renew")
    /\ SeenLive(p) /\ SeenOwn(p)
    /\ WriteRecord(p, [seen[p] EXCEPT !.expires = at[p] + TTL])

\* release
ReleaseRefused(p) ==
    /\ Applying(p, "release")
    /\ seen[p].state # "valid" \/ ~SeenOwn(p)
    /\ Answer(p, 0)
    /\ UNCHANGED record

\* unlink, or an OSError from it: the record stays and so does ownership.
ReleaseUnlink(p) ==
    /\ Applying(p, "release")
    /\ seen[p].state = "valid" /\ SeenOwn(p)
    /\ \/ record' = Unusable("missing") /\ Answer(p, 0)
       \/ /\ WriteErrors # "none"
          /\ Answer(p, grant[p])
          /\ UNCHANGED record

-----------------------------------------------------------------------------
(* The environment *)

\* A process dies.  The lock directory it made stays behind; death inside the
\* O_EXCL create of _write_record_atomic leaves a file that does not parse.
Crash(p) ==
    /\ Crashes
    /\ pc[p] # "crashed"
    /\ pc' = [pc EXCEPT ![p] = "crashed"]
    /\ grant' = [grant EXCEPT ![p] = 0]
    /\ seen' = [seen EXCEPT ![p] = Unusable("missing")]
    /\ at' = [at EXCEPT ![p] = 0]
    /\ since' = [since EXCEPT ![p] = 0]
    /\ \/ UNCHANGED record
       \/ /\ Applying(p, "try_acquire")
          /\ seen[p].state = "missing" /\ record.state = "missing"
          /\ record' = Unusable("corrupt")
    /\ UNCHANGED <<clock, lock, op>>

Restart(p) ==
    /\ pc[p] = "crashed"
    /\ pc' = [pc EXCEPT ![p] = "idle"]
    /\ UNCHANGED <<clock, lock, record, op, seen, at, since, grant>>

\* Time passes; a live process leaves its critical section within MaxHold.
Tick ==
    /\ clock < MaxClock
    /\ \A p \in Proc : InCriticalSection(p) => clock - since[p] < MaxHold
    /\ clock' = clock + 1
    /\ UNCHANGED <<lock, record, pc, op, seen, at, since, grant>>

AcquireLock(p) ==
    Mkdir(p) \/ MkdirExists(p) \/ JudgeStale(p) \/ Busy(p) \/ Rmdir(p) \/ Remkdir(p)
Body(p) ==
    \/ ReadRecord(p)
    \/ AcquireAlready(p) \/ AcquireRefused(p) \/ AcquireNew(p)
    \/ RenewRefused(p) \/ RenewExtend(p)
    \/ ReleaseRefused(p) \/ ReleaseUnlink(p)
    \/ ReleaseLock(p)

Step(p) == AcquireLock(p) \/ Body(p)

Next ==
    \/ \E p \in Proc : Step(p) \/ Crash(p) \/ Restart(p)
    \/ Tick

Spec == Init /\ [][Next]_vars

(***************************************************************************)
(* Every process runs CoordinationRuntime.run, which calls the lease again *)
(* after each sleep, so a live process keeps taking steps; time passes.    *)
(***************************************************************************)
Fairness == WF_vars(Tick) /\ \A p \in Proc : WF_vars(Step(p))
LiveSpec == Spec /\ Fairness

-----------------------------------------------------------------------------
(* Properties *)

\* Every variable stays in its type.
TypeOK ==
    /\ clock \in Nat
    /\ lock \in Locks
    /\ record \in Records
    /\ pc \in [Proc -> PCs]
    /\ op \in [Proc -> Ops]
    /\ seen \in [Proc -> Records]
    /\ at \in [Proc -> Nat]
    /\ since \in [Proc -> Nat]
    /\ grant \in [Proc -> Nat]

Holds(p) == grant[p] > clock

\* docs/coordination/index.md: one leader, and service groups partitioned
\* across replicas.  No two processes were told that they hold the lease for
\* a time that has not passed (try_acquire and renew, whatever the
\* interleaving, crashes and broken locks).
LeaseExclusive == \A p, q \in Proc : Holds(p) /\ Holds(q) => p = q

\* The lock directory is a mutual exclusion lock: never two processes between
\* their mkdir and their rmdir, also when one of them broke a stale lock.
CriticalSectionExclusive ==
    \A p, q \in Proc : InCriticalSection(p) /\ InCriticalSection(q) => p = q

\* While a process believes it holds the lease, the record on disk says so,
\* with that expiry: nobody overwrote or unlinked it.
GrantBacked ==
    \A p \in Proc : Holds(p) =>
        record = [state |-> "valid", owner |-> OwnerOf[p], expires |-> grant[p]]

\* The deployments for which the lease is exclusive: every process has an id
\* of its own, a live process leaves its critical section before the lock
\* directory it made is stale, no two processes break a lock together, and a
\* failed write is not answered as a success.
SafeDeployment ==
    /\ \A p, q \in Proc : OwnerOf[p] = OwnerOf[q] => p = q
    /\ MaxHold <= StaleLimit
    /\ SoleBreaker
    /\ WriteErrors # "swallowed"

\* A process in its critical section made the lock directory that exists, not
\* longer than MaxHold ago.
HolderMadeLock ==
    \A p \in Proc : InCriticalSection(p) =>
        /\ lock.exists /\ lock.maker = p /\ lock.mtime = since[p]
        /\ since[p] <= clock /\ clock - since[p] <= MaxHold

\* The lock directory about to be removed as stale is a dead process's, and
\* one process removes it.
BreakerSound ==
    \A p \in Proc : pc[p] = "rmdir" =>
        /\ lock.exists /\ ~InCriticalSection(lock.maker)
        /\ \A q \in Proc : pc[q] = "rmdir" => p = q

\* What a call read is still what is on disk when it decides.
SeenCurrent ==
    \A p \in Proc : pc[p] = "apply" => seen[p] = record /\ at[p] <= clock

\* No record outlives one TTL from now.
RecordBounded == record.state = "valid" => record.expires <= clock + TTL

\* The inductive invariant behind LeaseExclusive: the lock excludes, hence
\* reads are current, hence every belief is backed by the record.
IInv ==
    /\ TypeOK
    /\ HolderMadeLock
    /\ BreakerSound
    /\ SeenCurrent
    /\ RecordBounded
    /\ GrantBacked

\* A dead process's lock directory.
Orphaned == lock.exists /\ ~InCriticalSection(lock.maker)

\* Some process stays alive from some time on.
SomeoneSurvives == \E p \in Proc : <>[](pc[p] # "crashed")

\* Crashes come to an end.
CrashesCease ==
    \A p \in Proc : <>[](pc[p] # "crashed") \/ <>[](pc[p] = "crashed")

\* A lock directory left by a process that died in its critical section does
\* not block the lease for ever: once it is stale the survivors break it.
OrphanedLockIsBroken ==
    SomeoneSurvives /\ CrashesCease =>
        ((Orphaned /\ lock.mtime + StaleLimit < MaxClock) ~> ~Orphaned)

\* The promise of module Lease.
Abstract == INSTANCE Lease
LeaseSpec == Abstract!Spec

=============================================================================
