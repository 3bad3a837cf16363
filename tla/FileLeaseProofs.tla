--------------------------- MODULE FileLeaseProofs ---------------------------
(***************************************************************************)
(* Proofs about FileLease for every set of processes, every assignment of  *)
(* owner ids, every TTL and every clock bound: the types always, exclusion *)
(* and the refinement of Lease in a SafeDeployment.                        *)
(***************************************************************************)
EXTENDS FileLease, TLAPS

USE TTLAssumption, BoundsAssumption, OwnerAssumption, SwitchAssumption

LEMMA UnusableType ==
    ASSUME NEW s \in {"missing", "corrupt", "valid"}
    PROVE  Unusable(s) \in Records
  BY DEF Unusable, Records

LEMMA NewRecordType ==
    ASSUME NEW p \in Proc, NEW now \in Nat
    PROVE  NewRecord(p, now) \in Records
  BY DEF NewRecord, Records

LEMMA TypeCorrectInit == Init => TypeOK
<1> SUFFICES ASSUME Init PROVE TypeOK
  OBVIOUS
<1>1. Unusable("missing") \in Records
  BY UnusableType
<1>2. lock \in Locks
  BY DEF Init, Locks
<1>3. QED
  BY <1>1, <1>2 DEF Init, TypeOK, PCs, Ops

LEMMA TypeCorrectNext == TypeOK /\ [Next]_vars => TypeOK'
<1> SUFFICES ASSUME TypeOK, [Next]_vars PROVE TypeOK'
  OBVIOUS
<1> USE DEF TypeOK, PCs, CriticalSection, Ops
<1>1. ASSUME NEW p \in Proc, AcquireLock(p) PROVE TypeOK'
  <2>1. MadeBy(p) \in Locks /\ [lock EXCEPT !.exists = FALSE] \in Locks
    BY DEF MadeBy, Locks
  <2>2. CASE Mkdir(p)
    BY <2>1, <2>2 DEF Mkdir
  <2>3. CASE MkdirExists(p) \/ JudgeStale(p) \/ Busy(p) \/ Rmdir(p)
    BY <2>1, <2>3 DEF MkdirExists, JudgeStale, Busy, Rmdir
  <2>4. CASE Remkdir(p)
    BY <2>1, <2>4 DEF Remkdir
  <2>5. QED BY <1>1, <2>2, <2>3, <2>4 DEF AcquireLock
<1>2. ASSUME NEW p \in Proc, ReadRecord(p) PROVE TypeOK'
  BY <1>2 DEF ReadRecord
<1>3. ASSUME NEW p \in Proc, AcquireAlready(p) PROVE TypeOK'
  <2>1. seen[p].expires \in Nat
    BY DEF Records
  <2>2. QED BY <2>1, <1>3 DEF AcquireAlready, Answer
<1>4. ASSUME NEW p \in Proc, AcquireRefused(p) \/ RenewRefused(p) \/ ReleaseRefused(p)
      PROVE  TypeOK'
  BY <1>4 DEF AcquireRefused, RenewRefused, ReleaseRefused, Answer
<1>5. ASSUME NEW p \in Proc, NEW rec \in Records, WriteRecord(p, rec) PROVE TypeOK'
  <2>1. rec.expires \in Nat
    BY DEF Records
  <2>2. QED BY <2>1, <1>5 DEF WriteRecord, Answer
<1>6. ASSUME NEW p \in Proc, AcquireNew(p) PROVE TypeOK'
  BY <1>5, <1>6, NewRecordType DEF AcquireNew
<1>7. ASSUME NEW p \in Proc, RenewExtend(p) PROVE TypeOK'
  <2>1. [seen[p] EXCEPT !.expires = at[p] + TTL] \in Records
    BY DEF Records
  <2>2. QED BY <2>1, <1>5, <1>7 DEF RenewExtend
<1>8. ASSUME NEW p \in Proc, ReleaseUnlink(p) PROVE TypeOK'
  BY <1>8, UnusableType DEF ReleaseUnlink, Answer
<1>9. ASSUME NEW p \in Proc, ReleaseLock(p) PROVE TypeOK'
  BY <1>9, UnusableType DEF ReleaseLock, Locks
<1>10. ASSUME NEW p \in Proc, Crash(p) PROVE TypeOK'
  BY <1>10, UnusableType DEF Crash
<1>11. ASSUME NEW p \in Proc, Restart(p) PROVE TypeOK'
  BY <1>11 DEF Restart
<1>12. CASE Tick
  BY <1>12 DEF Tick
<1>13. CASE UNCHANGED vars
  BY <1>13 DEF vars
<1>14. QED
  BY <1>1, <1>2, <1>3, <1>4, <1>6, <1>7, <1>8, <1>9, <1>10, <1>11, <1>12, <1>13
     DEF Next, Step, Body

\* TypeOK: no operation, crash or clock step takes a variable out of its type.
THEOREM TypeCorrect == Spec => []TypeOK
  BY TypeCorrectInit, TypeCorrectNext, PTL DEF Spec

-----------------------------------------------------------------------------
(* The inductive invariant of a SafeDeployment *)

LEMMA InitIInv == Init => IInv
<1> SUFFICES ASSUME Init, TypeOK PROVE IInv
  BY TypeCorrectInit
<1> USE DEF Init, InCriticalSection, CriticalSection
<1>1. HolderMadeLock BY DEF HolderMadeLock
<1>2. BreakerSound BY DEF BreakerSound
<1>3. SeenCurrent BY DEF SeenCurrent
<1>4. RecordBounded BY DEF RecordBounded, Unusable
<1>5. GrantBacked BY DEF GrantBacked, Holds
<1>6. QED BY <1>1, <1>2, <1>3, <1>4, <1>5 DEF IInv

\* The lock directory excludes: whoever is in its critical section made it.
LEMMA HolderUnique ==
    ASSUME IInv, NEW p \in Proc, NEW q \in Proc,
           InCriticalSection(p), InCriticalSection(q)
    PROVE  p = q
  BY DEF IInv, HolderMadeLock

\* At most one process holds the lease when the record backs every belief and
\* ids are distinct.
LEMMA HolderOfLeaseUnique ==
    ASSUME SafeDeployment, IInv, NEW p \in Proc, NEW q \in Proc, Holds(p), Holds(q)
    PROVE  p = q
  BY DEF IInv, GrantBacked, SafeDeployment

\* A lock directory judged stale is not held by a process in its critical
\* section.
LEMMA StaleIsDead ==
    ASSUME SafeDeployment, IInv, IsLockStale
    PROVE  lock.exists /\ ~InCriticalSection(lock.maker)
<1>1. lock.mtime \in Nat /\ lock.maker \in Proc /\ StaleLimit \in Nat
  BY DEF IInv, TypeOK, Locks, StaleLimit
<1>2. ASSUME InCriticalSection(lock.maker) PROVE FALSE
  <2>1. clock - lock.mtime <= MaxHold
    BY <1>1, <1>2 DEF IInv, HolderMadeLock
  <2>2. clock \in Nat
    BY DEF IInv, TypeOK
  <2>3. QED BY <1>1, <2>1, <2>2 DEF IsLockStale, SafeDeployment
<1>3. QED BY <1>2 DEF IsLockStale

\* The steps that touch only the lock directory preserve the invariant.
LEMMA AcquireLockPreserves ==
    ASSUME SafeDeployment, IInv, TypeOK', NEW p \in Proc, AcquireLock(p)
    PROVE  IInv'
<1> USE DEF IInv, HolderMadeLock, BreakerSound, SeenCurrent, InCriticalSection,
            CriticalSection
<1>0. /\ UNCHANGED <<clock, record, seen, at, grant>>
      /\ pc \in [Proc -> PCs] /\ since \in [Proc -> Nat] /\ lock \in Locks
      /\ clock \in Nat
  BY DEF AcquireLock, Mkdir, MkdirExists, JudgeStale, Busy, Rmdir, Remkdir, TypeOK
<1>1. RecordBounded' /\ GrantBacked'
  BY <1>0 DEF RecordBounded, GrantBacked, Holds
<1>2. ASSUME lock' = MadeBy(p), ~lock.exists, since' = [since EXCEPT ![p] = clock],
             pc' = [pc EXCEPT ![p] = "read"]
      PROVE  HolderMadeLock' /\ BreakerSound' /\ SeenCurrent'
  BY <1>0, <1>2 DEF MadeBy
<1>3. CASE Mkdir(p)
  BY <1>1, <1>2, <1>3 DEF Mkdir
<1>4. CASE MkdirExists(p)
  BY <1>0, <1>1, <1>4 DEF MkdirExists
<1>5. CASE JudgeStale(p)
  BY <1>0, <1>1, <1>5, StaleIsDead DEF JudgeStale, SafeDeployment
<1>6. CASE Busy(p)
  BY <1>0, <1>1, <1>6 DEF Busy
<1>7. CASE Rmdir(p)
  <2>1. \A q \in Proc : ~InCriticalSection(q)
    BY <1>7 DEF Rmdir
  <2>2. QED BY <1>0, <1>1, <1>7, <2>1 DEF Rmdir, Locks
<1>8. CASE Remkdir(p)
  <2>1. CASE lock.exists
    <3>1. /\ pc[p] = "remkdir" /\ pc' = [pc EXCEPT ![p] = "idle"]
          /\ lock' = lock /\ since' = since
      BY <1>8, <2>1 DEF Remkdir
    <3>2. HolderMadeLock'
      BY <1>0, <3>1
    <3>3. BreakerSound'
      BY <1>0, <3>1 DEF Locks
    <3>4. SeenCurrent'
      BY <1>0, <3>1
    <3>5. QED BY <1>1, <3>2, <3>3, <3>4
  <2>2. CASE ~lock.exists
    BY <1>1, <1>2, <1>8, <2>2 DEF Remkdir
  <2>3. QED BY <2>1, <2>2
<1>9. QED BY <1>3, <1>4, <1>5, <1>6, <1>7, <1>8 DEF AcquireLock

\* A step of the process in its critical section that leaves the lock
\* directory alone keeps the lock part of the invariant; the others read again.
LEMMA BodyKeepsLock ==
    ASSUME IInv, NEW p \in Proc, pc[p] \in {"read", "apply"},
           \E s \in {"apply", "unlock"} : pc' = [pc EXCEPT ![p] = s],
           UNCHANGED <<clock, lock, since>>
    PROVE  HolderMadeLock' /\ BreakerSound'
<1>1. pc \in [Proc -> PCs] /\ lock.exists /\ lock.maker = p
  BY DEF IInv, TypeOK, HolderMadeLock, InCriticalSection, CriticalSection
<1>2. HolderMadeLock'
  BY <1>1 DEF IInv, HolderMadeLock, InCriticalSection, CriticalSection
<1>3. BreakerSound'
  BY <1>1 DEF IInv, BreakerSound, InCriticalSection, CriticalSection
<1>4. QED BY <1>2, <1>3

\* Answering: the caller is the only process in its critical section, so
\* nobody else's read is outdated by the record it writes.
LEMMA AnswerPreserves ==
    ASSUME IInv, TypeOK', NEW p \in Proc, pc[p] = "apply", NEW e, Answer(p, e),
           RecordBounded', GrantBacked'
    PROVE  IInv'
<1>1. HolderMadeLock' /\ BreakerSound'
  BY BodyKeepsLock DEF Answer
<1>2. \A q \in Proc : pc[q] = "apply" => q = p
  BY HolderUnique DEF InCriticalSection, CriticalSection
<1>3. SeenCurrent'
  BY <1>2 DEF SeenCurrent, Answer, IInv, TypeOK
<1>4. QED BY <1>1, <1>3 DEF IInv

\* When the record a call read is not live, nobody holds the lease; when it is
\* the caller's, nobody else does.
LEMMA SeenTellsHolders ==
    ASSUME SafeDeployment, IInv, NEW p \in Proc, pc[p] = "apply",
           ~SeenLive(p) \/ SeenOwn(p) \/ seen[p].state # "valid"
    PROVE  \A q \in Proc \ {p} : ~Holds(q)
<1> SUFFICES ASSUME NEW q \in Proc \ {p}, Holds(q) PROVE FALSE
  OBVIOUS
<1>1. /\ seen[p] = record /\ at[p] <= clock /\ at[p] \in Nat
      /\ clock \in Nat /\ grant[q] \in Nat
  BY DEF IInv, SeenCurrent, TypeOK
<1>2. record = [state |-> "valid", owner |-> OwnerOf[q], expires |-> grant[q]]
  BY DEF IInv, GrantBacked
<1>3. record.owner = OwnerOf[q] /\ record.expires = grant[q] /\ record.state = "valid"
  BY <1>2
<1>4. SeenLive(p)
  BY <1>1, <1>3 DEF SeenLive, IsExpired, Holds
<1>5. QED BY <1>1, <1>3, <1>4 DEF SeenOwn, SafeDeployment

\* Writing a record with expiry at + TTL, when nobody else holds the lease.
LEMMA WritePreserves ==
    ASSUME SafeDeployment, IInv, TypeOK', NEW p \in Proc, pc[p] = "apply",
           \A q \in Proc \ {p} : ~Holds(q), NEW rec \in Records,
           rec.state = "valid", rec.owner = OwnerOf[p], rec.expires = at[p] + TTL,
           WriteRecord(p, rec)
    PROVE  IInv'
<1>1. /\ clock \in Nat /\ grant \in [Proc -> Nat] /\ at[p] \in Nat
      /\ at[p] <= clock /\ clock' = clock
  BY DEF IInv, TypeOK, SeenCurrent, WriteRecord, Answer
<1>2. CASE record' = rec /\ Answer(p, rec.expires)
  <2>1. RecordBounded'
    BY <1>1, <1>2 DEF RecordBounded
  <2>2. rec = [state |-> "valid", owner |-> OwnerOf[p], expires |-> rec.expires]
    BY DEF Records
  <2>3. GrantBacked'
    BY <1>1, <1>2, <2>2 DEF GrantBacked, Holds, Answer
  <2>4. QED BY <1>2, <2>1, <2>3, AnswerPreserves
<1>3. CASE UNCHANGED record /\ Answer(p, grant[p])
  <2>1. grant' = grant
    BY <1>1, <1>3 DEF Answer
  <2>2. RecordBounded' /\ GrantBacked'
    BY <1>1, <1>3, <2>1 DEF IInv, RecordBounded, GrantBacked, Holds
  <2>3. QED BY <1>3, <2>2, AnswerPreserves
<1>4. QED BY <1>2, <1>3 DEF WriteRecord, SafeDeployment

LEMMA BodyPreserves ==
    ASSUME SafeDeployment, IInv, TypeOK', NEW p \in Proc, Body(p)
    PROVE  IInv'
<1>0. /\ record \in Records /\ seen[p] \in Records /\ at[p] \in Nat
      /\ clock \in Nat /\ grant \in [Proc -> Nat] /\ pc \in [Proc -> PCs]
      /\ lock \in Locks
  BY DEF IInv, TypeOK
<1>1. CASE ReadRecord(p)
  <2>1. HolderMadeLock' /\ BreakerSound'
    BY <1>1, BodyKeepsLock DEF ReadRecord
  <2>2. SeenCurrent'
    BY <1>1 DEF ReadRecord, SeenCurrent, IInv, TypeOK
  <2>3. RecordBounded' /\ GrantBacked'
    BY <1>1 DEF ReadRecord, RecordBounded, GrantBacked, Holds, IInv
  <2>4. QED BY <2>1, <2>2, <2>3 DEF IInv
<1>2. CASE AcquireAlready(p)
  <2>1. seen[p] = record /\ SeenLive(p) /\ SeenOwn(p)
    BY <1>2 DEF AcquireAlready, Applying, IInv, SeenCurrent
  <2>2. record = [state |-> "valid", owner |-> OwnerOf[p], expires |-> record.expires]
    BY <1>0, <2>1 DEF SeenLive, SeenOwn, Records
  <2>3. RecordBounded' /\ GrantBacked'
    BY <1>0, <1>2, <2>1, <2>2
       DEF AcquireAlready, Answer, IInv, RecordBounded, GrantBacked, Holds
  <2>4. QED BY <1>2, <2>3, AnswerPreserves DEF AcquireAlready, Applying
<1>3. CASE AcquireRefused(p) \/ RenewRefused(p) \/ ReleaseRefused(p)
  <2>1. pc[p] = "apply" /\ Answer(p, 0) /\ UNCHANGED record
    BY <1>3 DEF AcquireRefused, RenewRefused, ReleaseRefused, Applying
  <2>2. RecordBounded' /\ GrantBacked'
    BY <1>0, <2>1 DEF Answer, IInv, RecordBounded, GrantBacked, Holds
  <2>3. QED BY <2>1, <2>2, AnswerPreserves
<1>4. CASE AcquireNew(p)
  <2>1. \A q \in Proc \ {p} : ~Holds(q)
    BY <1>4, SeenTellsHolders DEF AcquireNew, Applying
  <2>2. NewRecord(p, at[p]) \in Records
    BY <1>0, NewRecordType
  <2>3. QED
    BY <1>4, <2>1, <2>2, WritePreserves DEF AcquireNew, Applying, NewRecord
<1>5. CASE RenewExtend(p)
  <2> DEFINE rec == [seen[p] EXCEPT !.expires = at[p] + TTL]
  <2>1. \A q \in Proc \ {p} : ~Holds(q)
    BY <1>5, SeenTellsHolders DEF RenewExtend, Applying
  <2>2. /\ rec \in Records /\ rec.state = "valid" /\ rec.owner = OwnerOf[p]
        /\ rec.expires = at[p] + TTL
    BY <1>0, <1>5 DEF RenewExtend, Records, SeenLive, SeenOwn
  <2>3. WriteRecord(p, rec) /\ pc[p] = "apply"
    BY <1>5 DEF RenewExtend, Applying
  <2> HIDE DEF rec
  <2>4. QED BY <2>1, <2>2, <2>3, WritePreserves
<1>6. CASE ReleaseUnlink(p)
  <2>1. \A q \in Proc \ {p} : ~Holds(q)
    BY <1>6, SeenTellsHolders DEF ReleaseUnlink, Applying
  <2>2. CASE record' = Unusable("missing") /\ Answer(p, 0)
    <3>1. RecordBounded' /\ GrantBacked'
      BY <1>0, <2>1, <2>2 DEF Answer, RecordBounded, GrantBacked, Holds, Unusable
    <3>2. QED BY <1>6, <2>2, <3>1, AnswerPreserves DEF ReleaseUnlink, Applying
  <2>3. CASE UNCHANGED record /\ Answer(p, grant[p])
    <3>1. RecordBounded' /\ GrantBacked'
      BY <1>0, <2>3 DEF Answer, IInv, RecordBounded, GrantBacked, Holds
    <3>2. QED BY <1>6, <2>3, <3>1, AnswerPreserves DEF ReleaseUnlink, Applying
  <2>4. QED BY <1>6, <2>2, <2>3 DEF ReleaseUnlink
<1>7. CASE ReleaseLock(p)
  <2>1. \A q \in Proc : InCriticalSection(q) => q = p
    BY <1>7, HolderUnique DEF ReleaseLock, InCriticalSection, CriticalSection
  <2>2. HolderMadeLock'
    BY <1>0, <1>7, <2>1 DEF ReleaseLock, HolderMadeLock, InCriticalSection, CriticalSection
  <2>3. \A q \in Proc : pc[q] # "rmdir"
    BY <1>7 DEF ReleaseLock, IInv, BreakerSound, HolderMadeLock, InCriticalSection,
                CriticalSection
  <2>4. BreakerSound'
    BY <1>0, <1>7, <2>3 DEF ReleaseLock, BreakerSound
  <2>5. SeenCurrent'
    BY <1>0, <1>7, <2>1 DEF ReleaseLock, SeenCurrent, InCriticalSection, CriticalSection
  <2>6. RecordBounded' /\ GrantBacked'
    BY <1>7 DEF ReleaseLock, IInv, RecordBounded, GrantBacked, Holds
  <2>7. QED BY <2>2, <2>4, <2>5, <2>6 DEF IInv
<1>8. QED BY <1>1, <1>2, <1>3, <1>4, <1>5, <1>6, <1>7 DEF Body

\* Death leaves the lock directory and the record behind; a corrupt file can
\* only replace a missing one.
LEMMA CrashPreserves ==
    ASSUME IInv, TypeOK', NEW p \in Proc, Crash(p)
    PROVE  IInv'
<1>0. /\ record \in Records /\ clock \in Nat /\ grant \in [Proc -> Nat]
      /\ pc \in [Proc -> PCs] /\ lock \in Locks /\ since \in [Proc -> Nat]
      /\ at \in [Proc -> Nat] /\ seen \in [Proc -> Records]
  BY DEF IInv, TypeOK
<1>1. HolderMadeLock'
  BY <1>0 DEF Crash, IInv, HolderMadeLock, InCriticalSection, CriticalSection
<1>2. BreakerSound'
  BY <1>0 DEF Crash, IInv, BreakerSound, InCriticalSection, CriticalSection, Locks
<1>3. CASE UNCHANGED record
  <2>1. SeenCurrent'
    BY <1>0, <1>3 DEF Crash, IInv, SeenCurrent
  <2>2. RecordBounded' /\ GrantBacked'
    BY <1>0, <1>3 DEF Crash, IInv, RecordBounded, GrantBacked, Holds
  <2>3. QED BY <1>1, <1>2, <2>1, <2>2 DEF IInv
<1>4. CASE /\ Applying(p, "try_acquire") /\ record.state = "missing"
           /\ record' = Unusable("corrupt")
  <2>1. \A q \in Proc : pc[q] = "apply" => q = p
    BY <1>4, HolderUnique DEF Applying, InCriticalSection, CriticalSection
  <2>2. SeenCurrent'
    BY <1>0, <2>1 DEF Crash, SeenCurrent
  <2>3. \A q \in Proc : ~Holds(q)
    BY <1>4 DEF IInv, GrantBacked
  <2>4. RecordBounded' /\ GrantBacked'
    BY <1>0, <1>4, <2>3 DEF Crash, RecordBounded, GrantBacked, Holds, Unusable
  <2>5. QED BY <1>1, <1>2, <2>2, <2>4 DEF IInv
<1>5. QED BY <1>3, <1>4 DEF Crash

LEMMA RestartPreserves ==
    ASSUME IInv, TypeOK', NEW p \in Proc, Restart(p)
    PROVE  IInv'
<1>0. pc \in [Proc -> PCs] /\ lock \in Locks
  BY DEF IInv, TypeOK
<1>1. HolderMadeLock' /\ SeenCurrent'
  BY <1>0 DEF Restart, IInv, HolderMadeLock, SeenCurrent, InCriticalSection, CriticalSection
<1>2. BreakerSound'
  BY <1>0 DEF Restart, IInv, BreakerSound, InCriticalSection, CriticalSection, Locks
<1>3. RecordBounded' /\ GrantBacked'
  BY DEF Restart, IInv, RecordBounded, GrantBacked, Holds
<1>4. QED BY <1>1, <1>2, <1>3 DEF IInv

LEMMA TickPreserves ==
    ASSUME IInv, TypeOK', Tick
    PROVE  IInv'
<1>0. /\ record \in Records /\ clock \in Nat /\ grant \in [Proc -> Nat]
      /\ at \in [Proc -> Nat] /\ since \in [Proc -> Nat]
  BY DEF IInv, TypeOK
<1>1. HolderMadeLock'
  BY <1>0 DEF Tick, IInv, HolderMadeLock, InCriticalSection
<1>2. BreakerSound'
  BY DEF Tick, IInv, BreakerSound, InCriticalSection
<1>3. SeenCurrent'
  BY <1>0 DEF Tick, IInv, SeenCurrent
<1>4. RecordBounded' /\ GrantBacked'
  BY <1>0 DEF Tick, IInv, RecordBounded, GrantBacked, Holds, Records
<1>5. QED BY <1>1, <1>2, <1>3, <1>4 DEF IInv

\* IInv is inductive: every step of every process, every crash and every tick
\* of the clock preserves it.
THEOREM InductiveInvariant ==
    ASSUME SafeDeployment
    PROVE  Spec => []IInv
<1>1. IInv /\ [Next]_vars => IInv'
  <2> SUFFICES ASSUME IInv, [Next]_vars PROVE IInv'
    OBVIOUS
  <2>0. TypeOK'
    BY TypeCorrectNext DEF IInv
  <2>1. ASSUME NEW p \in Proc, Step(p) PROVE IInv'
    BY <2>0, <2>1, AcquireLockPreserves, BodyPreserves DEF Step
  <2>2. ASSUME NEW p \in Proc, Crash(p) \/ Restart(p) PROVE IInv'
    BY <2>0, <2>2, CrashPreserves, RestartPreserves
  <2>3. CASE Tick
    BY <2>0, <2>3, TickPreserves
  <2>4. CASE UNCHANGED vars
    BY <2>4 DEF vars, IInv, TypeOK, HolderMadeLock, BreakerSound, SeenCurrent,
                RecordBounded, GrantBacked, Holds, InCriticalSection
  <2>5. QED BY <2>1, <2>2, <2>3, <2>4 DEF Next
<1>2. QED BY InitIInv, <1>1, PTL DEF Spec

\* LeaseExclusive: in a SafeDeployment no two processes are ever told that
\* they hold one lease at the same time, whatever dies and whenever.
THEOREM Exclusive ==
    ASSUME SafeDeployment
    PROVE  Spec => []LeaseExclusive
<1>1. IInv => LeaseExclusive
  BY HolderOfLeaseUnique DEF LeaseExclusive
<1>2. QED BY InductiveInvariant, <1>1, PTL

\* CriticalSectionExclusive: in a SafeDeployment the lock directory excludes,
\* although it is broken when stale and removed unconditionally.
THEOREM LockExclusive ==
    ASSUME SafeDeployment
    PROVE  Spec => []CriticalSectionExclusive
<1>1. IInv => CriticalSectionExclusive
  BY HolderUnique DEF CriticalSectionExclusive
<1>2. QED BY InductiveInvariant, <1>1, PTL

-----------------------------------------------------------------------------
(* FileLease implements Lease *)

\* An answer e of process p is a Hold step when nobody else holds, and e is
\* within one TTL.
LEMMA AnswerHolds ==
    ASSUME NEW p \in Proc, NEW e \in Nat, Answer(p, e), e > 0, e <= clock + TTL,
           \A q \in Proc \ {p} : ~Holds(q), clock \in Nat
    PROVE  Abstract!Next
<1>1. e \in 1 .. clock + TTL
  OBVIOUS
<1>2. Abstract!Hold(p, e)
  BY DEF Answer, Abstract!Hold, Abstract!Holds, Holds
<1>3. QED BY <1>1, <1>2 DEF Abstract!Next

LEMMA WriteRefines ==
    ASSUME IInv, NEW p \in Proc, pc[p] = "apply", SafeDeployment,
           \A q \in Proc \ {p} : ~Holds(q), NEW rec \in Records,
           rec.expires = at[p] + TTL, WriteRecord(p, rec)
    PROVE  [Abstract!Next]_<<clock, grant>>
<1>1. at[p] \in Nat /\ at[p] <= clock /\ clock \in Nat /\ grant \in [Proc -> Nat]
  BY DEF IInv, TypeOK, SeenCurrent
<1>2. CASE Answer(p, rec.expires)
  BY <1>1, <1>2, AnswerHolds
<1>3. CASE Answer(p, grant[p])
  BY <1>1, <1>3 DEF Answer
<1>4. QED BY <1>2, <1>3 DEF WriteRecord

\* A step that answers nothing leaves the abstract state alone; one that
\* answers 0 or kills the process is a Drop; one that answers an expiry is a
\* Hold, which SeenTellsHolders permits.
LEMMA StepRefines ==
    ASSUME SafeDeployment, IInv, [Next]_vars
    PROVE  [Abstract!Next]_<<clock, grant>>
<1>0. clock \in Nat /\ grant \in [Proc -> Nat] /\ seen \in [Proc -> Records]
      /\ record \in Records /\ at \in [Proc -> Nat]
  BY DEF IInv, TypeOK
<1>1. ASSUME NEW p \in Proc, AcquireLock(p) \/ ReadRecord(p) \/ ReleaseLock(p) \/ Restart(p)
      PROVE  UNCHANGED <<clock, grant>>
  BY <1>1 DEF AcquireLock, Mkdir, MkdirExists, JudgeStale, Busy, Rmdir, Remkdir,
              ReadRecord, ReleaseLock, Restart
<1>2. ASSUME NEW p \in Proc, Crash(p) \/ Answer(p, 0) PROVE Abstract!Next
  BY <1>2 DEF Crash, Answer, Abstract!Next, Abstract!Drop
<1>3. ASSUME NEW p \in Proc, AcquireRefused(p) \/ RenewRefused(p) \/ ReleaseRefused(p)
      PROVE  Abstract!Next
  BY <1>2, <1>3 DEF AcquireRefused, RenewRefused, ReleaseRefused
<1>4. ASSUME NEW p \in Proc, AcquireAlready(p) PROVE Abstract!Next
  <2>1. pc[p] = "apply" /\ SeenLive(p) /\ SeenOwn(p) /\ Answer(p, seen[p].expires)
    BY <1>4 DEF AcquireAlready, Applying
  <2>2. seen[p] = record /\ record.state = "valid"
    BY <2>1 DEF IInv, SeenCurrent, SeenLive
  <2>3. seen[p].expires \in Nat /\ seen[p].expires <= clock + TTL
    BY <1>0, <2>2 DEF IInv, RecordBounded, Records
  <2>4. seen[p].expires > 0
    BY <1>0, <2>1, <2>3 DEF SeenLive, IsExpired
  <2>5. \A q \in Proc \ {p} : ~Holds(q)
    BY <2>1, SeenTellsHolders
  <2>6. QED BY <1>0, <2>1, <2>3, <2>4, <2>5, AnswerHolds
<1>5. ASSUME NEW p \in Proc, AcquireNew(p) PROVE [Abstract!Next]_<<clock, grant>>
  <2>1. \A q \in Proc \ {p} : ~Holds(q)
    BY <1>5, SeenTellsHolders DEF AcquireNew, Applying
  <2>2. NewRecord(p, at[p]) \in Records
    BY <1>0, NewRecordType
  <2>3. QED
    BY <1>5, <2>1, <2>2, WriteRefines DEF AcquireNew, Applying, NewRecord
<1>6. ASSUME NEW p \in Proc, RenewExtend(p) PROVE [Abstract!Next]_<<clock, grant>>
  <2> DEFINE rec == [seen[p] EXCEPT !.expires = at[p] + TTL]
  <2>1. \A q \in Proc \ {p} : ~Holds(q)
    BY <1>6, SeenTellsHolders DEF RenewExtend, Applying
  <2>2. rec \in Records /\ rec.expires = at[p] + TTL
    BY <1>0 DEF Records
  <2>3. WriteRecord(p, rec) /\ pc[p] = "apply"
    BY <1>6 DEF RenewExtend, Applying
  <2> HIDE DEF rec
  <2>4. QED BY <2>1, <2>2, <2>3, WriteRefines
<1>7. ASSUME NEW p \in Proc, ReleaseUnlink(p) PROVE [Abstract!Next]_<<clock, grant>>
  <2>1. CASE Answer(p, 0)
    BY <1>2, <2>1
  <2>2. CASE Answer(p, grant[p])
    BY <1>0, <2>2 DEF Answer
  <2>3. QED BY <1>7, <2>1, <2>2 DEF ReleaseUnlink
<1>8. CASE Tick
  BY <1>8 DEF Tick, Abstract!Next, Abstract!Tick
<1>9. CASE UNCHANGED vars
  BY <1>9 DEF vars
<1>10. QED
  BY <1>1, <1>2, <1>3, <1>4, <1>5, <1>6, <1>7, <1>8, <1>9 DEF Next, Step, Body

\* LeaseSpec: in a SafeDeployment the file protocol implements module Lease, so
\* a component that uses the lease may rely on that specification instead.
THEOREM ImplementsLease ==
    ASSUME SafeDeployment
    PROVE  Spec => LeaseSpec
<1>1. Init => Abstract!Init
  BY DEF Init, Abstract!Init
<1>2. IInv /\ [Next]_vars => [Abstract!Next]_<<clock, grant>>
  BY StepRefines
<1>3. QED
  BY InductiveInvariant, <1>1, <1>2, PTL DEF Spec, LeaseSpec, Abstract!Spec

=============================================================================
