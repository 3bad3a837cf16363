------------------------ MODULE CoordinationProofs ------------------------
(* Proofs about Coordination, for any replicas, inventory, targets and times. *)
EXTENDS Coordination, TLAPS, FiniteSetTheorems

LEMMA TtlLong == \A l \in Lease : Ttl(l) \in Nat /\ Ttl(l) > 2 * MaxGap
BY GapAssumption DEF Ttl

LEMMA LeaderIsNoGroup == Leader \in Lease /\ Leader \notin SG /\ SG \subseteq Lease
BY SGAssumption DEF Leader, Lease

LEMMA TypeCorrectInit == Init => TypeOK
BY GapAssumption, SettingsAssumption DEF Init, TypeOK, PCs

LEMMA TypeCorrectNext == TypeOK /\ [Next]_vars => TypeOK'
<1> SUFFICES ASSUME TypeOK, [Next]_vars PROVE TypeOK'
  OBVIOUS
<1> USE GapAssumption, SettingsAssumption, LeaderIsNoGroup, TtlLong DEF TypeOK, PCs, records
<1> USE DEF Believe, Forget, Doubt, Sure, Write, TryAcquire, GiveBack, Fault, HeldGroups
<1>1. CASE Tick
  <2>1. left' \in [Lease -> Nat]
    BY <1>1 DEF Tick, Remaining, Live
  <2>2. owner' \in [Lease -> Replica \cup {None}]
    BY <1>1 DEF Tick
  <2>3. age' \in [Replica -> 0 .. MaxGap]
    BY <1>1 DEF Tick
  <2>4. QED
    BY <1>1, <2>1, <2>2, <2>3 DEF Tick
<1>2. ASSUME NEW r \in Replica, StartTick(r) \/ BeginAcquire(r) \/ EndTick(r) PROVE TypeOK'
  BY <1>2 DEF StartTick, BeginAcquire, EndTick, Lease
<1>3. ASSUME NEW r \in Replica, Lead(r) PROVE TypeOK'
  BY <1>3 DEF Lead, AfterTryAcquire, AfterLead
<1>4. ASSUME NEW r \in Replica, LeadRenew(r) PROVE TypeOK'
  BY <1>4 DEF LeadRenew, AfterLead
<1>5. ASSUME NEW r \in Replica, NEW l \in SG, Renew(r, l) \/ Acquire(r, l) \/ Release(r, l)
      PROVE  TypeOK'
  <2>1. CASE Renew(r, l)
    BY <2>1 DEF Renew, NotRenewed
  <2>2. CASE Acquire(r, l)
    BY <2>2 DEF Acquire
  <2>3. CASE Release(r, l)
    BY <2>3 DEF Release
  <2>4. QED
    BY <1>5, <2>1, <2>2, <2>3
<1>6. ASSUME NEW r \in Replica, ReleaseLeader(r) PROVE TypeOK'
  BY <1>6 DEF ReleaseLeader
<1>7. ASSUME NEW r \in Replica, Leave(r) \/ Die(r) \/ Restart(r) PROVE TypeOK'
  BY <1>7 DEF Leave, Die, Restart, ToRelease, Lease
<1>8. CASE UNCHANGED vars
  BY <1>8 DEF vars
<1>9. QED
  BY <1>1, <1>2, <1>3, <1>4, <1>5, <1>6, <1>7, <1>8 DEF Next, Step

\* The types of the variables, in every reachable state.
THEOREM TypeCorrect == Spec => []TypeOK
<1>1. Init => TypeOK
  BY TypeCorrectInit
<1>2. TypeOK /\ [Next]_vars => TypeOK'
  BY TypeCorrectNext
<1>3. QED
  BY <1>1, <1>2, PTL DEF Spec

-----------------------------------------------------------------------------
(* The inductive invariant *)

LEMMA IInvInit == Init => IInv
<1> SUFFICES ASSUME Init PROVE IInv
  OBVIOUS
<1>1. TypeOK
  BY TypeCorrectInit
<1>2. OwnedKnown /\ Fresh
  BY DEF Init, OwnedKnown, Owns, Live, Fresh
<1>3. AllToRenew /\ Roles /\ GivingBack
  BY DEF Init, AllToRenew, Roles, GivingBack
<1>4. QED
  BY <1>1, <1>2, <1>3 DEF IInv

\* What a serving replica surely holds is its own for a while.
LEMMA SureIsOwned ==
    ASSUME IInv, NEW r \in Replica, Serving(r), NEW l \in held[r] \ doubt[r]
    PROVE  Owns(r, l)
<1>1. l \in Lease /\ left[l] \in Nat /\ age[r] \in 0 .. MaxGap
  BY DEF IInv, TypeOK
<1>2. owner[l] = r /\ left[l] >= Ttl(l) - age[r] - (IF Pending(r, l) THEN MaxGap ELSE 0)
  BY DEF IInv, Fresh
<1>3. QED
  BY <1>1, <1>2, TtlLong, GapAssumption DEF Owns, Live

\* No two replicas surely hold the same lease.
LEMMA SureApart ==
    ASSUME IInv, NEW q \in Replica, NEW r \in Replica, q # r,
           Serving(q), NEW l \in held[q] \ doubt[q]
    PROVE  ~Owns(r, l) /\ Live(l)
BY SureIsOwned DEF Owns

\* Steps of the loop and of release_all that touch no record.
LEMMA QuietKeepsIInv ==
    ASSUME IInv, NEW r \in Replica,
           \/ StartTick(r) \/ BeginAcquire(r) \/ EndTick(r)
           \/ Leave(r) \/ Die(r) \/ Restart(r)
    PROVE  IInv'
<1>0. TypeOK
  BY DEF IInv
<1>1. TypeOK'
  BY TypeCorrectNext DEF IInv, Next, Step
<1> USE DEF StartTick, BeginAcquire, EndTick, Leave, Die, Restart, ToRelease, HeldGroups, records
<1>2. OwnedKnown'
  BY <1>0, <1>1 DEF IInv, OwnedKnown, Owns, Live, TypeOK
<1>3. Fresh'
  <2> SUFFICES ASSUME NEW q \in Replica, Serving(q)', NEW l \in (held[q] \ doubt[q])'
               PROVE  /\ owner'[l] = q
                      /\ left'[l] >= Ttl(l) - age'[q] - (IF Pending(q, l)' THEN MaxGap ELSE 0)
    BY DEF Fresh
  <2>1. UNCHANGED records /\ Ttl(l) \in Nat /\ left[l] \in Nat /\ age[q] \in 0 .. MaxGap
    BY <1>0, <1>1, TtlLong DEF TypeOK
  <2>2. CASE Restart(r) /\ q = r
    BY <1>0, <2>2 DEF IInv, GivingBack, TypeOK
  <2>3. CASE ~(Restart(r) /\ q = r)
    <3>1. Serving(q) /\ l \in held[q] \ doubt[q]
      BY <1>0, <2>3 DEF TypeOK, Serving
    <3>2. owner[l] = q /\ left[l] >= Ttl(l) - age[q] - (IF Pending(q, l) THEN MaxGap ELSE 0)
      BY <3>1 DEF IInv, Fresh
    <3>3. CASE q # r
      BY <1>0, <2>1, <3>2, <3>3 DEF TypeOK, Pending
    <3>4. CASE q = r
      BY <1>0, <2>1, <2>3, <3>1, <3>2, <3>4, LeaderIsNoGroup, GapAssumption
         DEF TypeOK, Pending, Serving, IInv, Roles
    <3>5. QED
      BY <3>3, <3>4
  <2>4. QED
    BY <2>2, <2>3
<1>4. AllToRenew'
  BY <1>0 DEF IInv, AllToRenew, TypeOK
<1>5. Roles'
  BY <1>0 DEF IInv, Roles, TypeOK, GivingBack
<1>6. GivingBack'
  BY <1>0, LeaderIsNoGroup DEF IInv, GivingBack, OwnedKnown, Owns, Live, TypeOK
<1>7. QED
  BY <1>1, <1>2, <1>3, <1>4, <1>5, <1>6 DEF IInv

-----------------------------------------------------------------------------
(* Steps that may write a record *)

\* IInv without the types, for one replica.
KnownOf(r) == \A l \in Lease : Owns(r, l) => l \in held[r] \cup doubt[r]
FreshOf(r) ==
    Serving(r) => \A l \in held[r] \ doubt[r] :
        /\ owner[l] = r
        /\ left[l] >= Ttl(l) - age[r] - (IF Pending(r, l) THEN MaxGap ELSE 0)
LoopOf(r) ==
    /\ pc[r] \in {"lead", "lead_renew"} => todo[r] = HeldGroups(r)
    /\ pc[r] = "lead_renew" => Leader \in held[r]
    /\ pc[r] = "renew" => todo[r] \subseteq held[r]
    /\ Mode[r] = "worker" => Leader \notin held[r] /\ pc[r] \notin {"lead", "lead_renew"}
    /\ Mode[r] = "controller" => held[r] \subseteq {Leader} /\ pc[r] \notin {"renew", "acquire"}
    /\ pc[r] = "release" => \A l \in SG : Owns(r, l) => l \in todo[r] \cup doubt[r]
    /\ pc[r] = "down" => held[r] = {}
Good(r) == KnownOf(r) /\ FreshOf(r) /\ LoopOf(r)

LEMMA IInvByReplica == IInv <=> TypeOK /\ \A r \in Replica : Good(r)
BY DEF IInv, OwnedKnown, Fresh, AllToRenew, Roles, GivingBack, Good, KnownOf, FreshOf, LoopOf

LEMMA IInvByReplicaNext == IInv' <=> TypeOK' /\ \A r \in Replica : Good(r)'
BY DEF IInv, OwnedKnown, Fresh, AllToRenew, Roles, GivingBack, Good, KnownOf, FreshOf, LoopOf

\* r changes nothing of another replica's memory, and only records that are its
\* own or expired, which become its own or nobody's.
Minds(r) ==
    /\ \A q \in Replica \ {r} :
          /\ held'[q] = held[q] /\ pc'[q] = pc[q] /\ todo'[q] = todo[q]
          /\ age'[q] = age[q] /\ doubt'[q] = doubt[q]
    /\ \A l \in Lease :
          \/ owner'[l] = owner[l] /\ left'[l] = left[l]
          \/ (~Live(l) \/ Owns(r, l)) /\ owner'[l] \in {r, None}

LEMMA OthersStayGood ==
    ASSUME IInv, NEW r \in Replica, Minds(r), NEW q \in Replica \ {r}
    PROVE  Good(q)'
<1>0. TypeOK /\ Good(q)
  BY IInvByReplica
<1>1. /\ held'[q] = held[q] /\ pc'[q] = pc[q] /\ todo'[q] = todo[q]
      /\ age'[q] = age[q] /\ doubt'[q] = doubt[q]
  BY DEF Minds
<1>2. \A l \in Lease : Owns(q, l)' => Owns(q, l)
  BY ReplicaAssumption DEF Minds, Owns, Live
<1>3. \A l \in Lease : Owns(q, l) => owner'[l] = owner[l] /\ left'[l] = left[l]
  BY DEF Minds, Owns, Live
<1>4. KnownOf(q)'
  BY <1>0, <1>1, <1>2 DEF Good, KnownOf
<1>5. FreshOf(q)'
  <2> SUFFICES ASSUME Serving(q)', NEW l \in (held[q] \ doubt[q])'
               PROVE  /\ owner'[l] = q
                      /\ left'[l] >= Ttl(l) - age'[q] - (IF Pending(q, l)' THEN MaxGap ELSE 0)
    BY DEF FreshOf
  <2>1. Serving(q) /\ l \in held[q] \ doubt[q] /\ l \in Lease
    BY <1>0, <1>1 DEF Serving, TypeOK
  <2>2. Owns(q, l)
    BY <2>1, SureIsOwned
  <2>3. Pending(q, l)' = Pending(q, l)
    BY <1>1 DEF Pending
  <2>4. QED
    BY <1>0, <1>1, <1>3, <2>1, <2>2, <2>3 DEF Good, FreshOf
<1>6. LoopOf(q)'
  BY <1>0, <1>1, <1>2, LeaderIsNoGroup DEF Good, LoopOf, HeldGroups
<1>7. QED
  BY <1>4, <1>5, <1>6 DEF Good

LEMMA LeadKeepsIInv == ASSUME IInv, NEW r \in Replica, Lead(r) PROVE IInv'
<1>0. TypeOK /\ TypeOK' /\ Good(r)
  BY TypeCorrectNext, IInvByReplica DEF Next, Step
<1> USE LeaderIsNoGroup DEF Lead, TryAcquire, Believe, Forget, Doubt, Sure, Write, records
<1>1. Minds(r)
  BY <1>0, SettingsAssumption DEF TypeOK, Minds, Owns
<1>2. KnownOf(r)'
  BY <1>0 DEF Good, KnownOf, Owns, Live, TypeOK
<1>3. LoopOf(r)'
  BY <1>0, SettingsAssumption
     DEF Good, LoopOf, TypeOK, AfterTryAcquire, AfterLead, HeldGroups, Owns, Live, Modes
<1>4. FreshOf(r)'
  <2>1. Serving(r)
    BY <1>0 DEF Serving, TypeOK
  <2>2. QED
    BY <1>0, <2>1, TtlLong, GapAssumption
       DEF Good, FreshOf, LoopOf, KnownOf, TypeOK, Pending, Owns, Live, AfterTryAcquire,
           AfterLead, HeldGroups
<1>5. QED
  BY <1>0, <1>1, <1>2, <1>3, <1>4, OthersStayGood, IInvByReplicaNext DEF Good

LEMMA LeadRenewKeepsIInv == ASSUME IInv, NEW r \in Replica, LeadRenew(r) PROVE IInv'
<1>0. TypeOK /\ TypeOK' /\ Good(r)
  BY TypeCorrectNext, IInvByReplica DEF Next, Step
<1> USE LeaderIsNoGroup DEF LeadRenew, Doubt, Sure, Write, records
<1>1. Minds(r)
  BY <1>0, SettingsAssumption DEF TypeOK, Minds, Owns
<1>2. KnownOf(r)'
  BY <1>0 DEF Good, KnownOf, LoopOf, Owns, Live, TypeOK
<1>3. LoopOf(r)'
  BY <1>0, SettingsAssumption DEF Good, LoopOf, TypeOK, AfterLead, HeldGroups, Modes
<1>4. FreshOf(r)'
  <2>1. Serving(r)
    BY <1>0 DEF Serving, TypeOK
  <2>2. QED
    BY <1>0, <2>1, TtlLong, GapAssumption
       DEF Good, FreshOf, LoopOf, TypeOK, Pending, Owns, AfterLead, HeldGroups
<1>5. QED
  BY <1>0, <1>1, <1>2, <1>3, <1>4, OthersStayGood, IInvByReplicaNext DEF Good

LEMMA RenewKeepsIInv ==
    ASSUME IInv, NEW r \in Replica, NEW l \in SG, Renew(r, l)
    PROVE  IInv'
<1>0. TypeOK /\ TypeOK' /\ Good(r)
  BY TypeCorrectNext, IInvByReplica DEF Next, Step
<1> USE LeaderIsNoGroup DEF Renew, NotRenewed, Forget, Doubt, Sure, Write, records
<1>1. Minds(r)
  BY <1>0 DEF TypeOK, Minds, Owns
<1>2. KnownOf(r)'
  BY <1>0 DEF Good, KnownOf, LoopOf, Owns, Live, TypeOK
<1>3. LoopOf(r)'
  BY <1>0 DEF Good, LoopOf, TypeOK, HeldGroups
<1>4. FreshOf(r)'
  <2>1. Serving(r) /\ Serving(r)'
    BY <1>0 DEF Serving, TypeOK
  <2>2. QED
    BY <1>0, <2>1, TtlLong, GapAssumption DEF Good, FreshOf, TypeOK, Pending
<1>5. QED
  BY <1>0, <1>1, <1>2, <1>3, <1>4, OthersStayGood, IInvByReplicaNext DEF Good

LEMMA AcquireKeepsIInv ==
    ASSUME IInv, NEW r \in Replica, NEW l \in SG, Acquire(r, l)
    PROVE  IInv'
<1>0. TypeOK /\ TypeOK' /\ Good(r)
  BY TypeCorrectNext, IInvByReplica DEF Next, Step
<1> USE LeaderIsNoGroup DEF Acquire, TryAcquire, Believe, Forget, Sure, Write, records
<1>1. Minds(r)
  BY <1>0 DEF TypeOK, Minds, Owns
<1>2. KnownOf(r)'
  BY <1>0 DEF Good, KnownOf, Owns, Live, TypeOK
<1>3. LoopOf(r)'
  BY <1>0 DEF Good, LoopOf, TypeOK, HeldGroups
<1>4. FreshOf(r)'
  <2>1. Serving(r) /\ Serving(r)'
    BY <1>0 DEF Serving, TypeOK
  <2>2. QED
    BY <1>0, <2>1, TtlLong, GapAssumption
       DEF Good, FreshOf, KnownOf, TypeOK, Pending, Owns, Live
<1>5. QED
  BY <1>0, <1>1, <1>2, <1>3, <1>4, OthersStayGood, IInvByReplicaNext DEF Good

LEMMA ReleaseKeepsIInv ==
    ASSUME IInv, NEW r \in Replica, NEW l \in SG, Release(r, l)
    PROVE  IInv'
<1>0. TypeOK /\ TypeOK' /\ Good(r)
  BY TypeCorrectNext, IInvByReplica DEF Next, Step
<1> USE LeaderIsNoGroup DEF Release, GiveBack, Forget, Doubt, Sure, records
<1>1. Minds(r)
  BY <1>0 DEF TypeOK, Minds
<1>2. KnownOf(r)'
  BY <1>0 DEF Good, KnownOf, Owns, Live, TypeOK
<1>3. LoopOf(r)' /\ FreshOf(r)'
  BY <1>0 DEF Good, LoopOf, FreshOf, Serving, TypeOK, HeldGroups, Owns, Live
<1>4. QED
  BY <1>0, <1>1, <1>2, <1>3, OthersStayGood, IInvByReplicaNext DEF Good

LEMMA ReleaseLeaderKeepsIInv ==
    ASSUME IInv, NEW r \in Replica, ReleaseLeader(r)
    PROVE  IInv'
<1>0. TypeOK /\ TypeOK' /\ Good(r)
  BY TypeCorrectNext, IInvByReplica DEF Next, Step
<1> USE LeaderIsNoGroup DEF ReleaseLeader, Doubt, Sure, records
<1>1. Minds(r)
  BY <1>0 DEF TypeOK, Minds
<1>2. KnownOf(r)'
  BY <1>0 DEF Good, LoopOf, KnownOf, Owns, Live, TypeOK, Lease
<1>3. LoopOf(r)' /\ FreshOf(r)'
  BY <1>0 DEF Good, LoopOf, FreshOf, Serving, TypeOK
<1>4. QED
  BY <1>0, <1>1, <1>2, <1>3, OthersStayGood, IInvByReplicaNext DEF Good

\* Time: what is surely held does not expire, for a tick's renewals are not over
\* MaxGap apart from the next one's.
LEMMA TickKeepsIInv == ASSUME IInv, Tick PROVE IInv'
<1>0. TypeOK /\ TypeOK'
  BY TypeCorrectNext DEF IInv, Next
<1> SUFFICES ASSUME NEW r \in Replica PROVE Good(r)'
  BY <1>0, IInvByReplicaNext
<1>1. Good(r)
  BY IInvByReplica
<1>2. UNCHANGED <<held, pc, todo, doubt>>
  BY DEF Tick
<1>3. \A l \in Lease : Owns(r, l)' => Owns(r, l)
  BY <1>0, ReplicaAssumption DEF Tick, TypeOK, Owns, Live
<1>4. KnownOf(r)'
  BY <1>1, <1>2, <1>3 DEF Good, KnownOf
<1>5. LoopOf(r)'
  BY <1>1, <1>2, <1>3, LeaderIsNoGroup DEF Good, LoopOf, HeldGroups
<1>6. FreshOf(r)'
  <2> SUFFICES ASSUME Serving(r)', NEW l \in (held[r] \ doubt[r])'
               PROVE  /\ owner'[l] = r
                      /\ left'[l] >= Ttl(l) - age'[r] - (IF Pending(r, l)' THEN MaxGap ELSE 0)
    BY DEF FreshOf
  <2>1. Serving(r) /\ l \in held[r] \ doubt[r] /\ Pending(r, l)' = Pending(r, l)
    BY <1>2 DEF Serving, Pending
  <2>2. l \in Lease /\ left[l] \in Nat /\ age[r] \in Nat /\ age[r] < MaxGap
    BY <1>0, <2>1 DEF Tick, TypeOK
  <2>3. owner[l] = r /\ left[l] >= Ttl(l) - age[r] - (IF Pending(r, l) THEN MaxGap ELSE 0)
    BY <1>1, <2>1 DEF Good, FreshOf
  <2>4. left[l] > 1
    BY <2>2, <2>3, TtlLong, GapAssumption
  <2>5. owner'[l] = r /\ left'[l] = left[l] - 1 /\ age'[r] = age[r] + 1
    BY <2>1, <2>2, <2>3, <2>4 DEF Tick, Remaining, Live
  <2>6. QED
    BY <2>1, <2>2, <2>3, <2>5, TtlLong, GapAssumption
<1>7. QED
  BY <1>4, <1>5, <1>6 DEF Good

LEMMA IInvNext == IInv /\ [Next]_vars => IInv'
<1> SUFFICES ASSUME IInv, [Next]_vars PROVE IInv'
  OBVIOUS
<1>1. CASE Tick
  BY <1>1, TickKeepsIInv
<1>2. ASSUME NEW r \in Replica, Step(r) PROVE IInv'
  BY <1>2, QuietKeepsIInv, LeadKeepsIInv, LeadRenewKeepsIInv, RenewKeepsIInv, AcquireKeepsIInv,
     ReleaseKeepsIInv, ReleaseLeaderKeepsIInv DEF Step
<1>3. ASSUME NEW r \in Replica, Leave(r) \/ Die(r) \/ Restart(r) PROVE IInv'
  BY <1>3, QuietKeepsIInv
<1>4. CASE UNCHANGED vars
  BY <1>4 DEF vars, IInv, TypeOK, OwnedKnown, Fresh, AllToRenew, Roles, GivingBack, Owns, Live,
              Serving, Pending, HeldGroups
<1>5. QED
  BY <1>1, <1>2, <1>3, <1>4 DEF Next

\* The invariant, in every reachable state.
THEOREM Invariant == Spec => []IInv
<1>1. QED
  BY IInvInit, IInvNext, PTL DEF Spec

\* Renewals come in time: what a manager surely believes to hold is its own.
THEOREM BeliefIsBacked == Spec => []BeliefBacked
<1>1. IInv => BeliefBacked
  BY SureIsOwned DEF BeliefBacked
<1>2. QED
  BY <1>1, Invariant, PTL

\* Nothing is owned unknowingly, and release_all leaves nothing behind.
THEOREM OwnedIsKnown == Spec => []OwnedKnown
<1>1. IInv => OwnedKnown
  BY DEF IInv
<1>2. QED
  BY <1>1, Invariant, PTL

\* Two replicas never surely believe to hold the same lease.
THEOREM Disjoint == Spec => []SureDisjoint
<1>1. IInv => SureDisjoint
  BY SureApart, SureIsOwned DEF SureDisjoint
<1>2. QED
  BY <1>1, Invariant, PTL

-----------------------------------------------------------------------------
(* The target *)

\* What r holds is counted, and not more than its target.
Bounded(r) == IsFiniteSet(HeldGroups(r)) /\ Cardinality(HeldGroups(r)) <= Target[r]

LEMMA LessStaysBounded ==
    ASSUME TypeOK, NEW r \in Replica, Bounded(r), HeldGroups(r)' \subseteq HeldGroups(r)
    PROVE  Bounded(r)'
<1>1. /\ IsFiniteSet(HeldGroups(r)')
      /\ Cardinality(HeldGroups(r)') <= Cardinality(HeldGroups(r))
  BY FS_Subset DEF Bounded
<1>2. Cardinality(HeldGroups(r)') \in Nat /\ Cardinality(HeldGroups(r)) \in Nat
  BY <1>1, FS_CardinalityType DEF Bounded
<1>3. QED
  BY <1>1, <1>2, SettingsAssumption DEF Bounded

\* tick never holds more than target_service_groups, so it never releases extras.
THEOREM TargetIsKept == Spec => []WithinTarget
<1> DEFINE AllBounded == \A r \in Replica : Bounded(r)
<1>1. Init => AllBounded
  BY FS_EmptySet, SettingsAssumption DEF Init, Bounded, HeldGroups
<1>2. TypeOK /\ AllBounded /\ [Next]_vars => AllBounded'
  <2> SUFFICES ASSUME TypeOK, AllBounded, [Next]_vars, NEW r \in Replica PROVE Bounded(r)'
    OBVIOUS
  <2> USE LeaderIsNoGroup DEF HeldGroups, Forget, Believe, TypeOK
  <2>1. ASSUME NEW q \in Replica, NEW l \in SG, Acquire(q, l) PROVE Bounded(r)'
    <3>1. CASE HeldGroups(r)' \subseteq HeldGroups(r)
      BY <3>1, LessStaysBounded
    <3>2. CASE ~(HeldGroups(r)' \subseteq HeldGroups(r))
      <4>1. q = r /\ BelowTarget(r) /\ HeldGroups(r)' = HeldGroups(r) \cup {l}
        BY <2>1, <3>2 DEF Acquire, TryAcquire
      <4>2. /\ IsFiniteSet(HeldGroups(r)')
            /\ Cardinality(HeldGroups(r)') \in
                   {Cardinality(HeldGroups(r)), Cardinality(HeldGroups(r)) + 1}
        <5>1. ASSUME NEW S, IsFiniteSet(S)
              PROVE  /\ IsFiniteSet(S \cup {l})
                     /\ Cardinality(S \cup {l}) \in {Cardinality(S), Cardinality(S) + 1}
          BY <5>1, FS_AddElement
        <5>2. IsFiniteSet(HeldGroups(r))
          BY DEF Bounded
        <5>3. QED
          BY <4>1, <5>1, <5>2
      <4>3. Cardinality(HeldGroups(r)) \in Nat
        BY FS_CardinalityType DEF Bounded
      <4>4. QED
        BY <4>1, <4>2, <4>3, SettingsAssumption DEF Bounded, BelowTarget
    <3>3. QED
      BY <3>1, <3>2
  <2>2. ASSUME NEW q \in Replica, Lead(q) \/ LeadRenew(q) \/ ReleaseLeader(q)
        PROVE  HeldGroups(r)' \subseteq HeldGroups(r)
    BY <2>2 DEF Lead, LeadRenew, ReleaseLeader, TryAcquire
  <2>3. ASSUME NEW q \in Replica, NEW l \in SG, Renew(q, l) \/ Release(q, l)
        PROVE  HeldGroups(r)' \subseteq HeldGroups(r)
    BY <2>3 DEF Renew, Release, NotRenewed, GiveBack
  <2>4. ASSUME NEW q \in Replica,
               \/ StartTick(q) \/ BeginAcquire(q) \/ EndTick(q)
               \/ Leave(q) \/ Die(q) \/ Restart(q)
        PROVE  HeldGroups(r)' \subseteq HeldGroups(r)
    BY <2>4 DEF StartTick, BeginAcquire, EndTick, Leave, Die, Restart
  <2>5. CASE Tick \/ UNCHANGED vars
    BY <2>5, LessStaysBounded DEF Tick, vars
  <2>6. QED
    BY <2>1, <2>2, <2>3, <2>4, <2>5, LessStaysBounded DEF Next, Step
<1>3. AllBounded => WithinTarget
  BY DEF Bounded, WithinTarget
<1>4. QED
  BY <1>1, <1>2, <1>3, TypeCorrect, PTL DEF Spec

=============================================================================
