---------------------------- MODULE Coordination ----------------------------
(***************************************************************************)
(* The replicas of a deployment: each runs the orchestrator's loop over    *)
(* CoordinationManager.tick and gives everything back with release_all.    *)
(*                                                                         *)
(* A lease is the leader record or one service group's record; one call of *)
(* a lease is one step, as module FileLease shows it may be seen, or finds *)
(* the lock directory busy.  Records carry the time they are still valid:  *)
(* nothing depends on the date.  An expired record is no record: only the  *)
(* answer of release tells them apart, and nobody uses it.                 *)
(***************************************************************************)
EXTENDS Integers, FiniteSets

CONSTANTS
    Replica,    \* processes, with owner and leader ids of their own
    None,       \* no owner
    SG,         \* sg_ids of the inventory, the same for every replica
    Mode,       \* the OrchestratorMode of each replica
    Target,     \* target_service_groups of each replica
    LeaderTTL,  \* leader_ttl_seconds, in time units
    LeaseTTL,   \* lease_ttl_seconds
    MaxGap,     \* longest time from the start of a tick to the start of the next
    MaxFaults   \* bound on busy locks, exceptions, stops and deaths

Leader == -1
Lease == SG \cup {Leader}
Ttl(l) == IF l = Leader THEN LeaderTTL ELSE LeaseTTL
Modes == {"controller", "worker", "combined"}

ASSUME ReplicaAssumption == None \notin Replica
ASSUME SGAssumption == SG \subseteq Nat
ASSUME SettingsAssumption ==
    /\ Mode \in [Replica -> Modes]
    /\ Target \in [Replica -> Nat]
    /\ MaxFaults \in Nat
\* docs/coordination/index.md: the tick interval is 1/3 to 1/2 of the ttl.
ASSUME GapAssumption ==
    /\ MaxGap \in Nat \ {0}
    /\ LeaderTTL \in Nat /\ LeaderTTL > 2 * MaxGap
    /\ LeaseTTL \in Nat /\ LeaseTTL > 2 * MaxGap

VARIABLES
    owner,   \* owner of each lease's record
    left,    \* time each record is still valid
    held,    \* _held_leases of each manager, and Leader if it answered is_leader
    pc,      \* where each replica is in its loop
    todo,    \* service groups its current pass has not come to
    age,     \* time since its last tick began
    doubt,   \* history: leases of which a busy lock or a death may have left
             \* it with a belief that the record does not share, or without one
    faults   \* faults so far

records == <<owner, left>>
vars == <<owner, left, held, pc, todo, age, doubt, faults>>

PCs == {"idle", "lead", "lead_renew", "renew", "acquire", "release", "down"}

Init ==
    /\ owner = [l \in Lease |-> None]
    /\ left = [l \in Lease |-> 0]
    /\ held = [r \in Replica |-> {}]
    /\ pc = [r \in Replica |-> "idle"]
    /\ todo = [r \in Replica |-> {}]
    /\ age = [r \in Replica |-> 0]
    /\ doubt = [r \in Replica |-> {}]
    /\ faults = 0

Live(l) == left[l] > 0
Owns(r, l) == Live(l) /\ owner[l] = r
Serving(r) == pc[r] \notin {"release", "down"}
HeldGroups(r) == held[r] \ {Leader}

Believe(r, l) == held' = [held EXCEPT ![r] = @ \cup {l}]
Forget(r, l) == held' = [held EXCEPT ![r] = @ \ {l}]
Doubt(r, l) == doubt' = [doubt EXCEPT ![r] = @ \cup {l}]
Sure(r, l) == doubt' = [doubt EXCEPT ![r] = @ \ {l}]

\* r writes the record of l: it owns l for a whole ttl.
Write(r, l) ==
    /\ owner' = [owner EXCEPT ![l] = r]
    /\ left' = [left EXCEPT ![l] = Ttl(l)]
    /\ Sure(r, l)

Fault == faults < MaxFaults /\ faults' = faults + 1

-----------------------------------------------------------------------------
(* The calls of a lease that find the lock free *)

\* try_acquire: somebody else's record, the caller's own (not extended), none.
TryAcquire(r, l) ==
    \/ /\ Live(l) /\ owner[l] # r
       /\ Forget(r, l)
       /\ Sure(r, l)
       /\ UNCHANGED records
    \/ /\ Owns(r, l)
       /\ Believe(r, l)
       /\ UNCHANGED <<records, doubt>>
    \/ /\ ~Live(l)
       /\ Believe(r, l)
       /\ Write(r, l)

\* release: unlinks the caller's record and no other.
GiveBack(r, l) ==
    /\ Sure(r, l)
    /\ \/ /\ Owns(r, l)
          /\ Forget(r, l)
          /\ owner' = [owner EXCEPT ![l] = None]
          /\ left' = [left EXCEPT ![l] = 0]
       \/ /\ ~Owns(r, l)
          /\ UNCHANGED <<records, held>>

-----------------------------------------------------------------------------
(* tick and tick_leader_only *)

\* A worker only reads the leader's record, and is not its owner.
StartTick(r) ==
    /\ pc[r] = "idle"
    /\ pc' = [pc EXCEPT ![r] = IF Mode[r] = "worker" THEN "renew" ELSE "lead"]
    /\ todo' = [todo EXCEPT ![r] = HeldGroups(r)]
    /\ age' = [age EXCEPT ![r] = 0]
    /\ UNCHANGED <<records, held, doubt, faults>>

AfterLead(r) == IF Mode[r] = "controller" THEN "idle" ELSE "renew"

\* A leader that is leader already renews.
\* Mutation: it takes its leadership for extended.
AfterTryAcquireBug(r) == AfterLead(r)
AfterTryAcquire(r) == IF Owns(r, Leader) THEN "lead_renew" ELSE AfterLead(r)

Lead(r) ==
    /\ pc[r] = "lead"
    /\ \/ /\ TryAcquire(r, Leader)
          /\ pc' = [pc EXCEPT ![r] = AfterTryAcquire(r)]
          /\ UNCHANGED faults
       \/ /\ Fault
          /\ Forget(r, Leader)
          /\ Doubt(r, Leader)
          /\ pc' = [pc EXCEPT ![r] = AfterLead(r)]
          /\ UNCHANGED records
    /\ UNCHANGED <<todo, age>>

\* A renewal that fails leaves the answer of try_acquire: is_leader.
LeadRenew(r) ==
    /\ pc[r] = "lead_renew"
    /\ pc' = [pc EXCEPT ![r] = AfterLead(r)]
    /\ \/ /\ Owns(r, Leader)
          /\ Write(r, Leader)
          /\ UNCHANGED faults
       \/ /\ ~Owns(r, Leader)
          /\ Doubt(r, Leader)
          /\ UNCHANGED <<records, faults>>
       \/ /\ Fault
          /\ Doubt(r, Leader)
          /\ UNCHANGED records
    /\ UNCHANGED <<held, todo, age>>

\* Mutation: a lease that is not renewed is kept.
NotRenewedBug(r, l) == Sure(r, l) /\ UNCHANGED held
NotRenewed(r, l) == Sure(r, l) /\ Forget(r, l)

\* Held leases are renewed in ascending order; what is not renewed is forgotten,
\* whatever the reason.
Renew(r, l) ==
    /\ pc[r] = "renew"
    /\ l \in todo[r] /\ \A m \in todo[r] : l <= m
    /\ todo' = [todo EXCEPT ![r] = @ \ {l}]
    /\ \/ /\ Owns(r, l)
          /\ Write(r, l)
          /\ UNCHANGED <<held, faults>>
       \/ /\ ~Owns(r, l)
          /\ NotRenewed(r, l)
          /\ UNCHANGED <<records, faults>>
       \/ /\ Fault
          /\ Forget(r, l)
          /\ Doubt(r, l)
          /\ UNCHANGED records
    /\ UNCHANGED <<pc, age>>

\* What the tick would release above the target is nothing: WithinTarget.
BeginAcquire(r) ==
    /\ pc[r] = "renew" /\ todo[r] = {}
    /\ pc' = [pc EXCEPT ![r] = "acquire"]
    /\ todo' = [todo EXCEPT ![r] = SG \ held[r]]
    /\ UNCHANGED <<records, held, age, doubt, faults>>

BelowTarget(r) == Cardinality(HeldGroups(r)) < Target[r]

\* The order of the candidates (ascending or by score) is left open.
Acquire(r, l) ==
    /\ pc[r] = "acquire"
    /\ BelowTarget(r)
    /\ l \in todo[r]
    /\ todo' = [todo EXCEPT ![r] = @ \ {l}]
    /\ \/ TryAcquire(r, l) /\ UNCHANGED faults
       \/ Fault /\ UNCHANGED <<records, held, doubt>>
    /\ UNCHANGED <<pc, age>>

EndTick(r) ==
    /\ pc[r] = "acquire"
    /\ BelowTarget(r) => todo[r] = {}
    /\ pc' = [pc EXCEPT ![r] = "idle"]
    /\ todo' = [todo EXCEPT ![r] = {}]
    /\ UNCHANGED <<records, held, age, doubt, faults>>

-----------------------------------------------------------------------------
(* The end of the loop, release_all, death and time *)

ToRelease(r) == HeldGroups(r)

\* A signal or stop() is seen between two ticks; an exception of a call or of
\* on_tick ends the loop where it is.
Leave(r) ==
    /\ Serving(r)
    /\ Fault
    /\ pc' = [pc EXCEPT ![r] = "release"]
    /\ todo' = [todo EXCEPT ![r] = ToRelease(r)]
    /\ age' = [age EXCEPT ![r] = 0]
    /\ UNCHANGED <<records, held, doubt>>

Release(r, l) ==
    /\ pc[r] = "release"
    /\ l \in todo[r]
    /\ todo' = [todo EXCEPT ![r] = @ \ {l}]
    /\ \/ GiveBack(r, l) /\ UNCHANGED faults
       \/ Fault /\ Doubt(r, l) /\ UNCHANGED <<records, held>>
    /\ UNCHANGED <<pc, age>>

\* The process ends behind release_all.
ReleaseLeader(r) ==
    /\ pc[r] = "release" /\ todo[r] = {}
    /\ pc' = [pc EXCEPT ![r] = "down"]
    /\ held' = [held EXCEPT ![r] = {}]
    /\ \/ /\ Owns(r, Leader)
          /\ owner' = [owner EXCEPT ![Leader] = None]
          /\ left' = [left EXCEPT ![Leader] = 0]
          /\ Sure(r, Leader)
          /\ UNCHANGED faults
       \/ /\ ~Owns(r, Leader)
          /\ Sure(r, Leader)
          /\ UNCHANGED <<records, faults>>
       \/ /\ Mode[r] # "worker"
          /\ Fault
          /\ Doubt(r, Leader)
          /\ UNCHANGED records
    /\ UNCHANGED <<todo, age>>

\* The process dies, or release_all raises, which the loop suppresses.
Die(r) ==
    /\ pc[r] # "down"
    /\ Fault
    /\ pc' = [pc EXCEPT ![r] = "down"]
    /\ held' = [held EXCEPT ![r] = {}]
    /\ todo' = [todo EXCEPT ![r] = {}]
    /\ age' = [age EXCEPT ![r] = 0]
    /\ doubt' = [doubt EXCEPT ![r] = @ \cup held[r]]
    /\ UNCHANGED records

\* A new process with the same ids (OwnerIdResolver) and an empty manager.
Restart(r) ==
    /\ pc[r] = "down"
    /\ pc' = [pc EXCEPT ![r] = "idle"]
    /\ UNCHANGED <<records, held, todo, age, doubt, faults>>

Remaining(l) == IF Live(l) THEN left[l] - 1 ELSE 0

Tick ==
    /\ \A r \in Replica : Serving(r) => age[r] < MaxGap
    /\ left' = [l \in Lease |-> Remaining(l)]
    /\ owner' = [l \in Lease |-> IF left[l] > 1 THEN owner[l] ELSE None]
    /\ age' = [r \in Replica |-> IF Serving(r) THEN age[r] + 1 ELSE age[r]]
    /\ UNCHANGED <<held, pc, todo, doubt, faults>>

Step(r) ==
    \/ StartTick(r) \/ Lead(r) \/ LeadRenew(r)
    \/ BeginAcquire(r) \/ EndTick(r) \/ ReleaseLeader(r)
    \/ \E l \in SG : Renew(r, l) \/ Acquire(r, l) \/ Release(r, l)

Next ==
    \/ \E r \in Replica : Step(r) \/ Leave(r) \/ Die(r) \/ Restart(r)
    \/ Tick

(***************************************************************************)
(* run_forever ticks until it is stopped, and its sleep and each call end, *)
(* so each replica steps weakly fairly; time passes.  Nobody owes a stop,  *)
(* a death or a restart.                                                   *)
(***************************************************************************)
Fairness == WF_vars(Tick) /\ \A r \in Replica : WF_vars(Step(r))
Spec == Init /\ [][Next]_vars /\ Fairness

-----------------------------------------------------------------------------
(* Properties *)

\* Every variable stays in its type.
TypeOK ==
    /\ owner \in [Lease -> Replica \cup {None}]
    /\ left \in [Lease -> Nat]
    /\ held \in [Replica -> SUBSET Lease]
    /\ pc \in [Replica -> PCs]
    /\ todo \in [Replica -> SUBSET SG]
    /\ age \in [Replica -> 0 .. MaxGap]
    /\ doubt \in [Replica -> SUBSET Lease]
    /\ faults \in 0 .. MaxFaults

\* docs/coordination/index.md: "Renewal is required before expires_at."  While
\* its loop runs, what a manager believes to hold (a service group it works
\* for, the leadership) is its own in the file and has not expired, unless a
\* busy lock or a death came between: tick renews in time, wherever in two
\* successive ticks the renewals fall.
BeliefBacked ==
    \A r \in Replica : Serving(r) => \A l \in held[r] \ doubt[r] : Owns(r, l)

\* Nobody keeps a lease without knowing: a live record's owner has it among its
\* held leases, and a process that left its loop has given everything back
\* (release_all), again but for busy locks and deaths.
OwnedKnown ==
    \A r \in Replica, l \in Lease : Owns(r, l) => l \in held[r] \cup doubt[r]

\* tick "maintains up to target_service_groups leases": a manager never
\* holds more, so that the branch that releases extras is never taken.
WithinTarget == \A r \in Replica : Cardinality(HeldGroups(r)) <= Target[r]

\* The same, as far as no busy lock or death interfered.
SureDisjoint ==
    \A q, r \in Replica : q # r /\ Serving(q) /\ Serving(r) =>
        (held[q] \ doubt[q]) \cap (held[r] \ doubt[r]) = {}

Working == {r \in Replica : Serving(r) /\ Mode[r] # "controller"}

\* The running replicas may hold every service group between them: one of
\* them has a target that large, or they all have one and are enough.
Capacity ==
    \/ \E r \in Working : Target[r] >= Cardinality(SG)
    \/ /\ Cardinality(Working) >= Cardinality(SG)
       /\ \A r \in Working : Target[r] >= 1

\* test_managers_converge_to_disjoint_leases: from some time on each service
\* group is held by one replica, which owns its record, if enough of them
\* keep running; whatever was forgotten, adopted or left behind before.
Partitions ==
    (<>[]Capacity) =>
        <>[](\A l \in SG : \E r \in Replica :
                /\ l \in held[r] /\ Owns(r, l)
                /\ \A q \in Replica \ {r} : l \notin held[q])

-----------------------------------------------------------------------------
(* The inductive invariant *)

\* l is renewed later in the tick that r began.
Pending(r, l) ==
    \/ pc[r] \in {"lead", "lead_renew"}
    \/ pc[r] = "renew" /\ l \in todo[r]

\* A record that r believes its own for good reason was written in this tick,
\* or in the last one if its turn is still to come.
Fresh ==
    \A r \in Replica : Serving(r) => \A l \in held[r] \ doubt[r] :
        /\ owner[l] = r
        /\ left[l] >= Ttl(l) - age[r] - (IF Pending(r, l) THEN MaxGap ELSE 0)

\* Until the renewals begin every held service group waits for its turn, and
\* only what is held is renewed.
AllToRenew ==
    \A r \in Replica :
        /\ pc[r] \in {"lead", "lead_renew"} => todo[r] = HeldGroups(r)
        /\ pc[r] = "lead_renew" => Leader \in held[r]
        /\ pc[r] = "renew" => todo[r] \subseteq held[r]

\* Workers never lead, and controllers only do.
Roles ==
    \A r \in Replica :
        /\ Mode[r] = "worker" => Leader \notin held[r] /\ pc[r] \notin {"lead", "lead_renew"}
        /\ Mode[r] = "controller" => held[r] \subseteq {Leader} /\ pc[r] \notin {"renew", "acquire"}

\* release_all comes to whatever it owns.
GivingBack ==
    \A r \in Replica :
        /\ pc[r] = "release" =>
               \A l \in SG : Owns(r, l) => l \in todo[r] \cup doubt[r]
        /\ pc[r] = "down" => held[r] = {}

IInv == TypeOK /\ OwnedKnown /\ Fresh /\ AllToRenew /\ Roles /\ GivingBack

=============================================================================
