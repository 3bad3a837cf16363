-------------------------------- MODULE Lease --------------------------------
(***************************************************************************)
(* What docs/coordination promises of one lease (the leader record or one  *)
(* service group): a process is told that it holds the lease only while    *)
(* nobody else does, and never for longer than ttl_seconds from now.       *)
(***************************************************************************)
EXTENDS Integers

CONSTANTS Proc, TTL

VARIABLES
    clock,  \* the host's clock
    grant   \* the expiry each process was last told it holds until

Holds(p) == grant[p] > clock

Init == clock = 0 /\ grant = [p \in Proc |-> 0]

\* p is told it holds the lease until e.
Hold(p, e) ==
    /\ \A q \in Proc \ {p} : ~Holds(q)
    /\ grant' = [grant EXCEPT ![p] = e]
    /\ UNCHANGED clock

\* p releases the lease, learns that it does not hold it, or dies.
Drop(p) ==
    /\ grant' = [grant EXCEPT ![p] = 0]
    /\ UNCHANGED clock

Tick == clock' = clock + 1 /\ UNCHANGED grant

Next ==
    \/ \E p \in Proc : Drop(p) \/ \E e \in 1 .. clock + TTL : Hold(p, e)
    \/ Tick

Spec == Init /\ [][Next]_<<clock, grant>>

=============================================================================
