---------------------------- MODULE CaptureScope ----------------------------
(***************************************************************************)
(* How a capture request becomes work items: the scope resolver reads the  *)
(* serving group worker's store, the runner pairs its two lists, and a     *)
(* worker looks its modem's address up in the store again.                 *)
(***************************************************************************)
EXTENDS Integers, FiniteSets, Sequences, SequencesExt

CONSTANTS
    SG,       \* serving groups
    Modem,    \* cable modems
    Channel   \* downstream or upstream channel ids

NoChannel == 0

ASSUME ScopeAssumption ==
    /\ SG \subseteq Nat /\ IsFiniteSet(SG)
    /\ IsFiniteSet(Modem)
    /\ Channel \subseteq Nat \ {NoChannel} /\ IsFiniteSet(Channel)

\* What a group's snapshot says of a modem: "bare" is a modem without a usable address.
Listing == {"absent", "bare", "addressed"}

\* A store's snapshots: the modems of each group and its downstream OFDM channels.
Store == [modems : [SG -> [Modem -> Listing]], channels : [SG -> SUBSET Channel]]

\* A store just built: no group has an entry, which reads as a snapshot without anything in it.
EmptyStore == [modems |-> [sg \in SG |-> [m \in Modem |-> "absent"]],
               channels |-> [sg \in SG |-> {}]]

Lists(store, sg, m) == store.modems[sg][m] # "absent"

Item == [mac : Modem, sg : SG]

\* The two parallel lists of an expansion.
Parallel(pairs) ==
    LET p == SetToSeq(pairs)
    IN  [sgs |-> [i \in DOMAIN p |-> p[i].sg], macs |-> [i \in DOMAIN p |-> p[i].mac]]

\* Mutation: only the first group that lists a modem is taken.
ExpandBug(store, groups, macs) ==
    Parallel({i \in Item : /\ i.mac \in macs /\ i.sg \in groups
                           /\ Lists(store, i.sg, i.mac)
                           /\ \A g \in groups : Lists(store, g, i.mac) => i.sg <= g})

\* The modems that the snapshots of the groups list, one entry for each group that lists one.
Expand(store, groups, macs) ==
    Parallel({i \in Item : i.mac \in macs /\ i.sg \in groups /\ Lists(store, i.sg, i.mac)})

\* resolve_modem_scope: two lists are taken as they are, without a look at the store.
ResolveScope(store, sgs, macs) ==
    IF sgs # <<>> /\ macs # <<>> THEN [sgs |-> sgs, macs |-> macs]
    ELSE Expand(store,
                IF sgs = <<>> THEN SG ELSE ToSet(sgs),
                IF macs = <<>> THEN Modem ELSE ToSet(macs))

\* _build_work_items, and the early end of an operation with an empty list.
BuildWorkItems(sgs, macs) ==
    IF sgs = <<>> THEN {}
    ELSE {[mac |-> macs[i], sg |-> sgs[((i - 1) % Len(sgs)) + 1]] : i \in DOMAIN macs}

\* _validate_requested_downstream_ofdm_channel_ids: a request is refused when the groups' channels
\* are known and one it names is not among them.
ChannelsAccepted(store, sgs, channels) ==
    LET known == UNION {store.channels[sg] : sg \in ToSet(sgs)}
    IN  channels = {} \/ known = {} \/ channels \subseteq known

\* resolve_modem_ip finds an address: the group's snapshot lists the modem with one.
Addressed(store, item) == store.modems[item.sg][item.mac] = "addressed"

\* What an expanded request asks for: each modem it covers, in each group that lists it.
Covered(store, sgs, macs) ==
    {i \in Item : /\ sgs = <<>> \/ i.sg \in ToSet(sgs)
                  /\ macs = <<>> \/ i.mac \in ToSet(macs)
                  /\ Lists(store, i.sg, i.mac)}

=============================================================================
