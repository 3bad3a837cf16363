------------------------------ MODULE Inventory ------------------------------
(***************************************************************************)
(* What PyPNM-CMTS learns from its CMTS: discovery of the service groups,  *)
(* the heavy poll of one group (topology, channels, modems) and the        *)
(* lookups of single modems.  A CMTS answers one request at a time while   *)
(* modems register, leave, move and change their address, so a result is   *)
(* put together from rows read at different moments.  A request may be     *)
(* lost: the code takes a lost read for an empty table or field.  Only a   *)
(* host name that does not resolve raises.                                 *)
(*                                                                         *)
(* A job is at a request of its plan and keeps what was answered; what it  *)
(* makes of the answers is a function of them.  The tables of nodes and    *)
(* channels do not change while a job runs; registrations do.              *)
(***************************************************************************)
EXTENDS Integers, FiniteSets, FiniteSetsExt, Sequences, SequencesExt

CONSTANTS
    Group, Mac, Addr,   \* service groups (MD-CM-SG-ID), modems, addresses
    Index,              \* docsIf3CmtsCmRegStatusId: rows of the registration table
    Nodes,              \* docsIf3MdNodeStatusTable in key order: [name, sg, ds, us]
    SetOf,              \* SetOf[dir][id]: the channel set of a MD-DS-SG or MD-US-SG
    ListOf,             \* ListOf[dir][set]: the channels of a set
    Ofdm,               \* Ofdm[dir][channel]: its row in the OFDM or OFDMA table
    Qam,                \* Qam[dir][channel]: its row in the SC-QAM table
    Enabled,            \* the groups a configuration lists
    Tables,             \* the registration tables a run may start with
    MaxEvents, MaxJobs, \* bounds: lost requests and changes of the table together, and jobs
    None

Dir == {"ds", "us"}
Row == [mac : Mac, sg : Group, ip : Addr]

\* A modem is registered once.
ASSUME InventoryAssumption ==
    /\ Group \subseteq Nat \ {0} /\ Index \subseteq Nat \ {0}   \* 0 is a reserved row id
    /\ Enabled \subseteq Group
    /\ \A t \in Tables : /\ t \in [Index -> Row \cup {None}]
                       /\ \A i, j \in Index : t[i] # None /\ t[j] # None /\ t[i].mac = t[j].mac => i = j
    /\ None \notin Int /\ None \notin Mac /\ None \notin Row

OfdmRow(d) ==
    IF d = "us" THEN [lower : Nat, upper : Nat]
    ELSE [zero : Nat, first : Nat, last : Nat, spacing : Nat, lowerGuard : Nat, upperGuard : Nat,
          lower : Nat, upper : Nat]

\* Ids are positive where they are keys, and a channel is of one kind.
ASSUME ChannelAssumption ==
    /\ Nodes \in Seq([name : STRING, sg : Group, ds : Nat, us : Nat])
    /\ \A d \in Dir :
        /\ 0 \notin DOMAIN SetOf[d] \cup DOMAIN ListOf[d]
        /\ SetOf[d] \in [DOMAIN SetOf[d] -> Nat] /\ ListOf[d] \in [DOMAIN ListOf[d] -> Seq(Nat)]
        /\ Ofdm[d] \in [DOMAIN Ofdm[d] -> OfdmRow(d)]
        /\ Qam[d] \in [DOMAIN Qam[d] -> [center : Nat, width : Nat]]
        /\ DOMAIN Ofdm[d] \cap DOMAIN Qam[d] = {}

VARIABLES
    table,      \* the registration table of the CMTS
    events,     \* the number of its changes and of lost requests so far
    jobs,       \* the number of jobs so far
    job,        \* what is being read
    known,      \* the service groups that startup published, None after a failure
    stored,     \* the inventory in the cache, per group
    answer,     \* the last answer to a lookup
    ever,       \* the rows that were in the table at some time of the job
    always,     \* the rows that were there all the time
    lossy       \* whether a request of the job was lost

results == <<jobs, known, stored>>
history == <<ever, always, lossy>>
inventoryVars == <<table, events, job, answer, results, history>>

Idle == [kind |-> "idle", about |-> None, next |-> 1, ans |-> {}, hit |-> None,
         rows |-> {}, row |-> None, mac |-> None, found |-> {}]
NoAnswer == [exists |-> FALSE, value |-> None, rows |-> {}]

RowsOf(t) == {[id |-> i, mac |-> t[i].mac, sg |-> t[i].sg, ip |-> t[i].ip] : i \in {j \in Index : t[j] # None}}
Rows == RowsOf(table)

-----------------------------------------------------------------------------
(* Topology: joining the walks *)

\* A walk of a column of docsIf3MdNodeStatusTable: the id it brings a row, 0 when it was lost.
NodeColumn(ans, d, id) == IF <<"nodes", d>> \in ans THEN id ELSE 0

\* listServiceGroups: the rows of both walks, merged by their key.
ServiceGroups(ans) ==
    IF {<<"nodes", "ds">>, <<"nodes", "us">>} \cap ans = {} THEN {}
    ELSE {[Nodes[k] EXCEPT !.ds = NodeColumn(ans, "ds", @), !.us = NodeColumn(ans, "us", @)] : k \in DOMAIN Nodes}

\* The first row of a group gives its channels.
NodesOf(g) == {k \in DOMAIN Nodes : Nodes[k].sg = g}
FirstNode(g) == Nodes[Min(NodesOf(g))]

\* Mutation: both sides are joined by the downstream id.
SideIdBug(ans, g, d) == IF NodesOf(g) = {} THEN 0 ELSE NodeColumn(ans, "ds", FirstNode(g).ds)

\* The group's MD-DS-SG or MD-US-SG, 0 when there is none.
SideId(ans, g, d) ==
    IF NodesOf(g) = {} THEN 0
    ELSE NodeColumn(ans, d, IF d = "ds" THEN FirstNode(g).ds ELSE FirstNode(g).us)

\* The walked map of channel sets; a get of one set.
SetMap(ans, d) == IF <<"sets", d>> \in ans THEN SetOf[d] ELSE <<>>
SetGet(ans, d, id) == IF <<"setget", d>> \in ans /\ id \in DOMAIN SetOf[d] THEN SetOf[d][id] ELSE 0

\* The walked map of channel lists; a get of one list, and a second walk when it answers nothing.
ListMap(ans, d) == IF <<"lists", d>> \in ans THEN ListOf[d] ELSE <<>>
ListGet(ans, d, set) ==
    IF {<<"listget", d>>, <<"listwalk", d>>} \cap ans # {} /\ set \in DOMAIN ListOf[d]
    THEN ListOf[d][set] ELSE <<>>

\* The channel set of the group's side: from the map, or by a get when the map is empty.
ChSetId(ans, g, d) ==
    LET id == SideId(ans, g, d)
    IN  IF id = 0 THEN 0
        ELSE IF <<"sets", d>> \notin ans THEN SetGet(ans, d, id)
        ELSE IF id \in DOMAIN SetMap(ans, d) THEN SetMap(ans, d)[id] ELSE 0

\* Its channels: from the map, or by a get when the map lacks the set.
Channels(ans, g, d) ==
    LET set == ChSetId(ans, g, d)
    IN  IF set \in DOMAIN ListMap(ans, d) THEN ListMap(ans, d)[set]
        ELSE IF set > 0 THEN ListGet(ans, d, set) ELSE <<>>

\* Sorted, without duplicates and zeros: the set of them.
NormalizeChannels(chs) == {c \in ToSet(chs) : c > 0}

-----------------------------------------------------------------------------
(* Frequencies *)

Unbounded == [lower |-> None, upper |-> None]

\* Half the width on both sides of the center.
ScQamBounds(row) == [lower |-> row.center - row.width \div 2, upper |-> row.center + row.width \div 2]

\* The band of a downstream OFDM channel: its active subcarriers and the guard bands.  Without an
\* active subcarrier it is not computed.
OfdmBounds(row) ==
    IF row.first <= 0 THEN Unbounded
    ELSE [lower |-> row.zero - (row.first - 1) * row.spacing - row.lowerGuard,
          upper |-> row.last * row.spacing + row.zero + row.upperGuard]

TableBounds(row) == [lower |-> row.lower, upper |-> row.upper]

Width(b) == IF b.lower = None \/ b.upper = None \/ b.upper < b.lower THEN None ELSE b.upper - b.lower

Read(ans, d, tables) == \A t \in tables : <<t, d>> \in ans

ScQamChannel(ans, d, c) ==
    LET read == c \in DOMAIN Qam[d] /\ Read(ans, d, {"qam", "qamfields"})
    IN  [id |-> c, type |-> "scqam",
         bounds |-> IF read THEN ScQamBounds(Qam[d][c]) ELSE Unbounded,
         width |-> IF read THEN Qam[d][c].width ELSE None]

OfdmChannel(c, bounds) == [id |-> c, type |-> "ofdm", bounds |-> bounds, width |-> Width(bounds)]

Boundaries(ans, d, c) == IF Read(ans, d, {"bdry"}) THEN TableBounds(Ofdm[d][c]) ELSE Unbounded

\* An OFDM channel whose table was not read looks like an SC-QAM channel without frequencies; the
\* boundary columns stand in for a band that was not computed.
DsChannel(ans, c) ==
    IF c \in DOMAIN Ofdm["ds"] /\ Read(ans, "ds", {"ofdm", "ofdmid"})
    THEN LET band == IF Read(ans, "ds", {"band"}) THEN OfdmBounds(Ofdm["ds"][c]) ELSE Unbounded
         IN  OfdmChannel(c, IF band # Unbounded THEN band ELSE Boundaries(ans, "ds", c))
    ELSE ScQamChannel(ans, "ds", c)

\* Upstream the band is always the boundary columns.
UsChannel(ans, c) ==
    IF c \in DOMAIN Ofdm["us"] /\ Read(ans, "us", {"ofdm", "ofdmid"})
    THEN OfdmChannel(c, Boundaries(ans, "us", c))
    ELSE ScQamChannel(ans, "us", c)

\* The RF channels of the group's list.
RfChannels(ans, g, d) ==
    {IF d = "ds" THEN DsChannel(ans, c) ELSE UsChannel(ans, c) : c \in NormalizeChannels(Channels(ans, g, d))}

-----------------------------------------------------------------------------
(* Requests *)

\* getServiceGroupTopology: four walks after the nodes, and what a lost one makes necessary.  Then the
\* channel tables: a walk of the ids and gets of the columns; one request stands for the columns that
\* are used together, and for one channel of each kind.  Last the group's modems.
PollPlan ==
    << <<"nodes", "ds">>, <<"nodes", "us">>, <<"sets", "ds">>, <<"sets", "us">>,
       <<"lists", "ds">>, <<"lists", "us">>, <<"setget", "ds">>, <<"setget", "us">>,
       <<"listget", "ds">>, <<"listwalk", "ds">>, <<"listget", "us">>, <<"listwalk", "us">>,
       <<"qam", "ds">>, <<"qamfields", "ds">>, <<"qam", "us">>, <<"qamfields", "us">>,
       <<"ofdm", "ds">>, <<"ofdmid", "ds">>, <<"bdry", "ds">>, <<"band", "ds">>,
       <<"ofdm", "us">>, <<"ofdmid", "us">>, <<"bdry", "us">>, <<"rows", "cm">> >>

\* The requests of each kind of job.
Plan(kind) ==
    CASE kind = "poll" -> PollPlan
      [] kind \in {"discover", "node"} -> << <<"nodes", "ds">>, <<"nodes", "us">> >>
      [] kind \in {"regsg", "dssg"} -> << <<"nodes", "ds">> >>
      [] kind = "inet" -> << <<"macs", "cm">>, <<"addr", "cm">>, <<"addrwalk", "cm">> >>
      [] kind = "sgof" -> << <<"macs", "cm">>, <<"sgs", "cm">> >>
      [] kind = "list" -> << <<"rows", "cm">> >>
      [] OTHER -> <<>>

\* The requests before which a host name is resolved.
Resolves == {<<"nodes", "ds">>, <<"qam", "ds">>, <<"rows", "cm">>}

Table == {"nodes", "sets", "lists", "setget", "listget", "listwalk", "qam", "qamfields", "ofdm",
          "ofdmid", "bdry", "band"}

\* Whether the code sends the request, given what was answered before.
Needed(q) ==
    CASE q[1] = "setget"    -> <<"sets", q[2]>> \notin job.ans /\ SideId(job.ans, job.about, q[2]) > 0
      [] q[1] \in {"listget", "listwalk"} ->
            ChSetId(job.ans, job.about, q[2]) > 0 /\ Channels(job.ans, job.about, q[2]) = <<>>
      [] q[1] = "qamfields" -> <<"qam", q[2]>> \in job.ans
      [] q[1] = "ofdmid"    -> <<"ofdm", q[2]>> \in job.ans
      [] q[1] \in {"bdry", "band"} -> <<"ofdm", q[2]>> \in job.ans
      [] q[1] = "addrwalk"  -> answer.value = None
      [] OTHER -> TRUE

Sending == job.next \in DOMAIN Plan(job.kind)
Query == Plan(job.kind)[job.next]
Sent(requests) == Sending /\ Query[1] \in requests

\* The next request is up, or the plan is at its end.
Onward == [job EXCEPT !.next = @ + 1]
AtEnd == [job EXCEPT !.next = Len(Plan(job.kind)) + 1]

\* A request whose answer is not needed is not sent.
Skip ==
    /\ Sending /\ ~Needed(Query)
    /\ job' = Onward
    /\ UNCHANGED <<table, events, answer, results, history>>

\* A table of nodes or channels answers.
ReadTable ==
    /\ Sent(Table) /\ Needed(Query)
    /\ job' = [Onward EXCEPT !.ans = @ \cup {Query}]
    /\ UNCHANGED <<table, events, answer, results, history>>

Matched(g) == {r.id : r \in {x \in Rows : x.sg = g}}

\* Mutation: the last matched row is left out.
ReadMembershipShort ==
    /\ Sent({"rows"})
    /\ job' = [Onward EXCEPT !.rows = {i \in Matched(job.about) : \E j \in Matched(job.about) : i < j}]
    /\ UNCHANGED <<table, events, answer, results, history>>

\* getAllRegisterCm: the rows of the group; their columns are read one by one afterwards.
ReadMembership ==
    /\ Sent({"rows"})
    /\ job' = [Onward EXCEPT !.rows = Matched(job.about)]
    /\ UNCHANGED <<table, events, answer, results, history>>

\* The first column of the next row, and the last one.  _map_register_cm: a modem without a MAC
\* address is dropped, without an address it is kept.
MacIs(mac) == [job EXCEPT !.rows = @ \ {Min(@)}, !.row = Min(job.rows), !.mac = mac]
IpIs(ip) == [job EXCEPT !.row = None, !.mac = None,
                        !.found = IF job.mac = None THEN @ ELSE @ \cup {[mac |-> job.mac, ip |-> ip]}]

\* A row that is gone has no columns.
ReadMac ==
    /\ job.row = None /\ job.rows # {}
    /\ LET row == table[Min(job.rows)]
       IN  job' = MacIs(IF row = None THEN None ELSE row.mac)
    /\ UNCHANGED <<table, events, answer, results, history>>

\* Mutation: the address is read from the row after the modem's.
ReadIpBug ==
    /\ job.row # None
    /\ LET row == table[IF job.rows = {} THEN job.row ELSE Min(job.rows)]
       IN  job' = IpIs(IF row = None THEN None ELSE row.ip)
    /\ UNCHANGED <<table, events, answer, results, history>>

ReadIp ==
    /\ job.row # None
    /\ LET row == table[job.row]
       IN  job' = IpIs(IF row = None THEN None ELSE row.ip)
    /\ UNCHANGED <<table, events, answer, results, history>>

\* A lost request is an empty table or field.
Lose ==
    /\ events < MaxEvents /\ events' = events + 1
    /\ \/ Sending /\ Needed(Query) /\ Query[1] # "macs" /\ job' = Onward
       \/ Sent({"macs"}) /\ job' = AtEnd
       \/ job.row = None /\ job.rows # {} /\ job' = MacIs(None)
       \/ job.row # None /\ job' = IpIs(None)
    /\ lossy' = TRUE
    /\ UNCHANGED <<table, answer, results, ever, always>>

-----------------------------------------------------------------------------
(* Jobs *)

Begin(kind, about) ==
    /\ job = Idle /\ jobs < MaxJobs /\ jobs' = jobs + 1
    /\ job' = [Idle EXCEPT !.kind = kind, !.about = about]
    /\ ever' = Rows /\ always' = Rows /\ lossy' = FALSE
    /\ UNCHANGED <<table, events, known, stored>>

\* Everything is answered.
Done == job.kind # "idle" /\ ~Sending /\ job.rows = {} /\ job.row = None
EndJob == job' = Idle /\ ever' = {} /\ always' = {} /\ lossy' = FALSE

\* The manager polls the groups that startup published.
StartPoll(g) == known # None /\ g \in known /\ Begin("poll", g) /\ UNCHANGED answer

\* A modem with an address is asked for its sysDescr.
Addressed == {m \in job.found : m.ip # None}

\* CmtsStartupPrecheck: the settings are there, the name resolves, the CMTS answers ping and sysDescr.
Precheck(ok) == \A check \in {"settings", "hostname", "ping", "snmp"} : ok[check]

\* A failed precheck fails the startup.
PrecheckFails ==
    /\ job = Idle
    /\ \E ok \in [{"settings", "hostname", "ping", "snmp"} -> BOOLEAN] : ~Precheck(ok)
    /\ known' = None
    /\ stored' = [g \in Group |-> None]
    /\ UNCHANGED <<table, events, jobs, job, answer, history>>

\* Startup with discovery by SNMP, and with the groups of the configuration.
StartDiscovery == Begin("discover", None) /\ UNCHANGED answer

StaticDiscovery ==
    /\ job = Idle /\ known' = Enabled
    /\ stored' = [g \in Group |-> None]
    /\ UNCHANGED <<table, events, jobs, job, answer, history>>

\* Discovery: sorted, without duplicates; no group at all is a success too.
Discover ==
    /\ job.kind = "discover" /\ Done
    /\ known' = {n.sg : n \in ServiceGroups(job.ans)}
    /\ stored' = [g \in Group |-> None]
    /\ EndJob
    /\ UNCHANGED <<table, events, jobs, answer>>

\* The inventory of a finished poll; the modems in described answered.
Inventory(described) ==
    [sets |-> [d \in Dir |-> ChSetId(job.ans, job.about, d)],
     channels |-> [d \in Dir |-> RfChannels(job.ans, job.about, d)],
     modems |-> {[mac |-> m.mac, ip |-> m.ip, sysdescr |-> m \in described] : m \in job.found}]

\* sgw_heavy_poller: replaces the group's inventory as a whole.
Store ==
    /\ job.kind = "poll" /\ Done
    /\ \E described \in SUBSET Addressed :
         stored' = [stored EXCEPT ![job.about] = Inventory(described)]
    /\ EndJob
    /\ UNCHANGED <<table, events, jobs, known, answer>>

\* A host name that does not resolve ends a poll, and the cache keeps what it has; or it fails the
\* startup, and there is no cache.
Unresolved ==
    /\ Sending /\ Query \in Resolves /\ job.kind \in {"poll", "discover"}
    /\ IF job.kind = "discover" THEN known' = None /\ stored' = [g \in Group |-> None]
       ELSE UNCHANGED <<known, stored>>
    /\ EndJob
    /\ UNCHANGED <<table, events, jobs, answer>>

-----------------------------------------------------------------------------
(* Lookups *)

\* getCmInetAddress, getdocsIf3CmtsCmRegStatusMdCmSgIdViaMacAddress,
\* getAllRegisterCmMacInetAddress, getMdCmSgIdFromNodeName, getCmRegStatusSgIdFromNodeName,
\* getCmRegStatusSgIdFromDsSgId
StartLookup(kind, about) == Begin(kind, about) /\ answer' = NoAnswer

StartInet(m) == StartLookup("inet", m)
StartSgOf(m) == StartLookup("sgof", m)
StartList(g) == StartLookup("list", g)
StartNode(k) == StartLookup("node", k)
StartRegSg(k) == StartLookup("regsg", k)
StartDsSg(k) == StartLookup("dssg", k)

\* The walk of the MAC addresses: the first row of the modem, which the next requests go to.
FindRow ==
    /\ Sent({"macs"})
    /\ LET ids == {r.id : r \in {x \in Rows : x.mac = job.about}}
       IN  IF ids = {} THEN job' = AtEnd /\ UNCHANGED answer
           ELSE /\ job' = [Onward EXCEPT !.hit = Min(ids)]
                /\ answer' = [answer EXCEPT !.exists = TRUE]
    /\ UNCHANGED <<table, events, results, history>>

\* The row's address by a get, and by a walk when the get answers nothing; its group by a walk.  A row
\* that is gone answers nothing.
ReadAddress ==
    /\ Sent({"addr", "addrwalk"}) /\ Needed(Query)
    /\ job' = Onward
    /\ LET row == table[job.hit]
       IN  answer' = [answer EXCEPT !.value = IF row = None THEN @ ELSE row.ip]
    /\ UNCHANGED <<table, events, results, history>>

ReadGroup ==
    /\ Sent({"sgs"})
    /\ job' = Onward
    /\ LET row == table[job.hit]
       IN  answer' = [answer EXCEPT !.value = IF row = None THEN @ ELSE row.sg]
    /\ UNCHANGED <<table, events, results, history>>

\* The first row of the table with a name, or with a downstream id.
NodeNamed(name) == Nodes[Min({k \in DOMAIN Nodes : Nodes[k].name = name})]
NodeWithDs(id) == Nodes[Min({k \in DOMAIN Nodes : Nodes[k].ds = id})]

\* By name: the walked value, a MD-DS-SG-ID or a MD-US-SG-ID.
NodeSgId(name) ==
    IF <<"nodes", "ds">> \in job.ans THEN NodeNamed(name).ds
    ELSE IF <<"nodes", "us">> \in job.ans THEN NodeNamed(name).us ELSE None

\* By name and by downstream id: the MD-CM-SG-ID of the row's key.
RegSgIdOfName(name) == IF <<"nodes", "ds">> \in job.ans THEN NodeNamed(name).sg ELSE None
RegSgIdOfDsSg(id) == IF <<"nodes", "ds">> \in job.ans THEN NodeWithDs(id).sg ELSE None

Resolved(value) == [answer EXCEPT !.value = value, !.exists = value # None]

Answer ==
    /\ job.kind \in {"inet", "sgof", "list", "node", "regsg", "dssg"} /\ Done
    /\ answer' = CASE job.kind = "list"  -> [answer EXCEPT !.rows = job.found]
                   [] job.kind = "node"  -> Resolved(NodeSgId(Nodes[job.about].name))
                   [] job.kind = "regsg" -> Resolved(RegSgIdOfName(Nodes[job.about].name))
                   [] job.kind = "dssg"  -> Resolved(RegSgIdOfDsSg(Nodes[job.about].ds))
                   [] OTHER -> answer
    /\ EndJob
    /\ UNCHANGED <<table, events, jobs, known, stored>>

-----------------------------------------------------------------------------
(* The CMTS *)

Changed(t) ==
    /\ events < MaxEvents
    /\ events' = events + 1 /\ table' = t
    /\ IF job = Idle THEN UNCHANGED <<ever, always>>
       ELSE ever' = ever \cup RowsOf(t) /\ always' = always \cap RowsOf(t)
    /\ UNCHANGED <<job, answer, results, lossy>>

\* A modem registers in a free row, leaves, changes its group or its address.  While a job runs no row
\* is given to another modem.
Register(i, m, g, a) ==
    /\ table[i] = None
    /\ \A r \in Rows : r.mac # m
    /\ \A r \in ever : r.id = i => r.mac = m
    /\ Changed([table EXCEPT ![i] = [mac |-> m, sg |-> g, ip |-> a]])
Deregister(i) == table[i] # None /\ Changed([table EXCEPT ![i] = None])
Move(i, g) == table[i] # None /\ table[i].sg # g /\ Changed([table EXCEPT ![i].sg = g])
Renumber(i, a) == table[i] # None /\ table[i].ip # a /\ Changed([table EXCEPT ![i].ip = a])

InventoryInit ==
    /\ table \in Tables
    /\ events = 0 /\ jobs = 0
    /\ job = Idle /\ known = None /\ stored = [g \in Group |-> None] /\ answer = NoAnswer
    /\ ever = {} /\ always = {} /\ lossy = FALSE

Environment ==
    \/ \E i \in Index, m \in Mac, g \in Group, a \in Addr : Register(i, m, g, a)
    \/ \E i \in Index : Deregister(i)
    \/ \E i \in Index, g \in Group : Move(i, g)
    \/ \E i \in Index, a \in Addr : Renumber(i, a)

InventoryNext ==
    \/ StartDiscovery \/ StaticDiscovery \/ PrecheckFails \/ Discover
    \/ \E g \in Group : StartPoll(g) \/ StartList(g)
    \/ \E m \in Mac : StartInet(m) \/ StartSgOf(m)
    \/ \E k \in DOMAIN Nodes : StartNode(k) \/ StartRegSg(k) \/ StartDsSg(k)
    \/ Skip \/ ReadTable \/ ReadMembership \/ ReadMac \/ ReadIp \/ FindRow \/ ReadAddress \/ ReadGroup
    \/ Lose \/ Unresolved \/ Store \/ Answer
    \/ Environment

InventorySpec == InventoryInit /\ [][InventoryNext]_inventoryVars

-----------------------------------------------------------------------------
(* Properties *)

\* The inventory of a poll.
Channel == [id : Nat, type : {"scqam", "ofdm"},
            bounds : [lower : Int \cup {None}, upper : Int \cup {None}], width : Int \cup {None}]

About(kind) ==
    CASE kind \in {"poll", "list"} -> Group
      [] kind \in {"inet", "sgof"} -> Mac
      [] kind \in {"node", "regsg", "dssg"} -> DOMAIN Nodes
      [] OTHER -> {None}

Modem == [mac : Mac, ip : Addr \cup {None}]

Job == [kind : {"idle", "poll", "discover", "inet", "sgof", "list", "node", "regsg", "dssg"},
        about : Group \cup Mac \cup Nat \cup {None}, next : Nat \ {0}, ans : SUBSET (Table \X Dir),
        hit : Index \cup {None}, rows : SUBSET Index, row : Index \cup {None}, mac : Mac \cup {None},
        found : SUBSET Modem]

PolledInventory == [sets : [Dir -> Nat], channels : [Dir -> SUBSET Channel],
                    modems : SUBSET [mac : Mac, ip : Addr \cup {None}, sysdescr : BOOLEAN]]

InventoryTypeOK ==
    /\ table \in [Index -> Row \cup {None}] /\ events \in Nat /\ jobs \in Nat
    /\ job \in Job /\ job.about \in About(job.kind)
    /\ known = None \/ known \subseteq Group
    /\ stored \in [Group -> PolledInventory \cup {None}]
    /\ answer \in [exists : BOOLEAN, value : Addr \cup Nat \cup {None}, rows : SUBSET Modem]
    /\ ever \subseteq [id : Index, mac : Mac, sg : Group, ip : Addr] /\ always \subseteq ever /\ lossy \in BOOLEAN

Stores == job.kind = "poll" /\ Done /\ job' = Idle
Answers(kind) == job.kind = kind /\ Done /\ job' = Idle

Held(m, a) == \E r \in ever : r.mac = m /\ (a # None => r.ip = a)
InGroup(m, g) == \E r \in ever : r.mac = m /\ r.sg = g

\* The columns of a modem are read one at a time while the table changes, and a lost read leaves a
\* hole (cmts_cm_reg_status_entry.py:102, cmts_operation.py:1010): nothing is stored or answered of a
\* modem that was not so at some time of the job, in its group and with its address.  It rests on the
\* CMTS not giving a row to another modem meanwhile (Register).
PairsHeld ==
    [][/\ Stores => \A m \in stored'[job.about].modems : Held(m.mac, m.ip) /\ InGroup(m.mac, job.about)
       /\ Answers("list") => \A m \in answer'.rows : Held(m.mac, m.ip) /\ InGroup(m.mac, job.about)
       /\ Answers("inet") /\ answer'.exists => Held(job.about, answer'.value)
       /\ Answers("sgof") /\ answer'.value # None => InGroup(job.about, answer'.value)]_inventoryVars

\* Rows appear, vanish and move under the walk and a modem may be met in two rows: without a lost
\* request each modem whose row did not change during the poll (cmts_operation.py:895) is stored, with
\* its own address only; a lookup finds it, and discovery finds every group (cmts_operation.py:334).
NothingDropped ==
    [][~lossy =>
        /\ Stores => \A r \in {x \in always : x.sg = job.about} :
                       {m.ip : m \in {x \in stored'[job.about].modems : x.mac = r.mac}} = {r.ip}
        /\ Answers("inet") => \A r \in always : r.mac = job.about => answer'.value = r.ip
        /\ Answers("sgof") => \A r \in always : r.mac = job.about => answer'.value = r.sg
        /\ Answers("discover") /\ known' # None => known' = {Nodes[k].sg : k \in DOMAIN Nodes}]_inventoryVars

\* What the tables hold of a group's side: its channels and their bands.
TrueSet(g, d) ==
    LET id == IF d = "ds" THEN FirstNode(g).ds ELSE FirstNode(g).us
    IN  IF NodesOf(g) # {} /\ id \in DOMAIN SetOf[d] THEN SetOf[d][id] ELSE 0
TrueList(g, d) == IF TrueSet(g, d) \in DOMAIN ListOf[d] THEN ListOf[d][TrueSet(g, d)] ELSE <<>>

Covers(b, lower, upper) == b.lower <= lower /\ upper <= b.upper

TrueBounds(c, d) ==
    IF c.type = "scqam" THEN c.width = Qam[d][c.id].width /\ c.bounds.upper - c.bounds.lower \in (c.width - 1)..c.width
    ELSE IF d = "us" THEN c.bounds = TableBounds(Ofdm[d][c.id])
    ELSE LET row == Ofdm[d][c.id]
         IN  \/ Covers(c.bounds, row.zero + row.first * row.spacing, row.zero + row.last * row.spacing)
             \/ c.bounds = TableBounds(row)

\* The topology is joined from up to twelve requests with fallbacks (cmts_operation.py:582) and typed by
\* four more tables (heavy.py:385): whatever is lost, a group shows its own channels or none, an OFDM
\* channel passes for SC-QAM only when its table was not read, and a band covers the active
\* subcarriers; when nothing is lost it shows all of them, with the bands of those that have a row.
ChannelsTrue ==
    [][Stores => \A d \in Dir :
        LET chs == stored'[job.about].channels[d]
            ids == {c.id : c \in chs}
            own == NormalizeChannels(TrueList(job.about, d))
        IN  /\ ids = {} \/ ids = own
            /\ \A c \in chs :
                /\ c.type = "ofdm" => c.id \in DOMAIN Ofdm[d]
                /\ c.id \in DOMAIN Ofdm[d] /\ c.type # "ofdm" => lossy /\ c.bounds = Unbounded
                /\ c.bounds # Unbounded => TrueBounds(c, d)
            /\ ~lossy => /\ ids = own
                         /\ \A c \in chs : c.id \in DOMAIN Ofdm[d] \cup DOMAIN Qam[d] => c.bounds # Unbounded
       ]_inventoryVars
=============================================================================
