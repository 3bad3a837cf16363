-------------------------- MODULE MCGroupRequests --------------------------
(***************************************************************************)
(* Two serving groups and two modems.  The tables a heavy poll may bring   *)
(* hold a modem with an address, one without, both, or none, so that a     *)
(* modem moves between groups, appears in both and disappears from the     *)
(* cache while a request is served.                                        *)
(***************************************************************************)
EXTENDS GroupRequests

CONSTANTS m1, m2

MCModems == {m1, m2}
MCServiceGroups == {1, 2}

Row(ip, descr) == [listed |-> TRUE, ip |-> ip, descr |-> descr]

MCTables ==
    {[m \in MCModems |-> IF m = m1 THEN Row(TRUE, TRUE) ELSE Row(FALSE, FALSE)],
     [m \in MCModems |-> IF m = m1 THEN NoRow ELSE Row(TRUE, FALSE)]}

Request(kind, sgs, macs, mode, wait) ==
    [kind |-> kind, sgs |-> sgs, macs |-> macs, mode |-> mode, wait |-> wait]

\* Group 3 was not discovered.
MCRequests ==
    {Request("reset", {}, {m1}, "none", FALSE), Request("reset", {2, 3}, {}, "none", FALSE),
     Request("descr", {1, 3}, {m2}, "heavy", TRUE), Request("descr", {3}, {}, "heavy", FALSE),
     Request("modems", {}, {}, "light", TRUE), Request("topology", {2}, {}, "none", FALSE),
     Request("restart", {1}, {}, "none", FALSE), Request("ids", {}, {}, "none", FALSE),
     Request("ready", {}, {}, "none", FALSE)}
=============================================================================
