----------------------------- MODULE MCCapture -----------------------------
\* Small instances of module Capture.
EXTENDS Capture

CONSTANTS a, b

\* Everything of two groups, all of one group's modems on one channel, a modem wherever it is, and
\* two lists: the second modem is paired with the second group, whatever the snapshots say.
Requests == {[sgs |-> <<>>, macs |-> <<>>, channels |-> {}],
             [sgs |-> <<10>>, macs |-> <<>>, channels |-> {2}],
             [sgs |-> <<>>, macs |-> <<a>>, channels |-> {1}],
             [sgs |-> <<2, 10>>, macs |-> <<a, b>>, channels |-> {2}]}

\* A group lists the one modem or the other, or a modem without an address: two groups may list
\* the same one, and channels are known or not.
Snapshots == {[modems |-> (a :> "addressed" @@ b :> "absent"), channels |-> {1}],
              [modems |-> (a :> "absent" @@ b :> "addressed"), channels |-> {1, 2}],
              [modems |-> (a :> "bare" @@ b :> "absent"), channels |-> {}]}

\* The file of group 10 comes first.
MCNameOrder == 10 :> 1 @@ 2 :> 2

MCService == Services
MCResponse == {"error", "empty", "file"}
=============================================================================
