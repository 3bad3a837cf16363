---------------------------- MODULE MCInventory ----------------------------
\* A small CMTS for module Inventory.
EXTENDS Inventory, TLC

CONSTANTS a, b, x, y

\* Two modems of one group, or of two; changes make the other tables.
MCTables == {1 :> [mac |-> a, sg |-> 1, ip |-> x] @@ 2 :> [mac |-> b, sg |-> 1, ip |-> y] @@ 3 :> None,
             1 :> None @@ 2 :> [mac |-> b, sg |-> 2, ip |-> x] @@ 3 :> [mac |-> a, sg |-> 1, ip |-> x]}

\* Two service groups, the first on two nodes.
MCNodes == << [name |-> "n1", sg |-> 1, ds |-> 11, us |-> 21],
              [name |-> "n1", sg |-> 2, ds |-> 12, us |-> 22],
              [name |-> "n2", sg |-> 1, ds |-> 11, us |-> 21] >>

MCSetOf == [ds |-> (11 :> 1 @@ 12 :> 2), us |-> (21 :> 3 @@ 22 :> 4 @@ 11 :> 4 @@ 12 :> 3)]

\* A list in no order, with a zero and a channel twice.
MCListOf == [ds |-> (1 :> <<33, 5, 0, 5>> @@ 2 :> <<34>>), us |-> (3 :> <<7, 49>> @@ 4 :> <<50>>)]

\* Two OFDM channels, one whose active subcarriers start at zero and one above it.
MCOfdm ==
    [ds |-> (33 :> [zero |-> 100, first |-> 2, last |-> 5, spacing |-> 10, lowerGuard |-> 3,
                    upperGuard |-> 3, lower |-> 97, upper |-> 153]
          @@ 34 :> [zero |-> 200, first |-> 0, last |-> 3, spacing |-> 10, lowerGuard |-> 2,
                    upperGuard |-> 2, lower |-> 198, upper |-> 232]),
     us |-> (49 :> [lower |-> 40, upper |-> 60] @@ 50 :> [lower |-> 60, upper |-> 80])]

MCQam == [ds |-> (5 :> [center |-> 303, width |-> 6]), us |-> (7 :> [center |-> 30, width |-> 5])]
=============================================================================
