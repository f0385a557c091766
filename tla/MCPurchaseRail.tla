--------------------------- MODULE MCPurchaseRail ---------------------------
(* PurchaseRail for TLC. *)
EXTENDS PurchaseRail, TLC

CONSTANTS a, b, r1

FoundOne == <<a>>
OnlyZero == {0}
OneOrTwo == {1, 2}
EarlyAndLate == {2, 4}

\* A new adapter, and one that was in use: a route for the founding stock, good
\* until the last second, over a router that is still allowed.
NewAndUsed ==
  {[staged |-> (a :> NoRoute @@ b :> NoRoute), routerAllowed |-> (r1 :> FALSE)],
   [staged |-> (a :> [router |-> r1, weth |-> 1, deadline |-> 4] @@ b :> NoRoute),
    routerAllowed |-> (r1 :> TRUE)]}
=============================================================================
