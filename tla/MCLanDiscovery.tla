---------------------------- MODULE MCLanDiscovery ----------------------------
(* A node whose dashboard is used, and one that only restarts.               *)
EXTENDS LanDiscovery, TLC

CONSTANTS n1, n2

MCNodes == {n1, n2}
MCUsers == {n1}
MCMayLink == {<<n1, n2>>}
MCMaxRestarts == n1 :> 0 @@ n2 :> 1
=============================================================================
