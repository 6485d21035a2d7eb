---------------------------- MODULE MCPeerNetwork ----------------------------
(* Two nodes; the health loop of one of them.                                *)
EXTENDS PeerNetwork

CONSTANTS n1, n2

MCNodes == {n1, n2}
MCCheckers == {n1}
=============================================================================
