---------------------------- MODULE MCMarketplace ----------------------------
(* One user and one node.                                                    *)
EXTENDS Marketplace

CONSTANTS u1, n1

MCUsers == {u1}
MCNodes == {n1}
=============================================================================
