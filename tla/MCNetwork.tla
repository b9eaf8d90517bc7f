------------------------------ MODULE MCNetwork ------------------------------
(***************************************************************************)
(* A small instance of Network: two peers, both of which are wanted.       *)
(***************************************************************************)
EXTENDS Network

CONSTANTS p1, p2

MCPeers == {p1, p2}

=============================================================================
