---------------------------- MODULE MCRPCHandler -----------------------------
(***************************************************************************)
(* Two substreams may be opened at a time and the user has three requests, *)
(* one of them a goodbye, so that the queue fills up.  The inactivity      *)
(* limit is longer than the response limit, as in the code.                *)
(***************************************************************************)
EXTENDS RPCHandler

CONSTANTS r1, r2, r3

MCRequests == {r1, r2, r3}
MCGoodbyes == {r3}

\* A closed connection does nothing.
Done == closed /\ UNCHANGED vars

MCSpec == Init /\ [][Next \/ Done]_vars
MCFairSpec == MCSpec /\ Fairness

=============================================================================
