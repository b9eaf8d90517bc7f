----------------------------- MODULE BlockServer -----------------------------
(***************************************************************************)
(* The network thread answering a peer's request for blocks                *)
(* (blockchain/network/src/handler.rs, lib.rs) while another thread        *)
(* imports.  blocks_by_slot writes `let _ = self.import_lock.lock()',      *)
(* which drops the guard at once: every read of the store is a step of its *)
(* own, and a commit of the importer may come between any two.             *)
(***************************************************************************)
EXTENDS LmdGhost

CONSTANT Starts     \* bound: the head_block_roots peers ask with

VARIABLES
  request,    \* the request being served and how far the handler has come
  served      \* the last reply: the request and the block it got

NoRequest == [at |-> "none", start |-> NoBlock, start_slot |-> 0, depth |-> 0]

serverVars == <<request, served>>
allVars == <<vars, serverVars>>

\* A peer's head_request: its own head, which this node may not have, and the
\* slot after it.
receive(start) ==
  /\ request.at = "none"
  /\ request' = [at |-> "check", start |-> start, depth |-> 0,
                 start_slot |-> IF contains(start) THEN blocks[start].slot + 1 ELSE 1]
  /\ UNCHANGED <<vars, served>>

\* contains, then is_canon.  A peer with an unknown head is served from the
\* bottom of the chain, one off the canonical chain gets no block.
check ==
  /\ request.at = "check"
  /\ request' = CASE ~contains(request.start) ->
                       [request EXCEPT !.at = "lookup", !.start = Genesis, !.depth = 1]
                  [] contains(request.start) /\ is_canon(request.start) ->
                       [request EXCEPT !.at = "walk"]
                  [] OTHER -> NoRequest
  /\ UNCHANGED <<vars, served>>

\* The walk back to the last block whose slot is not after start_slot.  What it
\* reads is never written again.
WalkBack(start, start_slot) ==
  CHOOSE b \in Ancestry[start] :
    /\ blocks[b].slot <= start_slot \/ b = Genesis
    /\ \A c \in Ancestry[start] \ Ancestry[b] : blocks[c].slot > start_slot

walk ==
  /\ request.at = "walk"
  /\ request' = [request EXCEPT !.at = "lookup",
                   !.depth = depth_at(WalkBack(request.start, request.start_slot))]
  /\ UNCHANGED <<vars, served>>

\* blocks_by_depth_no_lock for one block, the number the service asks for.
lookup ==
  /\ request.at = "lookup"
  /\ served' = [request |-> request,
                block |-> lookup_canon_depth(request.depth)]
  /\ request' = NoRequest
  /\ UNCHANGED vars

ServerInit == Init /\ request = NoRequest /\ served = [request |-> NoRequest, block |-> NoBlock]

ServerNext ==
  \/ Next /\ UNCHANGED serverVars
  \/ \E start \in Starts : receive(start)
  \/ check
  \/ walk
  \/ lookup

ServerSpec == ServerInit /\ [][ServerNext]_allVars

-----------------------------------------------------------------------------
\* "The hash tree root of a block on the requested chain" (messages/src/items.rs,
\* BeaconBlocksRequest.head_block_root): a block served in answer lies on a
\* chain with that block.
ServedOnRequestedChain ==
  served.block # NoBlock =>
    \/ served.block \in Ancestry[served.request.start]
    \/ served.request.start \in Ancestry[served.block]

=============================================================================
