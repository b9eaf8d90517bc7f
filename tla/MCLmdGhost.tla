----------------------------- MODULE MCLmdGhost ------------------------------
(***************************************************************************)
(* Small instances of LmdGhost: up to four blocks in any tree shape.       *)
(***************************************************************************)
EXTENDS LmdGhost

CONSTANTS v1, v2

MCValidators == {v1, v2}
MCActiveSets == {{v1, v2}, {v1}}

Done == contains(MaxBlocks) /\ importing = Idle /\ UNCHANGED vars

MCSpec == Init /\ [][Next \/ Done]_vars

=============================================================================
