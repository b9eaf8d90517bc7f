--------------------------- MODULE MCCasperPallet ----------------------------
(***************************************************************************)
(* Three validators, two of which a session may replace by one.  Three     *)
(* blocks are the shortest session in which a vote can be included in the  *)
(* epoch that it votes for.                                                *)
(***************************************************************************)
EXTENDS CasperPallet

CONSTANTS v1, v2, v3, v4

MCGenesis == <<v1, v2, v3>>
MCNextSets == {<<v1, v4>>}
MCFaulty == {v3}

\* The node holds every key.
MCAllKeys == {{v1, v2, v3, v4}}

\* The last session of the bound ends the run.
Bounded ==
  /\ current_epoch.epoch = MaxEpoch
  /\ (block + 1) % SessionLength = 0
  /\ UNCHANGED vars

MCSpec == Init /\ [][Next \/ Bounded]_vars

=============================================================================
