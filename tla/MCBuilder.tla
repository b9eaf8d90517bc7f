------------------------------ MODULE MCBuilder ------------------------------
(***************************************************************************)
(* Two validators of this node and one of another, which proposes most of  *)
(* the slots: its block of slot 6 may arrive while the block of slot 5 is  *)
(* built here and not yet imported.  The other author can vote for one or  *)
(* for two new deposits, in the two slots of a voting period.  A block     *)
(* carries one: after two, one is due in the block built here, and after   *)
(* one, the votes of this node for the genesis data take it back.  Two     *)
(* attestations are due in one slot, one more than fits into a block.      *)
(***************************************************************************)
EXTENDS Builder

CONSTANTS v1, v2, v3

MCValidators == {v1, v2, v3}
MCKeys == {v1, v2}
MCDuty == 0 :> {v3} @@ 1 :> {v1, v2} @@ 2 :> {v1, v3} @@ 3 :> {v2}
            @@ 4 :> {v2, v3} @@ 5 :> {v1} @@ 6 :> {v1, v2} @@ 7 :> {v3}
MCProposer == [s \in 0 .. MaxSlot + 1 |-> IF s \in {1, 2, 3, 6} THEN v3 ELSE IF s = 5 THEN v2 ELSE v1]
MCDepositCount == "genesis" :> 0 @@ "new" :> 1 @@ "more" :> 2

\* The thread has ended, or a bound is reached; another block may still come.
Bounded ==
  /\ \/ panicked # NoPanic
     \/ blocks[head].slot = MaxSlot
     \/ Len(own) = MaxOwn
     \/ \E signing \in SetToSeqs(Due) : \E d \in DOMAIN Filled(signing) :
          Len(Filled(signing)[d]) > MaxCopies
  /\ UNCHANGED vars

MCSpec == Init /\ [][Next \/ Bounded]_vars

=============================================================================
