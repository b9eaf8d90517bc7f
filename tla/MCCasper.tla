------------------------------ MODULE MCCasper -------------------------------
(***************************************************************************)
(* A small instance of Casper: three validators of equal weight, any two   *)
(* of which justify.  In most epochs two are in the committee of the       *)
(* second slot and one in that of the third: the former justify in time,   *)
(* the others one epoch late.  In epoch 3 the two are in the committee of  *)
(* the first slot, which votes for the parent of that slot's block: these  *)
(* votes count only if the slot stays empty, and then the checkpoint's     *)
(* root is an earlier block.                                               *)
(***************************************************************************)
EXTENDS Casper, TLC

CONSTANTS v1, v2, v3

MCValidators == {v1, v2, v3}
MCBalance == [v \in MCValidators |-> 32]
MCDuty == [e \in 0 .. MaxSlot \div SlotsPerEpoch |->
             LET two == IF e = 3 THEN 0 ELSE 1 IN v1 :> two @@ v2 :> two @@ v3 :> 2]
MCByzantine == {v3}

\* Blocks may be missing only at the first slot of an epoch, where the block
\* decides which root the checkpoint gets.
MCSkipSlots == {s \in 0 .. MaxSlot : s % SlotsPerEpoch = 0}

\* The chain stops growing at the bound and nowhere else: a deadlock would be an
\* epoch that cannot be closed because a block root is out of range.
Bounded == slot = MaxSlot /\ UNCHANGED vars

MCSpec == Init /\ [][Next \/ Bounded]_vars

=============================================================================
