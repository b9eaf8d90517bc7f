------------------------------ MODULE MCDuties -------------------------------
(***************************************************************************)
(* Four validators, one of them not yet active; epochs of two slots.       *)
(***************************************************************************)
EXTENDS Duties

FourValidators ==
  [i \in 0 .. 3 |->
     [effective_balance |-> IF i = 2 THEN 16 ELSE 32,
      slashed |-> FALSE,
      activation_epoch |-> IF i = 3 THEN FAR_FUTURE_EPOCH ELSE 0,
      exit_epoch |-> FAR_FUTURE_EPOCH,
      withdrawable_epoch |-> FAR_FUTURE_EPOCH]]

\* An attester sees the chain as it is, or another one.
TwoViews == {<<TRUE, TRUE>>, <<FALSE, FALSE>>}

\* A hash for small seeds, which tells epochs, mixes, slots and rounds apart.
Base(seed) == IF "base" \in DOMAIN seed THEN seed.base ELSE seed
Salt(seed) == IF "base" \in DOMAIN seed THEN seed.slot + 3 ELSE 0
MCPivot(seed, round) == Base(seed).mix + 2 * Base(seed).epoch + round + Salt(seed)
MCBit(seed, round, position) ==
  ((Base(seed).mix + 1) * (position + 1) + Base(seed).epoch * round + Salt(seed)) % 2
MCRandomByte(seed, k) == (100 * (Base(seed).mix + k + Salt(seed))) % 256

Bounded == slot = (MaxEpoch + 1) * SlotsPerEpoch /\ UNCHANGED vars
MCSpec == Init /\ [][Next \/ Bounded]_vars

=============================================================================
