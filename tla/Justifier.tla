------------------------------ MODULE Justifier ------------------------------
(***************************************************************************)
(* The pure part of Casper FFG: what Justifier::process does to the        *)
(* justification bits and the checkpoints once it is known whether the     *)
(* previous and the current checkpoint have a two-thirds majority          *)
(* (beacon/src/components/justification.rs).  The Casper pallet of the     *)
(* substrate client carries its own copy of the finalization rules.        *)
(*                                                                         *)
(* A checkpoint is a record with an epoch and a root.  Bit 0 of the        *)
(* justification bits stands for the epoch being closed, bit i for the     *)
(* i-th epoch before it.                                                   *)
(***************************************************************************)
EXTENDS Integers

\* consts::JustificationBitsLength is 4.
BitIndex == 0 .. 3

\* total_balance * 2 / 3 as the code compares it, in integers.
IsSupermajority(attesting, total) == attesting * 3 >= total * 2

\* The bits after the shift, the reset of bit 0 and the two justifications.
\* The first two are faulty variants: bit 0 keeps its old value; bit 1 is
\* overwritten instead of set.
ShiftWithoutReset(bits, justify_previous, justify_current) ==
  [i \in BitIndex |-> IF i = 0 THEN bits[0] \/ justify_current
                     ELSE bits[i - 1] \/ (i = 1 /\ justify_previous)]

ShiftOverwriting(bits, justify_previous, justify_current) ==
  [i \in BitIndex |-> IF i = 0 THEN justify_current
                     ELSE IF i = 1 THEN justify_previous ELSE bits[i - 1]]

ShiftBits(bits, justify_previous, justify_current) ==
  [i \in BitIndex |-> IF i = 0 THEN justify_current
                     ELSE IF i = 1 THEN bits[0] \/ justify_previous ELSE bits[i - 1]]

\* The current justified checkpoint: the current checkpoint is assigned last
\* and wins over the previous one.
JustifiedCheckpoint(old, previous, current, justify_previous, justify_current) ==
  IF justify_current THEN current ELSE IF justify_previous THEN previous ELSE old

\* The four finalization rules, in the order of the code: a later rule
\* overrides an earlier one.
Rule234(bits, old_previous, epoch) ==
  bits[1] /\ bits[2] /\ bits[3] /\ old_previous.epoch + 3 = epoch

Rule23(bits, old_previous, epoch) ==
  bits[1] /\ bits[2] /\ old_previous.epoch + 2 = epoch

Rule123(bits, old_current, epoch) ==
  bits[0] /\ bits[1] /\ bits[2] /\ old_current.epoch + 2 = epoch

Rule12SameEpoch(bits, old_current, epoch) ==  \* faulty: off by one
  bits[0] /\ bits[1] /\ old_current.epoch = epoch

Rule12(bits, old_current, epoch) ==
  bits[0] /\ bits[1] /\ old_current.epoch + 1 = epoch

FinalizedCheckpoint(bits, old_previous, old_current, epoch, old_finalized) ==
  IF Rule12(bits, old_current, epoch) \/ Rule123(bits, old_current, epoch)
  THEN old_current
  ELSE IF Rule23(bits, old_previous, epoch) \/ Rule234(bits, old_previous, epoch)
  THEN old_previous
  ELSE old_finalized

=============================================================================
