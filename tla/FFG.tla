-------------------------------- MODULE FFG ---------------------------------
(***************************************************************************)
(* What Casper FFG promises of one chain, without attestations, weights,   *)
(* bits or ring buffers: epochs close one after the other, each closing    *)
(* may justify a checkpoint of the epoch that closes and of the one before *)
(* it, and may finalize a justified checkpoint that is followed by         *)
(* justified ones.  A checkpoint is a record with an epoch and a root.     *)
(***************************************************************************)
EXTENDS Integers

CONSTANT Genesis   \* the checkpoint the chain starts from

VARIABLES
  epoch,       \* the epoch that closes next
  justified,   \* the checkpoints justified so far
  finalized    \* the last finalized checkpoint

vars == <<epoch, justified, finalized>>

\* No two checkpoints of one epoch are both justified.
OnePerEpoch(checkpoints) ==
  \A c, d \in checkpoints : c.epoch = d.epoch => c = d

\* Each of the k epochs after c, for k of one or two, has a justified
\* checkpoint.
FollowedByJustified(c, checkpoints) ==
  \E k \in 1 .. 2 : \A i \in 1 .. k : \E d \in checkpoints : d.epoch = c.epoch + i

Init ==
  /\ epoch = 0
  /\ justified = {}
  /\ finalized = Genesis

\* Nothing justified is ever forgotten, and nothing is justified but in the
\* epoch that closes and in the one before it.
Justify ==
  /\ justified \subseteq justified'
  /\ \A c \in justified' \ justified : c.epoch \in {epoch - 1, epoch} \ {0}
  /\ OnePerEpoch(justified')

\* Finality moves on to a justified checkpoint of a later epoch.
Finalize ==
  /\ finalized' \in justified'
  /\ finalized'.epoch > finalized.epoch
  /\ FollowedByJustified(finalized', justified')

CloseEpoch ==
  /\ epoch' = epoch + 1
  /\ Justify
  /\ Finalize \/ UNCHANGED finalized

Spec == Init /\ [][CloseEpoch]_vars
=============================================================================
