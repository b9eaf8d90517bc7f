---------------------------- MODULE CasperProofs -----------------------------
(***************************************************************************)
(* Proofs about Casper, for any number of validators, any weights, any     *)
(* epoch length and any attestations of Byzantine validators.              *)
(***************************************************************************)
EXTENDS Casper, EpochArithmetic

\* Two of the checkpoints in the state have the same epoch only if they are the
\* same.  For the current one this rests on KeptRoot.
SameEpochSame ==
  /\ previous_justified_checkpoint.epoch = current_justified_checkpoint.epoch
       => previous_justified_checkpoint = current_justified_checkpoint
  /\ finalized_checkpoint.epoch = previous_justified_checkpoint.epoch
       => finalized_checkpoint = previous_justified_checkpoint

\* A checkpoint justified in time still has its root in the ring one epoch
\* later, when it may be justified again.
KeptRoot ==
  current_epoch > 1 /\ current_justified_checkpoint.epoch + 1 = current_epoch
    => current_justified_checkpoint.root =
         block_root(block_roots, current_justified_checkpoint.epoch)

\* Only closed epochs after the first are ever justified, and what the state
\* names was justified or is the genesis checkpoint.
JustifiedEpochs ==
  /\ \A c \in justified : 1 <= c.epoch /\ c.epoch < current_epoch
  /\ current_justified_checkpoint \in justified \cup {GenesisCheckpoint}
  /\ previous_justified_checkpoint \in justified \cup {GenesisCheckpoint}

\* The current justified checkpoint is the youngest one ever justified.
LatestJustified ==
  \A c \in justified :
    /\ current_justified_checkpoint \in justified
    /\ c.epoch <= current_justified_checkpoint.epoch

\* A finalized checkpoint was justified, and so were all epochs up to one at
\* most two epochs younger (k-finality): no finalization rule fires on stale
\* justification bits.
FinalizedHasJustifiedChild ==
  \/ finalized_checkpoint = GenesisCheckpoint
  \/ /\ finalized_checkpoint \in justified
     /\ \E k \in 1 .. 2 : \A d \in 1 .. k :
          \E c \in justified : c.epoch = finalized_checkpoint.epoch + d

\* One checkpoint to an epoch is ever justified, although the epoch's target
\* is counted twice.  This rests on LatestJustified and KeptRoot.
OneJustifiedPerEpoch ==
  \A c, d \in justified : c.epoch = d.epoch => c = d

\* The inductive invariant.
IInv ==
  /\ TypeOK
  /\ CheckpointOrder
  /\ BitsMatchHistory
  /\ LatestJustified
  /\ FinalizedHasJustifiedChild
  /\ SameEpochSame
  /\ KeptRoot
  /\ JustifiedEpochs
  /\ OneJustifiedPerEpoch

-----------------------------------------------------------------------------
\* Reading a block root, from a ring of the right type, gives a root.
LEMMA BlockRootType ==
  ASSUME NEW roots \in [0 .. SlotsPerHistoricalRoot - 1 -> Roots], NEW e \in Nat
  PROVE  block_root(roots, e) \in Roots
<1>1. e * SlotsPerEpoch \in Nat /\ SlotsPerHistoricalRoot \in Nat \ {0}
  BY CasperAssumption
<1> QED BY <1>1, QuotientRemainder DEF block_root, start_slot_of_epoch

\* The epoch numbers, in the state and after one turn of process_slots.
LEMMA EpochTypes ==
  ASSUME slot \in Nat
  PROVE  /\ current_epoch \in Nat
         /\ previous_epoch \in Nat
         /\ current_epoch > 0 => previous_epoch = current_epoch - 1
         /\ current_epoch = 0 => previous_epoch = 0
<1>1. current_epoch \in Nat
  BY CasperAssumption, QuotientRemainder DEF current_epoch, epoch_of_slot
<1> QED BY <1>1 DEF previous_epoch

LEMMA EpochAfterSlot ==
  ASSUME slot \in Nat, slot' = slot + 1
  PROVE  current_epoch' = IF (slot + 1) % SlotsPerEpoch = 0
                          THEN current_epoch + 1 ELSE current_epoch
BY CasperAssumption, NextSlotEpoch DEF current_epoch, epoch_of_slot

\* The ring after process_slot has the right type, and an epoch that began at
\* an earlier slot still within the ring keeps its entry.
LEMMA RingAfterSlot ==
  ASSUME TypeOK
  PROVE  /\ RootsAfterSlot \in [0 .. SlotsPerHistoricalRoot - 1 -> Roots]
         /\ \A e \in Nat :
              start_slot_of_epoch(e) < slot /\ slot < start_slot_of_epoch(e) + SlotsPerHistoricalRoot
                => block_root(RootsAfterSlot, e) = block_root(block_roots, e)
<1>1. SlotsPerHistoricalRoot \in Nat \ {0} /\ slot \in Nat
  BY CasperAssumption DEF TypeOK
<1>2. slot % SlotsPerHistoricalRoot \in 0 .. SlotsPerHistoricalRoot - 1
  BY <1>1, QuotientRemainder
<1>3. RootsAfterSlot \in [0 .. SlotsPerHistoricalRoot - 1 -> Roots]
  BY <1>2 DEF RootsAfterSlot, TypeOK, Roots
<1>4. ASSUME NEW e \in Nat, start_slot_of_epoch(e) < slot,
             slot < start_slot_of_epoch(e) + SlotsPerHistoricalRoot
      PROVE  block_root(RootsAfterSlot, e) = block_root(block_roots, e)
  <2>1. start_slot_of_epoch(e) \in Nat
    BY CasperAssumption DEF start_slot_of_epoch
  <2>2. start_slot_of_epoch(e) % SlotsPerHistoricalRoot # slot % SlotsPerHistoricalRoot
    BY <2>1, <1>1, <1>4, DistinctPositions
  <2>3. start_slot_of_epoch(e) % SlotsPerHistoricalRoot \in 0 .. SlotsPerHistoricalRoot - 1
    BY <2>1, <1>1, QuotientRemainder
  <2> QED BY <2>2, <2>3 DEF block_root, RootsAfterSlot, TypeOK
<1> QED BY <1>3, <1>4

\* The start of the previous epoch is always within the ring.
LEMMA PreviousEpochInRing ==
  ASSUME slot \in Nat, current_epoch >= 1
  PROVE  /\ start_slot_of_epoch(current_epoch - 1) < slot
         /\ slot < start_slot_of_epoch(current_epoch - 1) + SlotsPerHistoricalRoot
<1> DEFINE e == current_epoch
<1>1. SlotsPerEpoch \in Nat \ {0, 1} /\ SlotsPerHistoricalRoot \in Nat
      /\ SlotsPerHistoricalRoot >= 2 * SlotsPerEpoch
  BY CasperAssumption
<1>2. e * SlotsPerEpoch \in Nat /\ e * SlotsPerEpoch <= slot
      /\ slot < e * SlotsPerEpoch + SlotsPerEpoch
  BY <1>1, EpochStart DEF current_epoch, epoch_of_slot
<1>3. e \in Nat
  BY EpochTypes
<1> HIDE DEF e
<1>4. (e - 1) * SlotsPerEpoch = e * SlotsPerEpoch - SlotsPerEpoch
  BY <1>1, <1>3
<1> QED BY <1>1, <1>2, <1>4 DEF start_slot_of_epoch, e

-----------------------------------------------------------------------------
\* The genesis state is in epoch 0.
LEMMA InitEpoch ==
  ASSUME Init
  PROVE  current_epoch = 0 /\ previous_epoch = 0
<1>1. SlotsPerEpoch \in Nat \ {0} /\ 0 \in Nat
  BY CasperAssumption
<1> DEFINE q == 0 \div SlotsPerEpoch
<1>2. q \in Nat /\ q * SlotsPerEpoch <= 0
  BY <1>1, EpochStart, QuotientRemainder
<1> HIDE DEF q
<1>3. q = 0
  BY <1>1, <1>2, ProductAtLeast
<1> QED BY <1>3 DEF q, Init, current_epoch, previous_epoch, epoch_of_slot

\* The invariant holds in the genesis state.
LEMMA InitIInv == Init => IInv
<1> SUFFICES ASSUME Init PROVE IInv
  OBVIOUS
<1> USE CasperAssumption DEF Init
<1>1. TypeOK
  BY DEF TypeOK, BitIndex, Roots, Checkpoints, GenesisCheckpoint, ZeroHash
<1>2. current_epoch \in Nat /\ current_epoch = 0 /\ previous_epoch = 0
  BY InitEpoch
<1>3. CheckpointOrder /\ LatestJustified /\ FinalizedHasJustifiedChild
  BY <1>2 DEF CheckpointOrder, LatestJustified, FinalizedHasJustifiedChild, GenesisCheckpoint
<1>4. /\ BitsMatchHistory /\ SameEpochSame /\ KeptRoot
      /\ JustifiedEpochs /\ OneJustifiedPerEpoch
  BY <1>2 DEF BitsMatchHistory, SameEpochSame, KeptRoot, JustifiedEpochs,
              OneJustifiedPerEpoch
<1> QED BY <1>1, <1>3, <1>4 DEF IInv

-----------------------------------------------------------------------------
\* The part of the invariant about the finality state, in the next state.
FFGInv ==
  /\ CheckpointOrder
  /\ BitsMatchHistory
  /\ LatestJustified
  /\ FinalizedHasJustifiedChild
  /\ SameEpochSame
  /\ KeptRoot
  /\ JustifiedEpochs
  /\ OneJustifiedPerEpoch

FFGTypes ==
  /\ justification_bits \in [BitIndex -> BOOLEAN]
  /\ current_justified_checkpoint \in Checkpoints
  /\ previous_justified_checkpoint \in Checkpoints
  /\ finalized_checkpoint \in Checkpoints
  /\ justified \subseteq Checkpoints

\* Closing an epoch past the first two.
LEMMA JustifyIInv ==
  ASSUME IInv, Justify(RootsAfterSlot), PastGenesis,
         slot' = slot + 1, block_roots' = RootsAfterSlot,
         (slot + 1) % SlotsPerEpoch = 0
  PROVE  FFGTypes' /\ FFGInv'
<1> DEFINE e == current_epoch
           cur == [epoch |-> e, root |-> block_root(RootsAfterSlot, e)]
           prev == [epoch |-> previous_epoch, root |-> block_root(RootsAfterSlot, previous_epoch)]
           jp == IsJustifiable(RootsAfterSlot, previous_epoch)
           jc == IsJustifiable(RootsAfterSlot, e)
           oldc == current_justified_checkpoint
           oldp == previous_justified_checkpoint
<1>e. e \in Nat /\ e > 1 /\ previous_epoch = e - 1 /\ e - 1 \in Nat
  BY EpochTypes DEF IInv, TypeOK, PastGenesis
<1>n. current_epoch' = e + 1 /\ previous_epoch' = e
  <2>1. current_epoch' = e + 1
    BY EpochAfterSlot DEF IInv, TypeOK
  <2> QED BY <2>1, <1>e DEF previous_epoch
<1>c. cur \in Checkpoints /\ cur.epoch = e /\ cur.root = block_root(RootsAfterSlot, e)
  BY <1>e, RingAfterSlot, BlockRootType DEF IInv, Checkpoints
<1>p. prev \in Checkpoints /\ prev.epoch = e - 1
      /\ prev.root = block_root(RootsAfterSlot, e - 1)
  BY <1>e, RingAfterSlot, BlockRootType DEF IInv, Checkpoints
<1>j. /\ justification_bits' = ShiftBits(justification_bits, jp, jc)
      /\ previous_justified_checkpoint' = oldc
      /\ current_justified_checkpoint' = IF jc THEN cur ELSE IF jp THEN prev ELSE oldc
      /\ finalized_checkpoint' =
           FinalizedCheckpoint(justification_bits', oldp, oldc, e, finalized_checkpoint)
      /\ justified' = justified \cup {c \in {prev} : jp} \cup {c \in {cur} : jc}
  BY DEF Justify, SavedCheckpoint, JustifiedCheckpoint
\* A checkpoint justified again one epoch later is the same checkpoint.
<1>k. oldc.epoch = e - 1 => oldc = prev
  <2> SUFFICES ASSUME oldc.epoch = e - 1 PROVE oldc = prev
    OBVIOUS
  <2>1. oldc.root = block_root(block_roots, e - 1)
    BY <1>e DEF IInv, KeptRoot
  <2>2. /\ start_slot_of_epoch(e - 1) < slot
        /\ slot < start_slot_of_epoch(e - 1) + SlotsPerHistoricalRoot
    BY <1>e, PreviousEpochInRing DEF IInv, TypeOK
  <2>3. block_root(RootsAfterSlot, e - 1) = block_root(block_roots, e - 1)
    BY <2>2, <1>e, RingAfterSlot DEF IInv
  <2> QED BY <2>1, <2>3, <1>p, <1>e DEF IInv, TypeOK, Checkpoints
<1>t. /\ oldc \in Checkpoints /\ oldp \in Checkpoints
      /\ finalized_checkpoint \in Checkpoints
      /\ justified \subseteq Checkpoints
      /\ justification_bits \in [BitIndex -> BOOLEAN]
      /\ \A c \in Checkpoints : c.epoch \in Nat
  BY DEF IInv, TypeOK, Checkpoints
<1>o. /\ finalized_checkpoint.epoch <= oldp.epoch
      /\ oldp.epoch <= oldc.epoch
      /\ oldc.epoch <= e - 1
      /\ finalized_checkpoint.epoch = 0 \/ finalized_checkpoint.epoch + 2 <= e
  BY <1>e DEF IInv, CheckpointOrder
<1>h. \A c \in justified : 1 <= c.epoch /\ c.epoch <= e - 1
  BY <1>t, <1>e DEF IInv, JustifiedEpochs
<1> HIDE DEF e, cur, prev, jp, jc, oldc, oldp
<1>b. /\ justification_bits'[0] <=> jc
      /\ justification_bits'[1] <=> justification_bits[0] \/ jp
      /\ justification_bits'[2] <=> justification_bits[1]
      /\ justification_bits'[3] <=> justification_bits[2]
      /\ justification_bits' \in [BitIndex -> BOOLEAN]
  <2>1. jp \in BOOLEAN /\ jc \in BOOLEAN
    BY DEF jp, jc, IsJustifiable, IsSupermajority
  <2> QED BY <2>1, <1>j, <1>t DEF ShiftBits, BitIndex
<1>1. FFGTypes'
  <2>1. finalized_checkpoint' \in Checkpoints
    BY <1>j, <1>t DEF FinalizedCheckpoint
  <2> QED BY <1>j, <1>t, <1>c, <1>p, <1>b, <2>1 DEF FFGTypes
<1>f. \/ finalized_checkpoint' = finalized_checkpoint
      \/ /\ finalized_checkpoint' = oldc
         /\ justification_bits'[0] /\ justification_bits'[1]
         /\ oldc.epoch + 1 = e \/ (justification_bits'[2] /\ oldc.epoch + 2 = e)
      \/ /\ finalized_checkpoint' = oldp
         /\ justification_bits'[1] /\ justification_bits'[2]
         /\ oldp.epoch + 2 = e \/ (justification_bits'[3] /\ oldp.epoch + 3 = e)
  BY <1>j DEF FinalizedCheckpoint, Rule12, Rule123, Rule23, Rule234
<1>2. CheckpointOrder'
  <2>1. finalized_checkpoint'.epoch <= oldc.epoch
    BY <1>f, <1>o, <1>t
  <2>2. oldc.epoch <= current_justified_checkpoint'.epoch
        /\ current_justified_checkpoint'.epoch <= e
    BY <1>j, <1>o, <1>t, <1>c, <1>p, <1>e
  <2>3. finalized_checkpoint'.epoch = 0 \/ finalized_checkpoint'.epoch + 2 <= e + 1
    BY <1>f, <1>o, <1>t, <1>e
  <2> QED BY <2>1, <2>2, <2>3, <1>j, <1>n DEF CheckpointOrder
<1>3. BitsMatchHistory'
  <2>1. \A i \in BitIndex :
          justification_bits[i] <=> \E c \in justified : c.epoch = e - 1 - i
    BY DEF IInv, BitsMatchHistory, e
  <2>2. justification_bits'[0] <=> \E c \in justified' : c.epoch = e
    BY <1>b, <1>j, <1>h, <1>c, <1>p, <1>e, <1>t
  <2>3. justification_bits'[1] <=> \E c \in justified' : c.epoch = e - 1
    <3>1. justification_bits[0] <=> \E c \in justified : c.epoch = e - 1
      BY <2>1, <1>e DEF BitIndex
    <3>2. jp \/ (\E c \in justified : c.epoch = e - 1) => \E c \in justified' : c.epoch = e - 1
      BY <1>j, <1>p
    <3>3. ASSUME NEW c \in justified', c.epoch = e - 1
          PROVE  jp \/ \E d \in justified : d.epoch = e - 1
      BY <3>3, <1>j, <1>c, <1>e
    <3> QED BY <3>1, <3>2, <3>3, <1>b
  <2>4. justification_bits'[2] <=> \E c \in justified' : c.epoch = e - 2
    <3>1. justification_bits[1] <=> \E c \in justified : c.epoch = e - 2
      BY <2>1, <1>e DEF BitIndex
    <3> QED BY <3>1, <1>b, <1>j, <1>c, <1>p, <1>e, <1>t
  <2>5. justification_bits'[3] <=> \E c \in justified' : c.epoch = e - 3
    <3>1. justification_bits[2] <=> \E c \in justified : c.epoch = e - 3
      BY <2>1, <1>e DEF BitIndex
    <3> QED BY <3>1, <1>b, <1>j, <1>c, <1>p, <1>e, <1>t
  <2>6. \A i \in 0 .. 3 :
          justification_bits'[i] <=> \E c \in justified' : c.epoch = (e + 1) - 1 - i
    BY <2>2, <2>3, <2>4, <2>5, <1>e
  <2> QED BY <2>6, <1>n DEF BitsMatchHistory, BitIndex
<1>4. LatestJustified'
  <2>1. \A c \in justified : oldc \in justified /\ c.epoch <= oldc.epoch
    BY DEF IInv, LatestJustified, oldc
  <2>2. CASE jc
    BY <2>2, <1>j, <1>h, <1>c, <1>p, <1>e, <1>t DEF LatestJustified
  <2>3. CASE ~jc /\ jp
    BY <2>3, <1>j, <1>h, <1>c, <1>p, <1>e, <1>t DEF LatestJustified
  <2>4. CASE ~jc /\ ~jp
    BY <2>4, <2>1, <1>j DEF LatestJustified
  <2> QED BY <2>2, <2>3, <2>4
<1>5. JustifiedEpochs'
  <2>1. oldc \in justified \cup {GenesisCheckpoint}
    BY DEF IInv, JustifiedEpochs, oldc
  <2>2. \A c \in justified' : 1 <= c.epoch /\ c.epoch < e + 1
    BY <1>j, <1>h, <1>c, <1>p, <1>e, <1>t
  <2>3. current_justified_checkpoint' \in justified' \cup {GenesisCheckpoint}
    BY <2>1, <1>j
  <2>4. previous_justified_checkpoint' \in justified' \cup {GenesisCheckpoint}
    BY <2>1, <1>j
  <2> QED BY <2>2, <2>3, <2>4, <1>n DEF JustifiedEpochs, GenesisCheckpoint
<1>6. FinalizedHasJustifiedChild'
  <2> DEFINE Child(f) == \/ f = GenesisCheckpoint
                         \/ /\ f \in justified'
                            /\ \E k \in 1 .. 2 : \A d \in 1 .. k :
                                 \E c \in justified' : c.epoch = f.epoch + d
  <2>1. /\ oldc \in justified \cup {GenesisCheckpoint}
        /\ oldp \in justified \cup {GenesisCheckpoint}
    BY DEF IInv, JustifiedEpochs, oldc, oldp
  <2>2. \A i \in 0 .. 3 :
          justification_bits'[i] <=> \E c \in justified' : c.epoch = e - i
    BY <1>3, <1>n, <1>e DEF BitsMatchHistory, BitIndex
  <2>3. CASE finalized_checkpoint' = finalized_checkpoint
    <3>1. justified \subseteq justified'
      BY <1>j
    <3> QED BY <2>3, <3>1 DEF IInv, FinalizedHasJustifiedChild, GenesisCheckpoint
  <2>4. CASE /\ finalized_checkpoint' = oldc
             /\ justification_bits'[0] /\ justification_bits'[1]
             /\ oldc.epoch + 1 = e \/ (justification_bits'[2] /\ oldc.epoch + 2 = e)
    <3>1. \E c \in justified' : c.epoch = oldc.epoch + 1
      BY <2>4, <2>2, <1>e, <1>t
    <3>2. oldc \in justified' \cup {GenesisCheckpoint}
      BY <2>1, <1>j
    <3> QED BY <2>4, <3>1, <3>2 DEF FinalizedHasJustifiedChild, GenesisCheckpoint
  <2>5. CASE /\ finalized_checkpoint' = oldp
             /\ justification_bits'[1] /\ justification_bits'[2]
             /\ oldp.epoch + 2 = e \/ (justification_bits'[3] /\ oldp.epoch + 3 = e)
    <3>1. \E c \in justified' : c.epoch = oldp.epoch + 1
      BY <2>5, <2>2, <1>e, <1>t
    <3>2. oldp \in justified' \cup {GenesisCheckpoint}
      BY <2>1, <1>j
    <3> QED BY <2>5, <3>1, <3>2 DEF FinalizedHasJustifiedChild, GenesisCheckpoint
  <2> QED BY <2>3, <2>4, <2>5, <1>f
<1>7. SameEpochSame'
  <2>1. /\ oldp.epoch = oldc.epoch => oldp = oldc
        /\ finalized_checkpoint.epoch = oldp.epoch => finalized_checkpoint = oldp
    BY DEF IInv, SameEpochSame, oldc, oldp
  <2>2. oldc.epoch = current_justified_checkpoint'.epoch
          => oldc = current_justified_checkpoint'
    BY <1>j, <1>k, <1>o, <1>c, <1>p, <1>e, <1>t
  <2>3. finalized_checkpoint'.epoch = oldc.epoch => finalized_checkpoint' = oldc
    BY <2>1, <1>f, <1>o, <1>t
  <2> QED BY <2>2, <2>3, <1>j DEF SameEpochSame
<1>8. KeptRoot'
  <2> SUFFICES ASSUME current_justified_checkpoint'.epoch + 1 = e + 1
               PROVE  current_justified_checkpoint'.root =
                        block_root(RootsAfterSlot, current_justified_checkpoint'.epoch)
    BY <1>n DEF KeptRoot, block_root, start_slot_of_epoch
  <2>1. current_justified_checkpoint' = cur
    BY <1>j, <1>o, <1>p, <1>e, <1>t
  <2> QED BY <2>1, <1>c
<1>9. OneJustifiedPerEpoch'
  <2>1. \A c \in justified : c.epoch = e - 1 => c = prev
    <3> SUFFICES ASSUME NEW c \in justified, c.epoch = e - 1 PROVE c = prev
      OBVIOUS
    <3>1. oldc \in justified /\ oldc.epoch = e - 1
      BY <1>o, <1>t, <1>e DEF IInv, LatestJustified, oldc
    <3>2. c = oldc
      BY <3>1 DEF IInv, OneJustifiedPerEpoch
    <3> QED BY <3>1, <3>2, <1>k
  <2>2. \A c, d \in justified : c.epoch = d.epoch => c = d
    BY DEF IInv, OneJustifiedPerEpoch
  <2>3. prev.epoch = e - 1 /\ cur.epoch = e /\ \A c \in justified : c.epoch \in Nat
    BY <1>p, <1>c, <1>t
  <2> QED BY <2>1, <2>2, <2>3, <1>h, <1>j, <1>e DEF OneJustifiedPerEpoch
<1> QED BY <1>1, <1>2, <1>3, <1>4, <1>5, <1>6, <1>7, <1>8, <1>9 DEF FFGInv

\* Closing one of the first two epochs.
LEMMA GenesisEpochsIInv ==
  ASSUME IInv, UNCHANGED ffg, ~PastGenesis, slot' = slot + 1,
         (slot + 1) % SlotsPerEpoch = 0
  PROVE  FFGInv'
<1>1. /\ current_epoch \in Nat /\ current_epoch <= 1
      /\ previous_epoch = 0
      /\ current_epoch' = current_epoch + 1 /\ previous_epoch' = current_epoch
  <2>1. current_epoch \in Nat /\ current_epoch <= 1 /\ previous_epoch = 0
    BY EpochTypes DEF IInv, TypeOK, PastGenesis
  <2>2. current_epoch' = current_epoch + 1
    BY EpochAfterSlot DEF IInv, TypeOK
  <2> QED BY <2>1, <2>2 DEF previous_epoch
<1>2. justified = {}
  BY <1>1 DEF IInv, JustifiedEpochs, TypeOK, Checkpoints
<1>3. /\ current_justified_checkpoint.epoch = 0
      /\ previous_justified_checkpoint.epoch = 0
      /\ finalized_checkpoint.epoch = 0
  BY <1>1 DEF IInv, CheckpointOrder, TypeOK, Checkpoints
<1>4. \A i \in BitIndex : ~justification_bits[i]
  BY <1>2 DEF IInv, BitsMatchHistory
<1> USE DEF ffg
<1>5. CheckpointOrder'
  BY <1>1, <1>3 DEF CheckpointOrder
<1>6. BitsMatchHistory' /\ LatestJustified'
  BY <1>2, <1>4 DEF BitsMatchHistory, LatestJustified
<1>7. FinalizedHasJustifiedChild' /\ SameEpochSame'
  BY DEF IInv, FinalizedHasJustifiedChild, SameEpochSame, GenesisCheckpoint
<1>8. KeptRoot'
  BY <1>1, <1>3 DEF KeptRoot
<1>9. JustifiedEpochs'
  BY <1>2 DEF IInv, JustifiedEpochs, GenesisCheckpoint
<1>10. OneJustifiedPerEpoch'
  BY <1>2 DEF OneJustifiedPerEpoch
<1> QED BY <1>10, <1>5, <1>6, <1>7, <1>8, <1>9 DEF FFGInv

\* Any step within an epoch that leaves the finality state alone.
LEMMA SameEpochIInv ==
  ASSUME IInv, UNCHANGED ffg, current_epoch' = current_epoch,
         block_roots' \in {block_roots, RootsAfterSlot}
  PROVE  FFGInv'
<1> USE DEF ffg
<1>1. previous_epoch' = previous_epoch
  BY DEF previous_epoch
<1>2. CheckpointOrder'
  BY <1>1 DEF IInv, CheckpointOrder
<1>3. BitsMatchHistory' /\ LatestJustified'
  BY DEF IInv, BitsMatchHistory, LatestJustified
<1>4. FinalizedHasJustifiedChild' /\ SameEpochSame'
  BY DEF IInv, FinalizedHasJustifiedChild, SameEpochSame, GenesisCheckpoint
<1>5. KeptRoot'
  <2> DEFINE c == current_justified_checkpoint
  <2> SUFFICES ASSUME current_epoch > 1, c.epoch + 1 = current_epoch
               PROVE  c.root = block_root(block_roots', c.epoch)
    BY DEF KeptRoot, block_root, start_slot_of_epoch
  <2>1. c.root = block_root(block_roots, c.epoch)
    BY DEF IInv, KeptRoot
  <2>2. c.epoch \in Nat /\ c.epoch = current_epoch - 1
    BY EpochTypes DEF IInv, TypeOK, Checkpoints
  <2>3. block_root(RootsAfterSlot, c.epoch) = block_root(block_roots, c.epoch)
    BY <2>2, EpochTypes, PreviousEpochInRing, RingAfterSlot DEF IInv, TypeOK
  <2> QED BY <2>1, <2>3
<1>6. JustifiedEpochs'
  BY DEF IInv, JustifiedEpochs, GenesisCheckpoint
<1>7. OneJustifiedPerEpoch'
  BY DEF IInv, OneJustifiedPerEpoch
<1> QED BY <1>2, <1>3, <1>4, <1>5, <1>6, <1>7 DEF FFGInv

-----------------------------------------------------------------------------
\* The attestation a validator of this client builds is well formed.
LEMMA BuildAttestationType ==
  ASSUME NEW v \in Validators, NEW s \in Nat, NEW head \in Nat,
         NEW roots \in [0 .. SlotsPerHistoricalRoot - 1 -> Roots],
         NEW source \in Checkpoints
  PROVE  BuildAttestation(v, s, head, roots, source) \in Attestations
<1>1. epoch_of_slot(s) \in Nat
  BY CasperAssumption, QuotientRemainder DEF epoch_of_slot
<1>2. block_root(roots, epoch_of_slot(s)) \in Roots /\ head \in Roots
  BY <1>1, BlockRootType DEF Roots
<1> QED BY <1>1, <1>2 DEF BuildAttestation, Attestations, Checkpoints

\* So is any attestation of a Byzantine validator that is considered.
LEMMA AnyAttestationsType ==
  ASSUME TypeOK
  PROVE  AnyAttestations \subseteq Attestations
<1>1. current_epoch \in Nat /\ previous_epoch \in Nat
  BY EpochTypes DEF TypeOK
<1>2. /\ block_root(block_roots, current_epoch) \in Roots
      /\ block_root(block_roots, previous_epoch) \in Roots
      /\ ZeroHash \in Roots
  BY <1>1, BlockRootType DEF TypeOK, Roots
<1>3. Byzantine \subseteq Validators /\ 0 .. slot \subseteq Nat
  BY CasperAssumption DEF TypeOK
<1> QED BY <1>1, <1>2, <1>3 DEF AnyAttestations, Attestations, Checkpoints, TypeOK

LEMMA SlotsIInv == IInv /\ process_slots => IInv'
<1> SUFFICES ASSUME IInv, process_slots PROVE IInv'
  OBVIOUS
<1>1. /\ slot' = slot + 1 /\ block_roots' = RootsAfterSlot
      /\ UNCHANGED <<latest_block, slashed, chain>>
  BY DEF process_slots
<1>2. FFGTypes' /\ FFGInv'
  <2>1. CASE (slot + 1) % SlotsPerEpoch # 0
    <3>1. UNCHANGED ffg /\ current_epoch' = current_epoch
      BY <2>1, <1>1, EpochAfterSlot DEF process_slots, IInv, TypeOK
    <3>2. FFGTypes'
      BY <3>1 DEF IInv, TypeOK, FFGTypes, ffg
    <3> QED BY <3>1, <3>2, <1>1, SameEpochIInv
  <2>2. CASE (slot + 1) % SlotsPerEpoch = 0 /\ PastGenesis
    <3>1. Justify(RootsAfterSlot)
      BY <2>2 DEF process_slots, process_epoch, process_justification_and_finalization
    <3> QED BY <3>1, <2>2, <1>1, JustifyIInv
  <2>3. CASE (slot + 1) % SlotsPerEpoch = 0 /\ ~PastGenesis
    <3>1. UNCHANGED ffg
      BY <2>3 DEF process_slots, process_epoch, process_justification_and_finalization
    <3>2. FFGTypes'
      BY <3>1 DEF IInv, TypeOK, FFGTypes, ffg
    <3> QED BY <3>1, <3>2, <2>3, <1>1, GenesisEpochsIInv
  <2> QED BY <2>1, <2>2, <2>3
<1>3. TypeOK'
  <2>1. slot' \in Nat /\ latest_block' \in Nat /\ slashed' \subseteq Validators
        /\ chain' \subseteq Nat /\ latest_block \in Nat
    BY <1>1 DEF IInv, TypeOK
  <2>2. block_roots' \in [0 .. SlotsPerHistoricalRoot - 1 -> Roots]
    BY <1>1, RingAfterSlot DEF IInv
  <2>3. /\ current_epoch_attestations' \subseteq Attestations
        /\ previous_epoch_attestations' \subseteq Attestations
    BY DEF process_slots, process_epoch, RotateAttestations, attestations, IInv, TypeOK
  <2>4. signed' \subseteq Attestations
    <3>1. \A v \in Validators :
            BuildAttestation(v, slot', latest_block, block_roots', current_justified_checkpoint')
              \in Attestations
      BY <2>1, <2>2, <1>2, BuildAttestationType DEF FFGTypes
    <3>2. signed \subseteq Attestations
      BY DEF IInv, TypeOK
    <3> QED BY <3>1, <3>2 DEF process_slots
  <2> QED BY <2>1, <2>2, <2>3, <2>4, <1>2 DEF TypeOK, FFGTypes
<1> QED BY <1>2, <1>3 DEF IInv, FFGInv

\* The invariant is inductive.
LEMMA NextIInv == IInv /\ [Next]_vars => IInv'
<1> SUFFICES ASSUME IInv, [Next]_vars PROVE IInv'
  OBVIOUS
<1>1. ASSUME UNCHANGED <<slot, block_roots, ffg>>, TypeOK'
      PROVE  IInv'
  <2>1. current_epoch' = current_epoch
    BY <1>1 DEF current_epoch, epoch_of_slot
  <2> QED BY <1>1, <2>1, SameEpochIInv DEF IInv, FFGInv
<1>2. CASE process_slots
  BY <1>2, SlotsIInv
<1>3. CASE process_block_header
  <2>1. TypeOK'
    BY <1>3 DEF process_block_header, IInv, TypeOK, attestations, ffg
  <2> QED BY <1>1, <1>3, <2>1 DEF process_block_header
<1>4. ASSUME NEW a \in signed \cup AnyAttestations, process_attestation(a)
      PROVE  IInv'
  <2>1. a \in Attestations
    BY AnyAttestationsType DEF IInv, TypeOK
  <2>2. TypeOK'
    BY <1>4, <2>1 DEF process_attestation, IInv, TypeOK, ffg
  <2> QED BY <1>1, <1>4, <2>2 DEF process_attestation
<1>5. ASSUME NEW v \in Validators, slash_validator(v)
      PROVE  IInv'
  <2>1. TypeOK'
    BY <1>5 DEF slash_validator, IInv, TypeOK, attestations, ffg
  <2> QED BY <1>1, <1>5, <2>1 DEF slash_validator
<1>6. CASE UNCHANGED vars
  <2>1. TypeOK'
    BY <1>6 DEF IInv, TypeOK, vars, attestations, ffg
  <2> QED BY <1>1, <1>6, <2>1 DEF vars
<1> QED BY <1>2, <1>3, <1>4, <1>5, <1>6 DEF Next

-----------------------------------------------------------------------------
\* The inductive invariant holds throughout.
THEOREM Invariance == Spec => []IInv
<1> QED BY InitIInv, NextIInv, PTL DEF Spec

\* The variables of the chain state have their types.
THEOREM TypeCorrect == Spec => []TypeOK
<1>1. IInv => TypeOK
  BY DEF IInv
<1> QED BY <1>1, Invariance, PTL

\* The order of the checkpoints that the rewards, the activation queue and the
\* fork choice rely on; the finality delay of attestation_deltas never
\* underflows.
THEOREM OrderedCheckpoints == Spec => []CheckpointOrder
<1>1. IInv => CheckpointOrder
  BY DEF IInv
<1> QED BY <1>1, Invariance, PTL

\* The justification bits are a faithful summary of the last four epochs.
THEOREM FaithfulBits == Spec => []BitsMatchHistory
<1>1. IInv => BitsMatchHistory
  BY DEF IInv
<1> QED BY <1>1, Invariance, PTL

\* The current justified checkpoint is the youngest one ever justified.
THEOREM YoungestJustified == Spec => []LatestJustified
<1>1. IInv => LatestJustified
  BY DEF IInv
<1> QED BY <1>1, Invariance, PTL

\* No finalization rule fires without a justified child of the checkpoint.
THEOREM FinalizationJustified == Spec => []FinalizedHasJustifiedChild
<1>1. IInv => FinalizedHasJustifiedChild
  BY DEF IInv
<1> QED BY <1>1, Invariance, PTL

\* A step within an epoch leaves the finality state alone, and so does one that
\* closes one of the first two epochs; any other closes an epoch with Justify.
LEMMA FinalityStep ==
  ASSUME IInv, [Next]_vars
  PROVE  \/ UNCHANGED ffg /\ current_epoch' = current_epoch
         \/ UNCHANGED ffg /\ current_epoch' = current_epoch + 1 /\ ~PastGenesis
         \/ Justify(RootsAfterSlot) /\ current_epoch' = current_epoch + 1 /\ PastGenesis
<1>1. CASE process_slots
  <2>1. current_epoch' = IF (slot + 1) % SlotsPerEpoch = 0
                         THEN current_epoch + 1 ELSE current_epoch
    BY <1>1, EpochAfterSlot DEF process_slots, IInv, TypeOK
  <2> QED BY <1>1, <2>1 DEF process_slots, process_epoch,
             process_justification_and_finalization
<1>2. ASSUME UNCHANGED <<slot, ffg>>
      PROVE  UNCHANGED ffg /\ current_epoch' = current_epoch
  BY <1>2 DEF current_epoch, epoch_of_slot
<1>3. CASE process_block_header
  BY <1>3, <1>2 DEF process_block_header
<1>4. CASE \E a \in signed \cup AnyAttestations : process_attestation(a)
  BY <1>4, <1>2 DEF process_attestation
<1>5. CASE \E v \in Validators : slash_validator(v)
  BY <1>5, <1>2 DEF slash_validator
<1>6. CASE UNCHANGED vars
  BY <1>6, <1>2 DEF vars
<1> QED BY <1>1, <1>3, <1>4, <1>5, <1>6 DEF Next

\* Finality is never taken back, not even to another root of the same epoch.
LEMMA FinalityAdvances ==
  ASSUME IInv, [Next]_vars
  PROVE  \/ finalized_checkpoint' = finalized_checkpoint
         \/ finalized_checkpoint'.epoch > finalized_checkpoint.epoch
<1>1. CASE UNCHANGED ffg
  BY <1>1 DEF ffg
<1>2. CASE Justify(RootsAfterSlot)
  <2>1. finalized_checkpoint' \in {finalized_checkpoint, previous_justified_checkpoint,
                                   current_justified_checkpoint}
    BY <1>2 DEF Justify, FinalizedCheckpoint
  <2>2. /\ finalized_checkpoint.epoch \in Nat
        /\ previous_justified_checkpoint.epoch \in Nat
        /\ current_justified_checkpoint.epoch \in Nat
    BY DEF IInv, TypeOK, Checkpoints
  <2> QED BY <2>1, <2>2 DEF IInv, CheckpointOrder, SameEpochSame
<1> QED BY <1>1, <1>2, FinalityStep

\* The same of every behaviour of the chain.
THEOREM MonotoneFinality ==
  Spec => [][\/ finalized_checkpoint' = finalized_checkpoint
             \/ finalized_checkpoint'.epoch > finalized_checkpoint.epoch]_vars
<1> QED BY FinalityAdvances, Invariance, PTL DEF Spec

\* The chain implements the abstract Casper FFG: its genesis state is the
\* abstract one, closing an epoch closes the abstract epoch, and every other
\* step is a stutter there.
THEOREM Refinement == Spec => ImplementsFFG
<1>1. Init => FFGPromise!Init
  <2> SUFFICES ASSUME Init PROVE FFGPromise!Init
    OBVIOUS
  <2>1. current_epoch = 0
    BY InitEpoch
  <2> QED BY <2>1 DEF Init, FFGPromise!Init
<1>2. ASSUME IInv, IInv', [Next]_vars
      PROVE  [FFGPromise!CloseEpoch]_FFGPromise!vars
  <2>e. /\ current_epoch \in Nat
        /\ current_epoch > 0 => previous_epoch = current_epoch - 1
    BY <1>2, EpochTypes DEF IInv, TypeOK
  <2>o. FFGPromise!OnePerEpoch(justified')
    BY <1>2 DEF IInv, OneJustifiedPerEpoch, FFGPromise!OnePerEpoch
  <2>1. CASE UNCHANGED ffg /\ current_epoch' = current_epoch
    BY <2>1 DEF ffg, FFGPromise!vars
  <2>2. CASE UNCHANGED ffg /\ current_epoch' = current_epoch + 1
    <3>1. justified' = justified /\ finalized_checkpoint' = finalized_checkpoint
      BY <2>2 DEF ffg
    <3> QED BY <2>2, <2>o, <3>1 DEF FFGPromise!CloseEpoch, FFGPromise!Justify
  <2>3. CASE /\ Justify(RootsAfterSlot) /\ current_epoch' = current_epoch + 1
             /\ PastGenesis
    <3> DEFINE e == current_epoch
    <3>1. \A c \in justified' \ justified : c.epoch \in {e - 1, e} \ {0}
      BY <2>3, <2>e DEF Justify, PastGenesis
    <3>2. justified \subseteq justified'
      BY <2>3 DEF Justify
    <3>3. FFGPromise!Justify
      BY <3>1, <3>2, <2>o DEF FFGPromise!Justify
    <3>4. CASE finalized_checkpoint' = finalized_checkpoint
      BY <2>3, <3>3, <3>4 DEF FFGPromise!CloseEpoch
    <3>5. CASE finalized_checkpoint' # finalized_checkpoint
      <4>1. finalized_checkpoint'.epoch > finalized_checkpoint.epoch
        BY <1>2, <3>5, FinalityAdvances
      <4>2. finalized_checkpoint' # GenesisCheckpoint
        BY <1>2, <4>1 DEF IInv, TypeOK, Checkpoints, GenesisCheckpoint
      <4>3. /\ finalized_checkpoint' \in justified'
            /\ FFGPromise!FollowedByJustified(finalized_checkpoint', justified')
        BY <1>2, <4>2 DEF IInv, FinalizedHasJustifiedChild, GenesisCheckpoint,
                          FFGPromise!FollowedByJustified
      <4> QED BY <4>1, <4>3, <3>3, <2>3
              DEF FFGPromise!CloseEpoch, FFGPromise!Finalize
    <3> QED BY <3>4, <3>5
  <2> QED BY <1>2, <2>1, <2>2, <2>3, FinalityStep
<1> QED BY <1>1, <1>2, Invariance, PTL DEF Spec, ImplementsFFG, FFGPromise!Spec

\* Two epochs in a row justified in time finalize the first of them.
THEOREM PromptFinalization == Spec => PromptFinality
<1>1. ASSUME IInv, [Next]_vars, current_epoch' # current_epoch,
             justification_bits[0], justification_bits'[0]
      PROVE  finalized_checkpoint'.epoch = current_epoch - 1
  <2> DEFINE e == current_epoch
             cur == current_justified_checkpoint
             jp == IsJustifiable(RootsAfterSlot, previous_epoch)
             jc == IsJustifiable(RootsAfterSlot, e)
  <2>1. e \in Nat /\ (e = 0 => previous_epoch = 0) /\ (e > 0 => previous_epoch = e - 1)
    BY <1>1, EpochTypes DEF IInv, TypeOK
  <2>2. PICK c \in justified : c.epoch = e - 1
    BY <1>1, <2>1 DEF IInv, BitsMatchHistory, BitIndex
  <2>3. cur.epoch \in Nat /\ c.epoch \in Nat /\ c.epoch >= 1
    BY <1>1 DEF IInv, TypeOK, Checkpoints, JustifiedEpochs
  <2>4. cur.epoch = e - 1 /\ e > 1
    BY <1>1, <2>1, <2>2, <2>3 DEF IInv, LatestJustified, CheckpointOrder
  <2>5. Justify(RootsAfterSlot)
    BY <1>1, <2>4, FinalityStep DEF PastGenesis
  <2>6. justification_bits' = ShiftBits(justification_bits, jp, jc)
    BY <2>5 DEF Justify
  <2>7. justification_bits'[1]
    <3>1. jp \in BOOLEAN /\ jc \in BOOLEAN
          /\ justification_bits \in [BitIndex -> BOOLEAN]
      BY <1>1 DEF IsJustifiable, IsSupermajority, IInv, TypeOK
    <3> HIDE DEF jp, jc
    <3> QED BY <1>1, <2>6, <3>1 DEF ShiftBits, BitIndex
  <2>8. Rule12(justification_bits', cur, e)
    BY <1>1, <2>1, <2>3, <2>4, <2>7 DEF Rule12
  <2>9. finalized_checkpoint' = cur
    BY <2>5, <2>6, <2>8 DEF Justify, FinalizedCheckpoint
  <2> QED BY <2>4, <2>9
<1> QED BY <1>1, Invariance, PTL DEF Spec, PromptFinality

=============================================================================
