--------------------------- MODULE CanonicalProofs ---------------------------
(***************************************************************************)
(* Every checkpoint of Casper names the last block of the chain at the     *)
(* start of its epoch: block_root_at_slot never returns an entry of the    *)
(* ring buffer that was overwritten or is not yet written.                 *)
(***************************************************************************)
EXTENDS CasperProofs

\* r is the last block of the chain at or before slot s.
IsLastBlock(r, s) ==
  /\ r \in chain
  /\ r <= s
  /\ \A b \in chain : b <= s => b <= r

\* The chain ends with the latest block, which is not in the future.
ChainEnd ==
  /\ latest_block \in chain
  /\ latest_block <= slot
  /\ \A b \in chain : b <= latest_block

\* The ring has the root of the last block for each of the slots that
\* block_root_at_slot accepts.
RingInv ==
  \A s \in Nat :
    InHistory(s) => IsLastBlock(block_roots[s % SlotsPerHistoricalRoot], s)

\* The checkpoint c is canonical, and its epoch has begun.
IsCanonical(c) ==
  \/ c = GenesisCheckpoint
  \/ start_slot_of_epoch(c.epoch) < slot /\ IsLastBlock(c.root, start_slot_of_epoch(c.epoch))

CanonicalInv ==
  /\ ChainEnd
  /\ RingInv
  /\ \A c \in justified : IsCanonical(c)

-----------------------------------------------------------------------------
\* The last block is what CheckpointsCanonical takes the maximum for.
LEMMA LastBlockIsMax ==
  ASSUME NEW r, NEW s \in Nat, chain \subseteq Nat, IsLastBlock(r, s)
  PROVE  r = Max({b \in chain : b <= s})
<1> DEFINE S == {b \in chain : b <= s}
           m == CHOOSE x \in S : \A y \in S : x >= y
<1>1. r \in S /\ \A y \in S : r >= y
  BY DEF IsLastBlock
<1>2. m \in S /\ \A y \in S : m >= y
  BY <1>1
<1>3. \A x \in S : x \in Nat
  OBVIOUS
<1>4. m = r
  <2> HIDE DEF S, m
  <2> QED BY <1>1, <1>2, <1>3
<1> QED BY <1>4 DEF Max

\* The chain starts with the genesis block, an empty ring and no checkpoint.
LEMMA InitCanonical == Init => CanonicalInv
<1> SUFFICES ASSUME Init PROVE CanonicalInv
  OBVIOUS
<1>1. ChainEnd
  BY DEF Init, ChainEnd
<1>2. RingInv
  BY DEF Init, RingInv, InHistory
<1> QED BY <1>1, <1>2 DEF Init, CanonicalInv

\* A step that adds no block but the one of the current slot leaves the last
\* block of every earlier slot as it is.
LEMMA LastBlockStays ==
  ASSUME slot \in Nat, chain \subseteq Nat, chain' \in {chain, chain \cup {slot}},
         NEW r, NEW s \in Nat, s < slot, IsLastBlock(r, s)
  PROVE  IsLastBlock(r, s)'
BY DEF IsLastBlock

\* Once canonical, a checkpoint stays so.
LEMMA CanonicalStays ==
  ASSUME TypeOK, chain' \in {chain, chain \cup {slot}}, slot' \in {slot, slot + 1},
         NEW c \in Checkpoints, IsCanonical(c)
  PROVE  IsCanonical(c)'
<1>1. slot \in Nat /\ chain \subseteq Nat /\ start_slot_of_epoch(c.epoch) \in Nat
  BY CasperAssumption DEF TypeOK, Checkpoints, start_slot_of_epoch
<1>2. CASE c = GenesisCheckpoint
  BY <1>2 DEF IsCanonical, GenesisCheckpoint
<1>3. CASE /\ start_slot_of_epoch(c.epoch) < slot
           /\ IsLastBlock(c.root, start_slot_of_epoch(c.epoch))
  <2> DEFINE s == start_slot_of_epoch(c.epoch)
  <2>1. s < slot'
    BY <1>1, <1>3
  <2>2. IsLastBlock(c.root, s)'
    <3> HIDE DEF s
    <3> QED BY <1>1, <1>3, LastBlockStays DEF s
  <2> QED BY <2>1, <2>2 DEF IsCanonical, start_slot_of_epoch
<1> QED BY <1>2, <1>3 DEF IsCanonical

\* One turn of process_slots writes the entry of the slot that ends, and the
\* entries still accepted keep theirs.
LEMMA SlotsRing ==
  ASSUME TypeOK, ChainEnd, RingInv, slot' = slot + 1, block_roots' = RootsAfterSlot,
         chain' = chain
  PROVE  RingInv'
<1>1. slot \in Nat /\ SlotsPerHistoricalRoot \in Nat \ {0} /\ chain \subseteq Nat
      /\ latest_block \in Nat
  BY CasperAssumption DEF TypeOK
<1> SUFFICES ASSUME NEW s \in Nat, s < slot + 1, slot + 1 <= s + SlotsPerHistoricalRoot
             PROVE  IsLastBlock(RootsAfterSlot[s % SlotsPerHistoricalRoot], s)
  BY DEF RingInv, InHistory, IsLastBlock
<1>2. /\ s % SlotsPerHistoricalRoot \in 0 .. SlotsPerHistoricalRoot - 1
      /\ slot % SlotsPerHistoricalRoot \in 0 .. SlotsPerHistoricalRoot - 1
  BY <1>1, QuotientRemainder
<1>3. CASE s = slot
  <2>1. RootsAfterSlot[s % SlotsPerHistoricalRoot] = latest_block
    BY <1>2, <1>3 DEF RootsAfterSlot, TypeOK
  <2> QED BY <2>1, <1>1, <1>3 DEF ChainEnd, IsLastBlock
<1>4. CASE s < slot
  <2>1. s % SlotsPerHistoricalRoot # slot % SlotsPerHistoricalRoot
    <3>1. slot < s + SlotsPerHistoricalRoot
      BY <1>1
    <3> QED BY <3>1, <1>1, <1>4, DistinctPositions
  <2>2. RootsAfterSlot[s % SlotsPerHistoricalRoot] = block_roots[s % SlotsPerHistoricalRoot]
    BY <1>2, <2>1 DEF RootsAfterSlot, TypeOK
  <2>3. InHistory(s)
    BY <1>1, <1>4 DEF InHistory
  <2> QED BY <2>2, <2>3 DEF RingInv
<1> QED BY <1>1, <1>3, <1>4

\* The two checkpoints of a closing epoch are read from entries that
\* block_root_at_slot accepts.
LEMMA ClosingEpochs ==
  ASSUME slot \in Nat, current_epoch >= 1, slot' = slot + 1,
         NEW e \in {current_epoch - 1, current_epoch}
  PROVE  /\ start_slot_of_epoch(e) \in Nat
         /\ start_slot_of_epoch(e) < slot + 1
         /\ slot + 1 <= start_slot_of_epoch(e) + SlotsPerHistoricalRoot
<1>1. SlotsPerEpoch \in Nat \ {0, 1} /\ SlotsPerHistoricalRoot \in Nat
      /\ SlotsPerHistoricalRoot >= 2 * SlotsPerEpoch /\ current_epoch \in Nat
  BY CasperAssumption, EpochTypes
<1>2. CASE e = current_epoch
  <2>1. e * SlotsPerEpoch \in Nat /\ e * SlotsPerEpoch <= slot
        /\ slot < e * SlotsPerEpoch + SlotsPerEpoch
    BY <1>1, <1>2, EpochStart DEF current_epoch, epoch_of_slot
  <2> QED BY <2>1, <1>1 DEF start_slot_of_epoch
<1>3. CASE e = current_epoch - 1
  <2>1. e \in Nat /\ start_slot_of_epoch(e) \in Nat
    BY <1>1, <1>3 DEF start_slot_of_epoch
  <2> QED BY <2>1, <1>1, <1>3, PreviousEpochInRing
<1> QED BY <1>2, <1>3

\* So what is justified when an epoch closes is canonical.
LEMMA JustifyCanonical ==
  ASSUME TypeOK, PastGenesis, Justify(RootsAfterSlot), RingInv',
         slot' = slot + 1, block_roots' = RootsAfterSlot,
         NEW c \in justified' \ justified
  PROVE  IsCanonical(c)'
<1>1. slot \in Nat /\ current_epoch \in Nat /\ current_epoch >= 1
      /\ previous_epoch = current_epoch - 1
  BY EpochTypes DEF TypeOK, PastGenesis
<1>2. PICK e \in {current_epoch - 1, current_epoch} :
        c = [epoch |-> e, root |-> block_root(RootsAfterSlot, e)]
  BY <1>1 DEF Justify
<1> DEFINE s == start_slot_of_epoch(e)
<1>3. s \in Nat /\ s < slot' /\ slot' <= s + SlotsPerHistoricalRoot
  BY <1>1, ClosingEpochs
<1>4. IsLastBlock(block_roots[s % SlotsPerHistoricalRoot], s)'
  <2> HIDE DEF s
  <2> QED BY <1>3 DEF RingInv, InHistory, IsLastBlock
<1>5. c.epoch = e /\ c.root = block_roots'[s % SlotsPerHistoricalRoot]
  BY <1>2 DEF block_root
<1> QED BY <1>3, <1>4, <1>5 DEF IsCanonical, start_slot_of_epoch, IsLastBlock

-----------------------------------------------------------------------------
\* One turn of process_slots, with or without the end of an epoch.
LEMMA SlotsCanonical == IInv /\ CanonicalInv /\ process_slots => CanonicalInv'
<1> SUFFICES ASSUME IInv, CanonicalInv, process_slots PROVE CanonicalInv'
  OBVIOUS
<1>1. /\ slot' = slot + 1 /\ block_roots' = RootsAfterSlot
      /\ chain' = chain /\ latest_block' = latest_block
  BY DEF process_slots
<1>2. TypeOK /\ ChainEnd /\ RingInv
  BY DEF IInv, CanonicalInv
<1>3. ChainEnd'
  BY <1>1, <1>2 DEF ChainEnd, TypeOK
<1>4. RingInv'
  BY <1>1, <1>2, SlotsRing
<1>5. ASSUME NEW c \in justified PROVE IsCanonical(c)'
  <2>1. c \in Checkpoints /\ IsCanonical(c)
    BY <1>2 DEF TypeOK, CanonicalInv
  <2> QED BY <2>1, <1>1, <1>2, CanonicalStays
<1>6. ASSUME NEW c \in justified' \ justified PROVE IsCanonical(c)'
  <2>1. PastGenesis /\ Justify(RootsAfterSlot)
    BY <1>6 DEF process_slots, process_epoch, process_justification_and_finalization, ffg
  <2> QED BY <2>1, <1>1, <1>2, <1>4, <1>6, JustifyCanonical
<1> QED BY <1>3, <1>4, <1>5, <1>6 DEF CanonicalInv

\* A new block is younger than every slot whose root is in the ring.
LEMMA HeaderCanonical == IInv /\ CanonicalInv /\ process_block_header => CanonicalInv'
<1> SUFFICES ASSUME IInv, CanonicalInv, process_block_header PROVE CanonicalInv'
  OBVIOUS
<1>1. /\ latest_block < slot /\ latest_block' = slot /\ chain' = chain \cup {slot}
      /\ slot' = slot /\ block_roots' = block_roots /\ justified' = justified
  BY DEF process_block_header, ffg
<1>2. TypeOK /\ ChainEnd /\ RingInv /\ slot \in Nat /\ chain \subseteq Nat
      /\ latest_block \in Nat
  BY DEF IInv, CanonicalInv, TypeOK
<1>3. ChainEnd'
  BY <1>1, <1>2 DEF ChainEnd
<1>4. RingInv'
  <2> SUFFICES ASSUME NEW s \in Nat, InHistory(s)
               PROVE  IsLastBlock(block_roots[s % SlotsPerHistoricalRoot], s)'
    BY <1>1 DEF RingInv, InHistory
  <2> DEFINE r == block_roots[s % SlotsPerHistoricalRoot]
  <2>1. IsLastBlock(r, s) /\ s < slot
    BY <1>2 DEF RingInv, InHistory
  <2>2. r' = r
    BY <1>1
  <2> QED BY <2>1, <2>2, <1>1, <1>2 DEF IsLastBlock
<1>5. ASSUME NEW c \in justified' PROVE IsCanonical(c)'
  <2>1. c \in Checkpoints /\ IsCanonical(c)
    BY <1>1, <1>2 DEF TypeOK, CanonicalInv
  <2> QED BY <2>1, <1>1, <1>2, CanonicalStays
<1> QED BY <1>3, <1>4, <1>5 DEF CanonicalInv

\* The invariant of the ring and the chain is inductive, given that of Casper.
LEMMA NextCanonical == IInv /\ CanonicalInv /\ [Next]_vars => CanonicalInv'
<1> SUFFICES ASSUME IInv, CanonicalInv, [Next]_vars PROVE CanonicalInv'
  OBVIOUS
<1>1. ASSUME UNCHANGED <<slot, latest_block, block_roots, chain, justified>>
      PROVE  CanonicalInv'
  BY <1>1 DEF CanonicalInv, ChainEnd, RingInv, InHistory, IsCanonical, IsLastBlock,
              GenesisCheckpoint, start_slot_of_epoch
<1>2. CASE process_slots
  BY <1>2, SlotsCanonical
<1>3. CASE process_block_header
  BY <1>3, HeaderCanonical
<1>4. CASE \E a \in signed \cup AnyAttestations : process_attestation(a)
  BY <1>1, <1>4 DEF process_attestation, ffg
<1>5. CASE \E v \in Validators : slash_validator(v)
  BY <1>1, <1>5 DEF slash_validator, ffg
<1>6. CASE UNCHANGED vars
  BY <1>1, <1>6 DEF vars, ffg
<1> QED BY <1>2, <1>3, <1>4, <1>5, <1>6 DEF Next

\* Whatever is justified or finalized names the last block at the start of its
\* epoch, for a ring of two epochs or more.
THEOREM CanonicalCheckpoints == Spec => []CheckpointsCanonical
<1>1. ASSUME IInv, CanonicalInv
      PROVE  CheckpointsCanonical
  <2> SUFFICES ASSUME NEW c \in justified \cup {current_justified_checkpoint,
                                  previous_justified_checkpoint, finalized_checkpoint},
                      c # GenesisCheckpoint
               PROVE  c.root = Max({b \in chain : b <= start_slot_of_epoch(c.epoch)})
    BY DEF CheckpointsCanonical
  <2>1. c \in justified
    BY <1>1 DEF IInv, JustifiedEpochs, FinalizedHasJustifiedChild
  <2>2. c \in Checkpoints /\ chain \subseteq Nat
    BY <1>1, <2>1 DEF IInv, TypeOK
  <2>3. start_slot_of_epoch(c.epoch) \in Nat
    BY <2>2, CasperAssumption DEF Checkpoints, start_slot_of_epoch
  <2>4. IsLastBlock(c.root, start_slot_of_epoch(c.epoch))
    BY <1>1, <2>1 DEF CanonicalInv, IsCanonical
  <2> QED BY <2>2, <2>3, <2>4, LastBlockIsMax
<1> QED BY <1>1, InitCanonical, NextCanonical, Invariance, PTL DEF Spec

=============================================================================
