------------------------------- MODULE Casper --------------------------------
(***************************************************************************)
(* Casper FFG as it runs inside the beacon state transition of one chain:  *)
(* slots and epochs advance (executive/transition/mod.rs), blocks carry    *)
(* attestations (per_block/operations/attestation.rs), and the last slot   *)
(* of an epoch justifies and finalizes checkpoints (per_epoch).            *)
(* Validators that run this client attest as main.rs builder_thread does.  *)
(*                                                                         *)
(* Data abstractions.  A block is named by its slot, which is unique on a  *)
(* chain, and that name stands for its root.  An attestation stands for    *)
(* one bit of an aggregate: one validator's vote.  The active set is       *)
(* fixed here (the registry changes it, see Registry).                     *)
(***************************************************************************)
EXTENDS Integers, FiniteSets, FiniteSetsExt, Justifier

CONSTANTS
  Validators,               \* the active validators
  EffectiveBalance,         \* [Validators -> Nat], in increments
  Duty,                     \* epoch -> [Validators -> slot in the epoch of its committee]
  SlotsPerEpoch,
  SlotsPerHistoricalRoot,
  MinAttestationInclusionDelay,
  Byzantine,                \* validators that may sign any attestation
  SkipSlots,                \* bound: slots at which no block may be proposed
  MaxSlashed,               \* bound: how many validators get slashed
  MaxSlot                   \* bound: last slot

ASSUME CasperAssumption ==
  /\ SlotsPerEpoch \in Nat \ {0, 1}
  /\ SlotsPerHistoricalRoot \in Nat
  /\ SlotsPerHistoricalRoot >= 2 * SlotsPerEpoch
  /\ MinAttestationInclusionDelay \in Nat \ {0}
  /\ IsFiniteSet(Validators)
  /\ EffectiveBalance \in [Validators -> Nat]
  /\ Duty \in [0 .. MaxSlot \div SlotsPerEpoch -> [Validators -> 0 .. SlotsPerEpoch - 1]]
  /\ Byzantine \subseteq Validators
  /\ MaxSlot \in Nat
  /\ MaxSlashed \in Nat

VARIABLES
  slot,
  latest_block,                   \* latest_block_header, by its slot
  block_roots,                    \* ring buffer of block roots
  current_epoch_attestations,
  previous_epoch_attestations,
  justification_bits,
  current_justified_checkpoint,
  previous_justified_checkpoint,
  finalized_checkpoint,
  slashed,                        \* the validators whose slashed flag is set
  signed,                         \* attestations in the pools, not too old
  chain,                          \* history: slots of the blocks of the chain
  justified                       \* history: checkpoints ever justified

ffg == <<justification_bits, current_justified_checkpoint,
         previous_justified_checkpoint, finalized_checkpoint, justified>>
attestations == <<current_epoch_attestations, previous_epoch_attestations>>
vars == <<slot, latest_block, block_roots, attestations, ffg, slashed, signed,
          chain>>

-----------------------------------------------------------------------------
\* H256::default(): the root of the genesis checkpoint, and of no block.
ZeroHash == -1

Roots == Nat \cup {ZeroHash}
Checkpoints == [epoch : Nat, root : Roots]
Attestations == [validator : Validators, slot : Nat,
                 source : Checkpoints, target : Checkpoints]

GenesisCheckpoint == [epoch |-> 0, root |-> ZeroHash]

epoch_of_slot(s) == s \div SlotsPerEpoch
start_slot_of_epoch(e) == e * SlotsPerEpoch

\* beacon_committee: every epoch shuffles the validators over its slots.
InCommittee(v, s) == Duty[epoch_of_slot(s)][v] = s % SlotsPerEpoch

current_epoch == epoch_of_slot(slot)
previous_epoch == IF current_epoch = 0 THEN 0 ELSE current_epoch - 1

\* block_root_at_slot, when its range check succeeds, on the ring `roots'.
InHistory(s) == s < slot /\ slot <= s + SlotsPerHistoricalRoot
block_root(roots, e) == roots[start_slot_of_epoch(e) % SlotsPerHistoricalRoot]

\* The ring after process_slot.  Faulty variants first: no wrap-around, one
\* slot late.
RootsGrowing ==
  [i \in DOMAIN block_roots \cup {slot} |->
     IF i = slot THEN latest_block ELSE block_roots[i]]
RootsOneLate == [block_roots EXCEPT ![(slot + 1) % SlotsPerHistoricalRoot] = latest_block]
RootsAfterSlot == [block_roots EXCEPT ![slot % SlotsPerHistoricalRoot] = latest_block]

\* total_balance: never less than 1.
total_balance(vs) ==
  LET sum == MapThenSumSet(LAMBDA v : EffectiveBalance[v], vs)
  IN IF sum >= 1 THEN sum ELSE 1

matching_source_attestations(e) ==
  IF e = current_epoch THEN current_epoch_attestations
  ELSE previous_epoch_attestations

\* unslashed_attesting_indices of the attestations with a matching target.
attesting_indices(roots, e) ==
  {v \in Validators \ slashed :
     \E a \in matching_source_attestations(e) :
       a.validator = v /\ a.target.root = block_root(roots, e)}

attesting_target_balance(roots, e) == total_balance(attesting_indices(roots, e))

IsJustifiable(roots, e) ==
  IsSupermajority(attesting_target_balance(roots, e), total_balance(Validators))

-----------------------------------------------------------------------------
\* process_final_updates: the closing epoch's attestations become the
\* previous ones.
RotateAttestations ==
  /\ previous_epoch_attestations' = current_epoch_attestations
  /\ current_epoch_attestations' = {}

\* What becomes the previous justified checkpoint.  Faulty variant first.
NotSaved == previous_justified_checkpoint
SavedCheckpoint == current_justified_checkpoint

\* Justifier::process on the state.
Justify(roots) ==
  LET cur == [epoch |-> current_epoch, root |-> block_root(roots, current_epoch)]
      prev == [epoch |-> previous_epoch, root |-> block_root(roots, previous_epoch)]
      jp == IsJustifiable(roots, previous_epoch)
      jc == IsJustifiable(roots, current_epoch)
      bits == ShiftBits(justification_bits, jp, jc)
  IN /\ justification_bits' = bits
     /\ previous_justified_checkpoint' = SavedCheckpoint
     /\ current_justified_checkpoint' =
          JustifiedCheckpoint(current_justified_checkpoint, prev, cur, jp, jc)
     /\ finalized_checkpoint' =
          FinalizedCheckpoint(bits, previous_justified_checkpoint,
                              current_justified_checkpoint, current_epoch,
                              finalized_checkpoint)
     /\ justified' = justified \cup {c \in {prev} : jp} \cup {c \in {cur} : jc}

\* Nothing is justified while the chain is in its first two epochs.
PastGenesis == current_epoch > 1

process_justification_and_finalization(roots) ==
  IF PastGenesis
  THEN /\ InHistory(start_slot_of_epoch(previous_epoch))
       /\ InHistory(start_slot_of_epoch(current_epoch))
       /\ Justify(roots)
  ELSE UNCHANGED ffg

process_epoch(roots) ==
  /\ process_justification_and_finalization(roots)
  /\ RotateAttestations

\* The attestation builder_thread makes for validator v once its state has
\* been advanced to slot s; `head' is the head block, older than s.
BuildAttestation(v, s, head, roots, source) ==
  [validator |-> v,
   slot |-> s,
   source |-> source,
   target |-> [epoch |-> epoch_of_slot(s),
               root |-> IF start_slot_of_epoch(epoch_of_slot(s)) = s THEN head
                        ELSE block_root(roots, epoch_of_slot(s))]]

-----------------------------------------------------------------------------
Init ==
  /\ slot = 0
  /\ latest_block = 0
  /\ block_roots = [i \in 0 .. SlotsPerHistoricalRoot - 1 |-> ZeroHash]
  /\ current_epoch_attestations = {}
  /\ previous_epoch_attestations = {}
  /\ justification_bits = [i \in BitIndex |-> FALSE]
  /\ current_justified_checkpoint = GenesisCheckpoint
  /\ previous_justified_checkpoint = GenesisCheckpoint
  /\ finalized_checkpoint = GenesisCheckpoint
  /\ slashed = {}
  /\ signed = {}
  /\ chain = {0}
  /\ justified = {}

\* One turn of the loop of process_slots, with or without a block at the slot
\* that ends.  If its block is the head, builder_thread works on the new slot and
\* the committee of that slot signs its attestations; those too old for
\* process_attestation are forgotten.
process_slots ==
  /\ slot < MaxSlot
  /\ latest_block = slot \/ slot \in SkipSlots
  /\ slot' = slot + 1
  /\ block_roots' = RootsAfterSlot
  /\ IF (slot + 1) % SlotsPerEpoch = 0
     THEN process_epoch(RootsAfterSlot)
     ELSE UNCHANGED <<attestations, ffg>>
  /\ signed' =
       {a \in signed : slot' <= a.slot + SlotsPerEpoch} \cup
       {BuildAttestation(v, slot', latest_block, block_roots', current_justified_checkpoint') :
          v \in {w \in Validators : latest_block = slot /\ InCommittee(w, slot')}}
  /\ UNCHANGED <<latest_block, slashed, chain>>

\* process_block_header: at most one block per slot.  A second one at the same
\* slot fails the parent root check, because the state root of the latest
\* header is only filled in by process_slot.
process_block_header ==
  /\ latest_block < slot
  /\ latest_block' = slot
  /\ chain' = chain \cup {slot}
  /\ UNCHANGED <<slot, block_roots, attestations, ffg, slashed, signed>>

\* What a validator of Byzantine may sign: its committee's slot is checked, but
\* neither the target root nor that the target epoch is the epoch of the slot.
AnyAttestations ==
  [validator : Byzantine,
   slot : {s \in 0 .. slot : slot <= s + SlotsPerEpoch},
   source : {current_justified_checkpoint, previous_justified_checkpoint,
             finalized_checkpoint},
   target : [epoch : {current_epoch, previous_epoch},
             root : {ZeroHash, block_root(block_roots, current_epoch),
                     block_root(block_roots, previous_epoch)}]]

process_attestation(a) ==
  /\ latest_block = slot
  /\ InCommittee(a.validator, a.slot)
  /\ a.target.epoch \in {current_epoch, previous_epoch}
  /\ a.slot + MinAttestationInclusionDelay <= slot
  /\ slot <= a.slot + SlotsPerEpoch
  /\ IF a.target.epoch = current_epoch
     THEN /\ a.source = current_justified_checkpoint
          /\ current_epoch_attestations' = current_epoch_attestations \cup {a}
          /\ UNCHANGED previous_epoch_attestations
     ELSE /\ previous_epoch_attestations' = previous_epoch_attestations \cup {a}
          /\ UNCHANGED current_epoch_attestations
  /\ UNCHANGED <<slot, latest_block, block_roots, ffg, slashed, signed, chain>>

\* slash_validator, seen from here: the flag that takes the validator's weight
\* out of every later count.
slash_validator(v) ==
  /\ latest_block = slot
  /\ v \notin slashed
  /\ Cardinality(slashed) < MaxSlashed
  /\ slashed' = slashed \cup {v}
  /\ UNCHANGED <<slot, latest_block, block_roots, attestations, ffg, signed, chain>>

Next ==
  \/ process_slots
  \/ process_block_header
  \/ \E a \in signed \cup AnyAttestations : process_attestation(a)
  \/ \E v \in Validators : slash_validator(v)

Spec == Init /\ [][Next]_vars
-----------------------------------------------------------------------------

\* Types of the state variables.
TypeOK ==
  /\ slot \in Nat
  /\ latest_block \in Nat
  /\ block_roots \in [0 .. SlotsPerHistoricalRoot - 1 -> Roots]
  /\ current_epoch_attestations \subseteq Attestations
  /\ previous_epoch_attestations \subseteq Attestations
  /\ justification_bits \in [BitIndex -> BOOLEAN]
  /\ current_justified_checkpoint \in Checkpoints
  /\ previous_justified_checkpoint \in Checkpoints
  /\ finalized_checkpoint \in Checkpoints
  /\ slashed \subseteq Validators
  /\ signed \subseteq Attestations
  /\ chain \subseteq Nat
  /\ justified \subseteq Checkpoints

\* The epochs of the checkpoints are ordered: finalized, previous justified,
\* current justified, all before the current epoch, and a finalized epoch is
\* followed by one that closed before the current one began.  The inactivity
\* penalty relies on it (attestation_deltas subtracts the finalized epoch from
\* the previous one in unsigned arithmetic), and so do the activation queue
\* and the fork choice.
CheckpointOrder ==
  /\ finalized_checkpoint.epoch <= previous_justified_checkpoint.epoch
  /\ previous_justified_checkpoint.epoch <= current_justified_checkpoint.epoch
  /\ current_justified_checkpoint.epoch <= previous_epoch
  /\ finalized_checkpoint.epoch = 0 \/ finalized_checkpoint.epoch + 2 <= current_epoch

\* The justification bits say exactly which of the last four closed epochs
\* were ever justified, in time or one epoch late, whatever happened to the
\* weight of their voters since.
BitsMatchHistory ==
  \A i \in BitIndex :
    justification_bits[i] <=> \E c \in justified : c.epoch = current_epoch - 1 - i

\* Every checkpoint names the last block of the chain at or before the start of
\* its epoch: reading the ring buffer of block roots never returns an entry
\* that was overwritten or not yet written.
CheckpointsCanonical ==
  \A c \in justified \cup {current_justified_checkpoint,
                          previous_justified_checkpoint, finalized_checkpoint} :
    \/ c = GenesisCheckpoint
    \/ c.root = Max({b \in chain : b <= start_slot_of_epoch(c.epoch)})

\* "Get attestations with matching source at given epoch"
\* (per_epoch/helpers.rs): the attestations counted for the current and the
\* previous epoch have the current and the previous justified checkpoint as
\* their source, across the rotation of both at the end of an epoch.
MatchingSource ==
  /\ \A a \in current_epoch_attestations : a.source = current_justified_checkpoint
  /\ \A a \in previous_epoch_attestations : a.source = previous_justified_checkpoint

\* The chain keeps the promises of Casper FFG: one checkpoint to an epoch is
\* ever justified although a target may be counted twice, in time and one
\* epoch late, and finality only moves forward, to justified checkpoints that
\* justified ones follow.
FFGPromise == INSTANCE FFG WITH
  Genesis <- GenesisCheckpoint, epoch <- current_epoch,
  justified <- justified, finalized <- finalized_checkpoint

ImplementsFFG == FFGPromise!Spec

\* When two epochs in a row are justified before they close, closing the second
\* finalizes the first: finality needs no more than two good epochs.
PromptFinality ==
  [][current_epoch' # current_epoch /\ justification_bits[0] /\ justification_bits'[0]
     => finalized_checkpoint'.epoch = current_epoch - 1]_vars

=============================================================================
