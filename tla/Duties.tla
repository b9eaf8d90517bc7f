------------------------------- MODULE Duties --------------------------------
(***************************************************************************)
(* Duties and pay over a few epochs: committees are computed from the      *)
(* registry and the randao mixes when a validator looks for its duty, when *)
(* an attestation is included, and again when the epoch after it closes    *)
(* and pays.  In between validators are activated, leave and are slashed,  *)
(* and blocks change the mixes.                                            *)
(*                                                                         *)
(* Registry has the details of the queues; here a validator is scheduled   *)
(* at the earliest epoch they allow.  Effective balances do not change.    *)
(***************************************************************************)
EXTENDS Rewards

CONSTANTS
  Genesis,                  \* the validators of the genesis state
  MaxSeedLookahead, MinAttestationInclusionDelay, MinValidatorWithdrawabilityDelay,
  EpochsPerSlashingsVector, MinSlashingPenaltyQuotient, WhistleblowerRewardQuotient,
  Mixes,                    \* values of a randao mix
  AttestedEpochs,           \* bound: epochs whose attestations are included
  Views,                    \* bound: what an attestation may match of target, head
  MaxAttestations,          \* bound: attestations included
  RevealSlots,              \* bound: slots whose block changes the mix
  MaxLeaving,               \* bound: validators that leave
  LeaveSlots,               \* bound: slots in which they do
  MaxEpoch                  \* bound: last epoch

\* u64::max_value(): later than every epoch.
FAR_FUTURE_EPOCH == 1000

VARIABLES
  current_epoch_attestations,
  finalized_epoch,              \* of the finalized checkpoint
  duties                        \* history: epoch -> its committees, as they were
                                \* when they could first be asked for

vars == <<slot, state, previous_epoch_attestations, current_epoch_attestations, balances,
          finalized_epoch, duties>>

indices == DOMAIN state.validators
validator(i) == state.validators[i]
pending == ToSet(previous_epoch_attestations) \cup ToSet(current_epoch_attestations)

GenesisState ==
  [validators |-> Genesis,
   randao_mixes |-> [e \in 0 .. EpochsPerHistoricalVector - 1 |-> CHOOSE m \in Mixes : TRUE]]

Init ==
  /\ slot = 0
  /\ state = GenesisState
  /\ previous_epoch_attestations = <<>>
  /\ current_epoch_attestations = <<>>
  /\ balances = [i \in DOMAIN Genesis |-> Genesis[i].effective_balance]
  /\ finalized_epoch = 0
  /\ duties = [e \in 0 .. 1 |-> EpochCommittees(GenesisState, e)]

-----------------------------------------------------------------------------
activation_exit_epoch(e) == e + 1 + MaxSeedLookahead

\* The block of a slot changes the mix of the current epoch.
process_randao(mix) ==
  /\ slot \in RevealSlots
  /\ state' = [state EXCEPT !.randao_mixes[current_epoch % EpochsPerHistoricalVector] = mix]
  /\ UNCHANGED <<slot, previous_epoch_attestations, current_epoch_attestations, balances,
                 finalized_epoch, duties>>

\* One validator leaves after the other, and never the last one.
Leaving == {i \in indices : validator(i).exit_epoch # FAR_FUTURE_EPOCH}
MayLeave(i) ==
  /\ slot \in LeaveSlots
  /\ Cardinality(Leaving) < MaxLeaving
  /\ i \notin Leaving
  /\ is_active(validator(i), current_epoch)
  /\ \E j \in indices \ {i} : is_active(validator(j), current_epoch)

initiate_validator_exit(i) ==
  LET exit == activation_exit_epoch(current_epoch)
  IN [validator(i) EXCEPT !.exit_epoch = exit,
                          !.withdrawable_epoch = exit + MinValidatorWithdrawabilityDelay]

process_voluntary_exit(i) ==
  /\ MayLeave(i)
  /\ state' = [state EXCEPT !.validators[i] = initiate_validator_exit(i)]
  /\ UNCHANGED <<slot, previous_epoch_attestations, current_epoch_attestations, balances,
                 finalized_epoch, duties>>

slash_validator(i) ==
  LET decreased == [balances EXCEPT
        ![i] = saturating_sub(@, validator(i).effective_balance \div MinSlashingPenaltyQuotient)]
  IN /\ MayLeave(i)
     /\ state' = [state EXCEPT !.validators[i] =
          [initiate_validator_exit(i) EXCEPT
             !.slashed = TRUE,
             !.withdrawable_epoch = Max({@, current_epoch + EpochsPerSlashingsVector})]]
     /\ balances' = [decreased EXCEPT ![beacon_proposer_index] =
          @ + validator(i).effective_balance \div WhistleblowerRewardQuotient]
     /\ UNCHANGED <<slot, previous_epoch_attestations, current_epoch_attestations,
                    finalized_epoch, duties>>

InTime(data_slot) ==
  data_slot + MinAttestationInclusionDelay <= slot /\ slot <= data_slot + SlotsPerEpoch

\* The data have the justified source and the epoch of the slot as target, and
\* the signature is valid.
process_attestation(data, bits) ==
  LET attestation == [data |-> data, bits |-> bits, inclusion_delay |-> slot - data.slot,
                      proposer_index |-> beacon_proposer_index]
      target_epoch == epoch_of_slot(data.slot)
  IN /\ Len(previous_epoch_attestations) + Len(current_epoch_attestations) < MaxAttestations
     /\ data.index < committee_count_at_slot(state, data.slot)
     /\ target_epoch \in {current_epoch, previous_epoch}
     /\ InTime(data.slot)
     /\ attesting_indices(data, bits) # LengthError
     /\ IF target_epoch = current_epoch
        THEN /\ current_epoch_attestations' = Append(current_epoch_attestations, attestation)
             /\ UNCHANGED previous_epoch_attestations
        ELSE /\ previous_epoch_attestations' = Append(previous_epoch_attestations, attestation)
             /\ UNCHANGED current_epoch_attestations
     /\ UNCHANGED <<slot, state, balances, finalized_epoch, duties>>

\* process_epoch pays for the previous epoch, schedules a set of activations,
\* carries the mix over and rotates the attestations.
Waiting == {i \in indices : validator(i).activation_epoch = FAR_FUTURE_EPOCH}
Activated(activated) ==
  [i \in indices |->
     IF i \in activated
     THEN [validator(i) EXCEPT !.activation_epoch = activation_exit_epoch(current_epoch)]
     ELSE validator(i)]
NextMixes ==
  [state.randao_mixes EXCEPT ![(current_epoch + 1) % EpochsPerHistoricalVector] =
     state.randao_mixes[current_epoch % EpochsPerHistoricalVector]]

process_epoch(activated, finalized) ==
  LET next == [validators |-> Activated(activated), randao_mixes |-> NextMixes]
  IN /\ finalized_epoch' = finalized
     /\ balances' = process_rewards_and_penalties(finalized)
     /\ state' = next
     /\ previous_epoch_attestations' = current_epoch_attestations
     /\ current_epoch_attestations' = <<>>
     /\ duties' = [e \in current_epoch .. current_epoch + 2 |->
          IF e \in DOMAIN duties THEN duties[e] ELSE EpochCommittees(next, e)]

process_slots(activated, finalized) ==
  /\ slot < (MaxEpoch + 1) * SlotsPerEpoch
  /\ slot' = slot + 1
  /\ IF (slot + 1) % SlotsPerEpoch = 0
     THEN process_epoch(activated, finalized)
     ELSE /\ activated = {} /\ finalized = finalized_epoch
          /\ UNCHANGED <<state, previous_epoch_attestations, current_epoch_attestations,
                         balances, finalized_epoch, duties>>

\* Every attestation of an attested epoch that some members have signed.
Signable ==
  {d \in [slot : UNION {SlotsOf(e) : e \in AttestedEpochs},
          index : 0 .. MaxCommitteesPerSlot - 1,
          target_matches : BOOLEAN, head_matches : BOOLEAN] :
     <<d.target_matches, d.head_matches>> \in Views}
Bits(data) ==
  {b \in [1 .. Len(beacon_committee(state, data.slot, data.index)) -> BOOLEAN] : \E k \in DOMAIN b : b[k]}

Next ==
  \/ \E mix \in Mixes : process_randao(mix)
  \/ \E i \in indices : process_voluntary_exit(i)
  \/ \E i \in indices : slash_validator(i)
  \/ \E data \in Signable : InTime(data.slot) /\ \E bits \in Bits(data) : process_attestation(data, bits)
  \/ \E activated \in SUBSET Waiting, finalized \in finalized_epoch .. previous_epoch :
       process_slots(activated, finalized)

Spec == Init /\ [][Next]_vars
-----------------------------------------------------------------------------
\* In every epoch whose duties can be asked for, each active validator is in
\* exactly one committee, committee_assignment finds it, nobody else has a duty,
\* and committee sizes differ by one at most.
CommitteesPartition ==
  \A e \in DOMAIN duties :
    LET active == {i \in indices : is_active(validator(i), e)}
        committees == duties[e]
        size(c) == Len(committees[c])
    IN /\ \A i \in indices :
            Cardinality(committee_assignment(committees, i)) = IF i \in active THEN 1 ELSE 0
       /\ MapThenSumSet(size, DOMAIN committees) = Cardinality(active)
       /\ \A c, d \in DOMAIN committees : size(c) <= size(d) + 1

\* A committee once computed stays what it is, from the epoch before its own
\* to the end of the epoch after: neither blocks that change the mix nor validators
\* that are activated, leave or are slashed move anybody's duty, and bits are read at the end
\* of the next epoch against the committee they were set for.
CommitteesStable == \A e \in DOMAIN duties : EpochCommittees(state, e) = duties[e]

EpochCloses == slot' # slot /\ (slot + 1) % SlotsPerEpoch = 0 /\ current_epoch > 0

\* The two implementations of rewards and penalties, the executive's and the
\* generic component's, leave the same balances.
RewardsAgree == [][EpochCloses => balances' = component_process(finalized_epoch')]_vars

\* In an inactivity leak nobody gains by attesting: apart from what it earns as
\* a proposer no balance grows, unless more balance attested than is still
\* active when the epoch closes.
LeakNeverPays ==
  [][/\ EpochCloses
     /\ previous_epoch - finalized_epoch' > MinEpochsToInactivityPenalty
     /\ total_balance(unslashed_attesting_indices(matching_source_attestations))
          <= total_active_balance
     => \A i \in DOMAIN balances :
          balances'[i] <= balances[i] + proposer_rewards(i, Inclusions, total_active_balance)]_vars

=============================================================================
