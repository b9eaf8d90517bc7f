------------------------------ MODULE Presets -------------------------------
(***************************************************************************)
(* The configurations the client is built with (beacon/src/config.rs), and *)
(* that they meet what the other modules assume of their constants.        *)
(* Amounts are in units of 100 Gwei, to fit into the integers of TLC.      *)
(* Digest, registry and history limits and signature domains are left out. *)
(***************************************************************************)
EXTENDS Integers

Ether == 10000000   \* in units of 100 Gwei

MinimalConfig == [
  MaxValidatorsPerCommittee |-> 2048, SlotsPerHistoricalRoot |-> 64,
  MaxProposerSlashings |-> 16, MaxAttesterSlashings |-> 1, MaxAttestations |-> 128,
  MaxDeposits |-> 16, MaxVoluntaryExits |-> 16, ShardCount |-> 8, SlotsPerEpoch |-> 8,
  SlotsPerEth1VotingPeriod |-> 16, EpochsPerHistoricalVector |-> 64,
  EpochsPerSlashingsVector |-> 64,
  max_committees_per_slot |-> 4, target_committee_size |-> 4,
  min_per_epoch_churn_limit |-> 4, churn_limit_quotient |-> 65536,
  shuffle_round_count |-> 10, min_genesis_active_validator_count |-> 64,
  min_deposit_amount |-> 1 * Ether, max_effective_balance |-> 32 * Ether,
  ejection_balance |-> 16 * Ether, effective_balance_increment |-> 1 * Ether,
  min_attestation_inclusion_delay |-> 1, min_seed_lookahead |-> 1,
  max_seed_lookahead |-> 4, min_validator_withdrawability_delay |-> 256,
  persistent_committee_period |-> 2048, max_epochs_per_crosslink |-> 4,
  min_epochs_to_inactivity_penalty |-> 4,
  base_reward_factor |-> 64, whistleblower_reward_quotient |-> 512,
  proposer_reward_quotient |-> 8, inactivity_penalty_quotient |-> 2 ^ 25,
  min_slashing_penalty_quotient |-> 32]

MainnetConfig == [MinimalConfig EXCEPT
  !.SlotsPerHistoricalRoot = 8192, !.ShardCount = 1024, !.SlotsPerEpoch = 32,
  !.SlotsPerEth1VotingPeriod = 1024, !.EpochsPerHistoricalVector = 65536,
  !.EpochsPerSlashingsVector = 8192,
  !.max_committees_per_slot = 64, !.target_committee_size = 128,
  !.shuffle_round_count = 90, !.min_genesis_active_validator_count = 65536,
  !.max_epochs_per_crosslink = 64]

SapphireConfig == [MinimalConfig EXCEPT
  !.min_deposit_amount = 1,
  !.max_effective_balance = 32 * (Ether \div 10), !.ejection_balance = 3 * Ether]

Presets == {MinimalConfig, MainnetConfig, SapphireConfig}

-----------------------------------------------------------------------------
\* What Casper, Committees, Rewards and Registry assume, of every preset.
ASSUME PresetsMeetAssumptions ==
  \A c \in Presets :
    /\ c.SlotsPerEpoch > 1
    /\ c.SlotsPerHistoricalRoot >= 2 * c.SlotsPerEpoch
    /\ c.min_attestation_inclusion_delay \in 1 .. c.SlotsPerEpoch
    /\ c.max_committees_per_slot > 0 /\ c.target_committee_size > 0
    /\ c.min_seed_lookahead + 1 \in 1 .. c.EpochsPerHistoricalVector
    /\ c.min_per_epoch_churn_limit > 0
    /\ c.EpochsPerSlashingsVector > 1
    /\ c.effective_balance_increment % 2 = 0
    /\ c.effective_balance_increment <= c.max_effective_balance

\* The effective balance is a whole number of increments or the maximum, and
\* only the maximum makes a validator eligible: where the maximum is a whole
\* number itself, a balance of the maximum has it as its effective balance.
\* SapphireConfig is not among these: 3.2 ether count as 3, its ejection balance.
WholeIncrements(c) == c.max_effective_balance % c.effective_balance_increment = 0

\* The correlated penalty of a validator slashed while the exit queue is empty
\* falls due before its own slashing leaves the slashings vector.  So it does
\* with MainnetConfig only: with the others it is due 229 epochs later.
EarliestWithdrawal(c) == c.max_seed_lookahead + 1 + c.min_validator_withdrawability_delay
PenaltyDue(c) ==
  (IF EarliestWithdrawal(c) > c.EpochsPerSlashingsVector
   THEN EarliestWithdrawal(c) ELSE c.EpochsPerSlashingsVector)
    - (c.EpochsPerSlashingsVector \div 2)
OwnSlashingCounts(c) == PenaltyDue(c) < c.EpochsPerSlashingsVector

ASSUME PresetsDiffer ==
  /\ {c \in Presets : WholeIncrements(c)} = {MinimalConfig, MainnetConfig}
  /\ {c \in Presets : OwnSlashingCounts(c)} = {MainnetConfig}

=============================================================================
