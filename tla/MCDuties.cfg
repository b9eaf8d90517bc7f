SPECIFICATION MCSpec
CONSTANTS
  SlotsPerEpoch = 2
  MaxCommitteesPerSlot = 2
  TargetCommitteeSize = 1
  ShuffleRoundCount = 2
  EpochsPerHistoricalVector = 5
  MinSeedLookahead = 1
  MaxEffectiveBalance = 32
  Pivot <- MCPivot
  Bit <- MCBit
  RandomByte <- MCRandomByte
  BaseRewardFactor = 4
  ProposerRewardQuotient = 3
  InactivityPenaltyQuotient = 8
  MinEpochsToInactivityPenalty = 0
  Genesis <- FourValidators
  MaxSeedLookahead = 1
  MinAttestationInclusionDelay = 1
  MinValidatorWithdrawabilityDelay = 1
  EpochsPerSlashingsVector = 4
  MinSlashingPenaltyQuotient = 2
  WhistleblowerRewardQuotient = 4
  Mixes = {0, 1}
  AttestedEpochs = {1}
  Views <- TwoViews
  MaxAttestations = 2
  RevealSlots = {3}
  MaxLeaving = 1
  LeaveSlots = {1, 3}
  MaxEpoch = 2
INVARIANTS
  CommitteesPartition
  CommitteesStable
PROPERTIES
  RewardsAgree
  LeakNeverPays
