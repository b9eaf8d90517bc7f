SPECIFICATION MCSpec
CONSTANTS
  Deposits <- QueueDeposits
  DepositContractTreeDepth = 4
  GenesisCount = 4
  MaxEffectiveBalance = 4
  EffectiveBalanceIncrement = 2
  EjectionBalance = 2
  MaxSeedLookahead = 1
  MinValidatorWithdrawabilityDelay = 2
  PersistentCommitteePeriod = 1
  EpochsPerSlashingsVector = 4
  MinPerEpochChurnLimit = 1
  ChurnLimitQuotient = 4
  MinSlashingPenaltyQuotient = 2
  WhistleblowerRewardQuotient = 2
  RewardDeltas <- Penalties
  Proposers = {1}
  Stalls = {3}
  DeltaEpochs = {2}
  MaxDeltas = 1
  MaxValidatorsPerCommittee = 1
  MaxSlashed = 1
  MaxExits = 1
  MaxEpoch = 5
INVARIANTS
  LifecycleOrder
  FifoActivation
  ActivationsAwaitFinality
  SlashedPenalizedOnce
  SlashingsWindow
  OnlyNextDeposit
PROPERTIES
  
  StatusIsFinal
