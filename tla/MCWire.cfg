CONSTANTS
  OverflowChecks = TRUE
  SlotsPerHistoricalRoot = 2
  EpochsPerHistoricalVector = 2
  EpochsPerSlashingsVector = 2
  SlotsPerEth1VotingPeriod = 2
  HistoricalRootsLimit = 2
  ValidatorRegistryLimit = 2
  MaxValidatorsPerCommittee = 9
  MaxProposerSlashings = 2
  MaxAttesterSlashings = 1
  MaxAttestations = 2
  MaxAttestationsPerEpoch = 4
  MaxDeposits = 1
  MaxVoluntaryExits = 2
  DepositContractTreeDepth = 1
  Samples = {0, 2}
  ErrorCodes = {2}
  Bodies <- MCBodies
SPECIFICATION Spec
INVARIANTS
  ValuesSurvive
  SizesAgree
  RequestIntact
  
CHECK_DEADLOCK FALSE
