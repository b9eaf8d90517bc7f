SPECIFICATION MCSpec
CONSTANTS
  v1 = v1
  v2 = v2
  v3 = v3
  Validators <- MCValidators
  Keys <- MCKeys
  Duty <- MCDuty
  Proposer <- MCProposer
  DepositCount <- MCDepositCount
  SlotsPerEpoch = 2
  EthPeriod = 2
  MaxAttestations = 1
  MaxDeposits = 1
  MaxSlot = 6
  MaxSkip = 1
  MaxSlashings = 1
  MaxCopies = 2
  MaxOwn = 3
INVARIANTS
  PanicsExplained
  
  InOneBlock
