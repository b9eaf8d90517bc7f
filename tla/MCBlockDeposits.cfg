SPECIFICATION Spec
CONSTANTS
  v1 = v1
  v2 = v2
  Validators <- MCValidators
  Proposer <- MCProposer
  DepositCount <- MCDepositCount
  ParentStates <- MCParentsInDebt
  Offered <- MCOffered
  Slots = {5, 6, 7}
  SlotsPerEpoch = 2
  EthPeriod = 2
  MaxAttestations = 2
  MaxDeposits = 2
  MaxOffers = 3
INVARIANT DepositsProcessed
