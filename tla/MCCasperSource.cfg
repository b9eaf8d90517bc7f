SPECIFICATION MCSpec
CONSTANTS
  v1 = v1
  v2 = v2
  v3 = v3
  Validators <- MCValidators
  EffectiveBalance <- MCBalance
  Duty <- MCDuty
  Byzantine <- MCByzantine
  SkipSlots <- MCSkipSlots
  SlotsPerEpoch = 3
  SlotsPerHistoricalRoot = 6
  MinAttestationInclusionDelay = 1
  MaxSlashed = 0
  MaxSlot = 12
INVARIANT MatchingSource
