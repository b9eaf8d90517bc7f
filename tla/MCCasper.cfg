SPECIFICATION MCSpec
CONSTANTS
  v1 = v1
  v2 = v2
  v3 = v3
  Validators <- MCValidators
  EffectiveBalance <- MCBalance
  Duty <- MCDuty
  Byzantine = {}
  SkipSlots <- MCSkipSlots
  SlotsPerEpoch = 3
  SlotsPerHistoricalRoot = 6
  MinAttestationInclusionDelay = 1
  MaxSlashed = 1
  MaxSlot = 21
INVARIANTS
  TypeOK
  CheckpointOrder
  BitsMatchHistory
  CheckpointsCanonical
PROPERTIES
  ImplementsFFG
  PromptFinality
