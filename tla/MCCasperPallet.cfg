SPECIFICATION MCSpec
CONSTANTS
  v1 = v1
  v2 = v2
  v3 = v3
  v4 = v4
  Genesis <- MCGenesis
  NextSets <- MCNextSets
  Faulty <- MCFaulty
  KeySets <- MCAllKeys
  SessionLength = 3
  BlockHashCount = 7
  MaxEpoch = 4
  MaxFaulty = 2
  MaxDisabled = 1
  FaultyEpochs = {1}
  DisabledEpochs = {2}
INVARIANTS
  CheckpointsAtBoundaries
  HonestNotSlashed
PROPERTIES
  JustifiedByVotes
  FinalityMonotone
