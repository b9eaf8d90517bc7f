SPECIFICATION MCSpec
CONSTANTS
  v1 = v1
  v2 = v2
  Validators <- MCValidators
  MaxBlocks = 4
  ActiveSets <- MCActiveSets
  MaxVotes = 1
  SlotGaps = {1}
  MaxCrashes = 1
INVARIANTS
  
  
  VotesKnown
  HeadIsGhost
