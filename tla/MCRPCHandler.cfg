SPECIFICATION MCFairSpec
CONSTANTS
  r1 = r1
  r2 = r2
  r3 = r3
  Requests <- MCRequests
  Goodbyes <- MCGoodbyes
  MaxDialNegotiated = 2
  ResponseTimeout = 1
  InactiveTimeout = 2
  MaxInbound = 1
  MaxGoodbyes = 1
  MaxDialErrors = 1
INVARIANTS
  TypeOK
  OneOutcome
  OneAnswer
PROPERTY QueueDrains
