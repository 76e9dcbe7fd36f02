SPECIFICATION FairSpecUpToNames
CONSTANTS
  q1 = q1
  q2 = q2
  q3 = q3
  k1 = k1
  k2 = k2
  a = a
  b = b
  Instances <- TwoInstances
  Keys <- TwoKeys
  Requests <- ThreeRequests
  Limit = 1
  Threshold = 1
  RedisConfigured = TRUE
  Faults = TRUE
  MaxWindow = 2
  MaxCount = 3
INVARIANTS
  TypeOK
  NumbersUnique
  PerCounterLimit
  MapBounded
  NoSpuriousRejection
PROPERTIES
  EveryRequestDecided
  KeepsAdmission
CHECK_DEADLOCK FALSE
