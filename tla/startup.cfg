SPECIFICATION FairSpec
CONSTANTS
  a = a
  b = b
  Instances <- TwoInstances
  Order <- ThreeTables
  Versioned = {"print_runs"}
  Removable = {"press_units", "print_runs"}
  Attempts = 2
  RedisConfigured = TRUE
  MaxTrouble = 2
INVARIANTS
  TypeOK
  ServesSeeded
PROPERTIES
  DeadOnceEmptied
  ComesUp
