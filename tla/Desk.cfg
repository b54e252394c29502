SPECIFICATION Spec
CONSTANTS
  MaxConfigs = 2
  Levels = 2
  Foreign = 1
  MaxCycles = 2
  MaxSends = 3
  MaxHand = 1
  MaxSessions = 2
INVARIANTS
  DTypeOK
  EveryRowLoads
  ConfigIsHonest
  BooksBalance
  EmergencyWaitsOneTick
PROPERTIES
  StartIsConfirmed
CHECK_DEADLOCK FALSE
