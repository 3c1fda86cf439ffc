\* A position and an added one; two faults of two kinds.
SPECIFICATION FairSpec
CONSTANTS
  Hour = 1
  LastTicket = 2
  Opened <- OneBuy
  AddOn <- HalfBuy
  Prices = {116, 131}
  Signs <- TwoSigns
  StopLevel = 1
  MaxFaults = 2
INVARIANTS
  TargetTakenOnce
  StatesMatchBroker
PROPERTIES
  ProfitGetsProtected
  StopOnlyTightens
CHECK_DEADLOCK FALSE
