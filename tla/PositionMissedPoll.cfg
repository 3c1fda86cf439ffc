\* A poll that does not arrive: is an older stop set after a newer one?
SPECIFICATION FairSpec
CONSTANTS
  Hour = 1
  LastTicket = 2
  Opened <- OneBuy
  AddOn <- HalfBuy
  Prices = {100, 116, 131}
  Signs <- NoSign
  StopLevel = 1
  MaxFaults = 1
PROPERTIES
  StopNeverLoosens
CHECK_DEADLOCK FALSE
