\* Two requests of the terminal at a time, against either store.
SPECIFICATION Spec
CONSTANTS
  Requests = {r1, r2}
  Tickets = {1}
  Scenes <- MCScenes
  OpenPrice = 100
  Atr = 10
  DayLength = 3
  Hour = 1
  Cooldown = 2
  Fresh = 1
  MaxNow = 3
  MaxEnds = 1
SYMMETRY RequestSymmetry
INVARIANTS
  HandlersNeverCollide
PROPERTIES
  BreakoutSeenTwice
  DailyLossHolds
  AIStopsSpaced
CHECK_DEADLOCK FALSE
