CONSTANTS
  Step = 10
  MinLots = 20
  MaxLots = 100
  Commands <- MCCommands
  Books <- MCBooks
  Strategies = {"pullback", "scale_in", "range"}
  EnabledStrategies = {"pullback", "scale_in"}
  TradedSymbols = {"gold"}
  SpreadSymbols = {"brent"}
  SpreadEnabled = TRUE
  StrategyLots <- MCStrategyLots
  MaxSameDir = 2
  OpenPrice = 10
  MinStop = 2
  PollBatch = 1
  MaxTickets = 5
  MaxFaults = 2
SPECIFICATION Spec
INVARIANTS NakedPositionIsReported SameSideBounded ClosedWithinRequest
PROPERTIES SharedStopMovesForward
CHECK_DEADLOCK FALSE
