\* Every stateless decision over its questions.
SPECIFICATION DecisionSpec
CONSTANTS
  Plans <- MCPlans
  Ticks <- MCTicks
  Atrs = {0, 2, 8}
  Bodies <- MCBodies
  Gates <- MCGates
  Signalled <- MCSignalled
  Bars <- MCBars
  Wing = 1
  Recent = 2
  Reversal = 2
  Lookback = 5
  AgentCases <- MCAgentCases
  Streams <- MCStreams
  Meanings <- MCMeanings
  Whole <- MCWhole
  Accounts <- MCAccounts
  Hour = 1
  Evaluations <- MCEvaluations
INVARIANTS
  BuiltOrderIsSound
  QueuedPlanIsSound
  AcceptedPlanIsSound
  FilterImpliesGate
  SignalIsSound
  StructureIsNotRepainted
  AgentPlanIsSound
  CutsDoNotMatter
  AccountIsShownAsItIs
  AdviceIsSound
CHECK_DEADLOCK FALSE
