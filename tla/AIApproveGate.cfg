\* Three results of one account and one of another, over two days, with a restart.
SPECIFICATION Spec
CONSTANTS
  a1 = a1
  a2 = a2
  xau = xau
  r1 = r1
  r2 = r2
  r3 = r3
  r4 = r4
  Requests = {r1, r2, r3, r4}
  Accounts = {a1, a2}
  Symbols = {xau}
  AccountOf <- MCAccountOf
  SymbolOf <- MCSymbolOf
  PlansOf <- MCPlansOf
  Mode <- AllCutover
  Store = "sqlite"
  DailyLimit = 2
  CooldownTTL = 1
  DayLength = 2
  Lifetime = 2
  MaxTime = 2
  MaxRestarts = 1
SYMMETRY RequestSymmetry
INVARIANTS
  DailyLimitHolds
  OnePendingPerSide
  CooldownSpacing
CHECK_DEADLOCK FALSE
