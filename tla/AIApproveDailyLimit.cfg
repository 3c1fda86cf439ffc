\* Postgres: gates of overlapping requests count before either is stored.
SPECIFICATION Spec
CONSTANTS
  a1 = a1
  a2 = a2
  xau = xau
  r1 = r1
  r2 = r2
  r3 = r3
  r4 = r4
  Requests = {r1, r2, r3}
  Accounts = {a1}
  Symbols = {xau}
  AccountOf <- MCAccountOf
  SymbolOf <- MCSymbolOf
  PlansOf <- MCPlansOf
  Mode <- AllCutover
  Store = "postgres"
  DailyLimit = 2
  CooldownTTL = 1
  DayLength = 2
  Lifetime = 2
  MaxTime = 1
  MaxRestarts = 0
SYMMETRY RequestSymmetry
INVARIANTS
  DailyLimitHolds
CHECK_DEADLOCK FALSE
