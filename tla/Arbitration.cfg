\* Two signals of one account, arbiters, expiry runs, a caller that gives up.
SPECIFICATION FairSpec
CONSTANTS
  a1 = a1
  s1 = s1
  s2 = s2
  Signals = {s1, s2}
  Accounts = {a1}
  AccountOf <- OneAccount
  HighScore = {s1}
  Store = "sqlite"
  MaxWait = 2
  PollInterval = 1
  Ttl = 1
  MaxTime = 4
  MaxVerdicts = 2
  MayAbort = {s2}
INVARIANTS
  OwnVerdictOnly
PROPERTIES
  VerdictIsKept
  SubmissionEnds
CHECK_DEADLOCK FALSE
