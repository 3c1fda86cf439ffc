\* Postgres: the delivery update of an overlapping poll overwrites a settled row.
SPECIFICATION Spec
CONSTANTS
  a1 = a1
  Commands = {1}
  Accounts = {a1}
  AccountOf <- OneAccount
  RiskCommands = {}
  Expirable = {}
  Polls = {p1, p2}
  Store = "postgres"
  DefaultMode = "cutover"
  OperatorModes = {}
  MaxFaults = 1
PROPERTIES
  TerminalStatusIsFinal
CHECK_DEADLOCK FALSE
