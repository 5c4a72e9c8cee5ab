CONSTANTS
  Accounts = {a, b}
  Tools = {t}
  Legacy = legacy
  None = none
  MaxRequests = 2
  MaxEvents = 2
SPECIFICATION DeploySpec
INVARIANT LateResultIgnored
CHECK_DEADLOCK FALSE
