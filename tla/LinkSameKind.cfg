SPECIFICATION FairSpec
CONSTANTS
  Low = Low
  High = High
  None = None
  Phones = {}
  Conns = {c1, c2}
  Prios = {1}
  UserDials = TRUE
  MaxFaults = 0
  MaxChecks = 0
PROPERTY DialingLinks
CHECK_DEADLOCK FALSE
