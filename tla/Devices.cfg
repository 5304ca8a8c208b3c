SPECIFICATION DevicesSpec
CONSTANTS
  Low = Low
  High = High
  None = None
  Phones = {High}
  c1 = c1
  c2 = c2
  Conns = {c1, c2}
  Prios = {1}
  UserDials = TRUE
  MaxFaults = 1
  MaxChecks = 1
  Threads = {1, 2}
  Aheads = {3}
  Cells = 2
  PerBlock = 2
  CacheBlocks = 1
  MaxLength = 2
  MaxWrites = 2
  MaxReads = 2
  MaxFails = 1
INVARIANT TypesOK
INVARIANT HandleTrue
PROPERTY DialingEndsInLink
PROPERTY LinksSettle
PROPERTY LoopsSettle
CHECK_DEADLOCK FALSE
