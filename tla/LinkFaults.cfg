SPECIFICATION Spec
CONSTANTS
  Low = Low
  High = High
  None = None
  Phones = {High}
  Conns = {c1, c2, c3}
  Prios = {1}
  UserDials = FALSE
  MaxFaults = 1
  MaxChecks = 1
SYMMETRY ConnSymmetry
INVARIANT OneOpenLink
PROPERTY ComputersRefuse
PROPERTY IsOneChannel
CHECK_DEADLOCK FALSE
