SPECIFICATION FairSpec
CONSTANTS
  MaxLinks = 2
  MaxSwitches = 0
  MaxEjects = 1
PROPERTY EjectedStays
CHECK_DEADLOCK FALSE
