SPECIFICATION Spec
CONSTANTS
  Devices = {a, b}
  Conns = {k1, k2}
  None = None
  MaxDevices = 2
  MaxBreaks = 0
PROPERTY AcceptedIsOnline
CHECK_DEADLOCK FALSE
