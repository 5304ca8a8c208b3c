SPECIFICATION Spec
CONSTANTS
  laptop = laptop
  desk = desk
  phone = phone
  tablet = tablet
  Transfers = {batch}
  Computers = {laptop, desk}
  Phones = {phone, tablet}
  Exchanges <- Batches
  MaxFiles = 2
  MaxSize = 1
  MaxTouches = 0
  MaxFaults = 1
  None = None
INVARIANT CompletedIsWhole
CHECK_DEADLOCK FALSE
