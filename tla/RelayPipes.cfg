SPECIFICATION Spec
CONSTANTS
  laptop = laptop
  phone = phone
  pc = pc
  tv = tv
  home = home
  work = work
  Devices = {laptop, phone, pc, tv}
  GroupOf <- TwoGroups
  Calls = {k1, k2}
  Answers = {x1, x2}
  Ids = {s1}
  None = None
  MaxPipes = 1
SYMMETRY WireSymmetry
INVARIANT PlacesCounted
INVARIANT NeverBlocked
INVARIANT WaitingIsAnswerable
INVARIANT EndedIsClosed
PROPERTY IsRendezvous
CHECK_DEADLOCK FALSE
