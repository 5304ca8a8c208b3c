SPECIFICATION FairSpec
CONSTANTS
  laptop = laptop
  phone = phone
  pc = pc
  tv = tv
  home = home
  work = work
  Devices = {laptop, phone}
  GroupOf <- TwoGroups
  Calls = {k1}
  Answers = {x1}
  Ids = {s1}
  None = None
  MaxPipes = 1
PROPERTY AnswersEnd
CHECK_DEADLOCK FALSE
