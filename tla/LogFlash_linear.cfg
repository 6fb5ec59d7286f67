SPECIFICATION FairSpec
CONSTANTS
  PageSize = 5
  NumPages = 2
  Circular = FALSE
  Lens = {1, 2, 4}
  ReadLens = {2}
  MaxEntries = 3
  MaxResets = 1
  Faults = {"read", "write"}
INVARIANT TypeOK
PROPERTY ReadNext
PROPERTY AcceptedIsAnswered
CHECK_DEADLOCK FALSE
