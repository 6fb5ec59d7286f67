SPECIFICATION Spec
CONSTANTS
  PageSize = 5
  NumPages = 2
  Circular = TRUE
  Lens = {1, 2}
  ReadLens = {2}
  MaxEntries = 4
  MaxResets = 1
  Faults = {"write", "erase"}
INVARIANT CacheCoherent
INVARIANT StoredAtPlace
INVARIANT ErasedFromFlash
PROPERTY RecoversWritten
CHECK_DEADLOCK FALSE
