SPECIFICATION Spec
CONSTANTS
  Sizes = {3}
  MinImage = 2
  StagingSize = 5
  Baseline = 1
  MaxXfer = 2
  UaXfers = {3}
  Eids = {11}
  DefaultEid = 8
  T1 = 1
  T2 = 1
  Answers = {"Success", "Other"}
  Faults = {"reply"}
INVARIANT NoWriteAfterVerify
