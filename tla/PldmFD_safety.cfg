SPECIFICATION Spec
CONSTANTS
  Sizes = {2, 5, 6}
  MinImage = 2
  StagingSize = 5
  Baseline = 1
  MaxXfer = 2
  UaXfers = {0, 3}
  Eids = {11, 12}
  DefaultEid = 8
  T1 = 2
  T2 = 1
  Answers = {"Success", "Retry", "Other", "Short"}
  Faults = {"send", "recv", "decode", "write", "verify", "mark", "refuse"}
INVARIANT WholeImage
INVARIANT ApplyMeansVerified
INVARIANT NoWriteAfterVerify
PROPERTY JudgedWhenSettled
PROPERTY CancelSticks
PROPERTY UAStable
