SPECIFICATION FairSpec
CONSTANTS
  Sizes = {5}
  MinImage = 2
  StagingSize = 5
  Baseline = 1
  MaxXfer = 2
  UaXfers = {0, 3}
  Eids = {11}
  DefaultEid = 8
  T1 = 2
  T2 = 1
  Answers = {"Success"}
  Faults = {}
PROPERTY DownloadEnds
PROPERTY ServiceStops
PROPERTY WaiterAnswers
