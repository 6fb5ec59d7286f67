SPECIFICATION Spec
CONSTANTS
  Drivers = {spdm, pldm}
  Apps = {a1, a2}
  NoApp = NoApp
  Lens = {2, 9}
  Chunk = 2
  Tags = {3}
  Eids = {9}
  MaxMsgs = 2
  MaxCtl = 2
INVARIANT TypeOK
INVARIANT BufferAtHand
INVARIANT ReportFindsSender
INVARIANT EidAnswered
PROPERTY ImplementsQueue
CHECK_DEADLOCK FALSE
