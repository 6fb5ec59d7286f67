SPECIFICATION Spec
CONSTANTS
  Receivers <- MCReceivers
  Peers = {10}
  NumApps = 1
  Packets = {6}
  Shapes = {"good"}
  BufPackets <- MCBufPackets
  NumTags = 8
  None = None
  Faults = {"loss"}
  MaxMsgs = 1
INVARIANT CompleteMessages
