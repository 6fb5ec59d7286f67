SPECIFICATION Spec
CONSTANTS
  Receivers <- MCReceivers
  Peers = {10, 11}
  NumApps = 1
  Packets = {1, 5}
  Shapes = {"good", "foreign", "runt"}
  BufPackets <- MCBufPackets
  NumTags = 8
  None = None
  Faults = {"loss", "small"}
  MaxMsgs = 2
INVARIANT TypeOK
INVARIANT NoMissedMessage
PROPERTY ImplementsInbox
INVARIANT InOrder
