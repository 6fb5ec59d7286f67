SPECIFICATION FairSpec
CONSTANTS
  NumApps = 3
  MaxOwed = 3
  Refusals = {"direct"}
  Exits = TRUE
INVARIANT OwnerInv
INVARIANT QueueInv
 
CHECK_DEADLOCK FALSE
