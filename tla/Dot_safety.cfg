SPECIFICATION FairSpec
CONSTANTS
    Total = 4
    Requests <- MCRequests
    None = "none"
    Fused = "fused"
    Handlers <- MCHandlers
    Manifests <- MCManifests
    Transports = {"mci", "spdm"}
    Faults = {"power", "flash", "otp", "mailbox", "corrupt"}
    MaxFaults = 2
INVARIANT TypeOK
INVARIANT UnlockByHolder
INVARIANT OverrideBurnsOnce
PROPERTY BootsCommittedOwner
PROPERTY SealedBeforeLock
PROPERTY Restored
