SPECIFICATION FairSpec
CONSTANTS
    Total = 4
    Requests <- MCRequests
    None = "none"
    Fused = "fused"
    Handlers <- MCHandlers
    Manifests <- MCManifests
    Transports = {"mci"}
    Faults = {"power"}
    MaxFaults = 1
PROPERTY EvenBoots
