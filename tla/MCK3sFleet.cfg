SPECIFICATION FairSpec
CONSTANTS
    d1 = d1
    d2 = d2
    None = None
    Digests <- MCDigests
    Flags <- MCFlags
    Replicas = 2
    HubTag = TRUE
INVARIANTS
    SignedMeansRunning
PROPERTIES
    RollCompletes
CHECK_DEADLOCK FALSE
