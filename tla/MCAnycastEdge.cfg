SPECIFICATION FairSpec
CONSTANTS
  Prefixes <- MCPrefixes
  LocalASN = 1
  AddressBits = 4
  PrivateASNs = {9}
  PrivateBlocks <- MCPrivateBlocks
  Configs <- AllConfigs
  FailThreshold = 3
  RecoverThreshold = 2
INVARIANTS
  NoSilentDivergence
  GatesEnforced
PROPERTIES
  HealthyAnnounces
  FailingWithdraws
  ShutDownEnds
