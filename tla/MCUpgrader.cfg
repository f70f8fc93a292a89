CONSTANTS
  Peers <- MCPeers
  ForcePrivateNetworks = {FALSE, TRUE}
SPECIFICATION Spec
INVARIANTS
  TypeOK
  ConnReleasedOnOtherReturns
  ReturnedConnMeetsPolicy
PROPERTIES
  CancelUnblocksUpgrade
CHECK_DEADLOCK FALSE
