CONSTANTS
  Peers <- MCPeers
  ForcePrivateNetworks = {FALSE, TRUE}
SPECIFICATION Spec
INVARIANT ConnReleasedOnReturn
CHECK_DEADLOCK FALSE
