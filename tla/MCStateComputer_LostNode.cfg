CONSTANTS
  KeyLen = 2
  Genesis <- MCGenesis
  Writes <- MCWrites
  Fork = 2
  LostPaths <- MCLostPaths
SPECIFICATION Spec
INVARIANT ExtractsWholeTrie
