CONSTANTS
  KeyLen = 2
  Genesis <- MCGenesis
  Writes <- MCWrites
  Fork = 2
  LostPaths = {}
SPECIFICATION Spec
INVARIANTS
  TypeOK
  StoreHoldsCanonicalNodesOnly
