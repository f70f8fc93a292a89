CONSTANTS
  Width = 3
  MaxNodes = 2
  Ranges <- MCRanges
SPECIFICATION Spec
INVARIANTS
  TypeOK
  ExactlyOnceInOrder
  CompletedBlocksFullyPublished
  NilMeansRangePublished
PROPERTIES
  Terminates
  RefinesRangeExecution
CHECK_DEADLOCK FALSE
