CONSTANTS
  Width = 3
  MaxNodes = 1
  Ranges <- MCRangesToMax
SPECIFICATION Spec
INVARIANT ExactlyOnceInOrder
CHECK_DEADLOCK FALSE
