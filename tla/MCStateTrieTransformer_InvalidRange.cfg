CONSTANTS
  Width = 3
  MaxNodes = 1
  Ranges <- MCInvertedRanges
SPECIFICATION Spec
INVARIANT InvalidRangeRejected
CHECK_DEADLOCK FALSE
