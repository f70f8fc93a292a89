CONSTANTS
  Width = 3
  MaxNodes = 1
  Ranges <- MCRanges
SPECIFICATION Spec
INVARIANT ErrorsCarryPhase
CHECK_DEADLOCK FALSE
