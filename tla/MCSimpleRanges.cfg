CONSTANTS
  Width = 3
  b1 = b1
  b2 = b2
  root1 = root1
SPECIFICATION Spec
INVARIANTS
  RlpTypeOK
  RlpFetchPublishLockStep
  TxTypeOK
  TxInvalidRangeRejectedWithoutIO
  TxFetchPublishLockStep
  MockTypeOK
  WrittenBodiesAreQueuedInOrder
  PanicsOnlyPastQueue
  BodyCallsAssertable
PROPERTIES
  RlpRefinesRangeExecution
  TxRefinesRangeExecution
CHECK_DEADLOCK FALSE
