SPECIFICATION Spec
INVARIANTS
  KeyRoundTrip
  DecomposePublishesBody
  WatcherReadsOnlyStoppedChain
  FallbackCompletesUserConfig
CHECK_DEADLOCK FALSE
