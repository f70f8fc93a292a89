CONSTANTS
  c1 = c1
  c2 = c2
  r1 = r1
  r2 = r2
  p1 = p1
  p2 = p2
  p3 = p3
  v1 = v1
  v2 = v2
  l1 = l1
  l2 = l2
  l3 = l3
  k1 = k1
  k2 = k2
  pT = pT
  pO = pO
  a1 = a1
  a2 = a2
SPECIFICATION Spec
INVARIANTS
  NotifyTypeOK
  RelayTypeOK
  ReceivesFirstMax
  DialerMatchesRegistry
PROPERTIES
  ConnectNilMeansConnected
  
  StreamsSettle
  CancelUnblocksAccept
  CancelClosesChannel
CHECK_DEADLOCK FALSE
