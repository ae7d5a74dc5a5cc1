SPECIFICATION FairSpec
CONSTANTS
  NumSegs = 5
  DupAckThresh = 2
  SegSize = 2
  KRounds = 2
  Estimates = {0, 5}
  SameRtt = SameRtt
  WordSize = 32
  InitialCwnd = 8
  InitialSsThresh = 8
  DataRetries = 2
  DelAckCount = 2
  MaxDrops = 2
  MaxSpurious = 1
INVARIANTS TypeOK ScoreboardConsistent UnaNotSacked LostFromBelow AcknowledgedIsReceived CongestionStates TimerRuns GivesUpOnlyForLosses
PROPERTIES TimeoutSendsHead SendsWithinWindow RecoveryIsPaced DeliveredAtLast
CHECK_DEADLOCK FALSE
