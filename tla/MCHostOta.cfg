SPECIFICATION Spec
CONSTANTS
  Images <- MCImages
  Per16K = 2
  Buffers = 3
  FifoSize = 2
  MaxReplies = 2
  MaxCmds = 2
  MaxLosses = 1
  MaxNotify = 1
INVARIANTS TypeOK PayloadIntact RemoteSeesNoGap
PROPERTIES SuccessMeansReceived BeginsOnlyWhenAsked DownloadEnds ReadIsAnswered
CHECK_DEADLOCK FALSE
