SPECIFICATION Safety
CONSTANTS
  Images <- MCImages
  Per16K = 2
  Buffers = 3
  FifoSize = 2
  MaxReplies = 2
  MaxCmds = 1
  MaxLosses = 1
  MaxNotify = 0
PROPERTY AckedMeansReceived
CHECK_DEADLOCK FALSE
