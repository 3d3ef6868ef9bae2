SPECIFICATION Safety
CONSTANTS
  KbdKeys = {k}
  ConsKeys = {c}
  VoiceKeys = {m}
  NoKey = none
  OtaShines = 1
  MaxConns = 2
  MaxPresses = 1
PROPERTY MicNeedsLongPress
CHECK_DEADLOCK FALSE
