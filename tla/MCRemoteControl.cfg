SPECIFICATION Spec
CONSTANTS
  KbdKeys = {k}
  ConsKeys = {c}
  VoiceKeys = {m}
  NoKey = none
  OtaShines = 1
  MaxConns = 2
  MaxPresses = 2
INVARIANTS TypeOK KbdKeyIsReleased
PROPERTIES DeepSleepLeavesNothingOpen QuietRemoteSleeps
CHECK_DEADLOCK FALSE
