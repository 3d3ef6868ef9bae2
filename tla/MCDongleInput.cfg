SPECIFICATION Spec
CONSTANTS
  NormalKeys = {n}
  SysKeys = {s}
  MediaKeys = {m}
  NoKey = none
  RingSize = 2
  MaxReports = 3
  MaxEvents = 2
INVARIANTS TypeOK PressedIsTracked
PROPERTY EverythingIsReleased
CHECK_DEADLOCK FALSE
