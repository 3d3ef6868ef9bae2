SPECIFICATION Spec
CONSTANTS
  Wrap = 12
  Ring = 4
  Units = 3
  ResetLen = 1
  MaxStops = 1
  MaxPauses = 1
INVARIANTS TypeOK NoTornFrame MicBacklogBounded
PROPERTY SoundComesBack
CHECK_DEADLOCK FALSE
