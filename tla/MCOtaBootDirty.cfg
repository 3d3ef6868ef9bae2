SPECIFICATION Spec
CONSTANTS
  SectorPages = 2
  SlotPages = 6
  LimitPages = 5
  Sizes <- MCSizes
  TornErase = FALSE
  MaxCuts = 1
  MaxFaults = 0
  MaxUpdates = 1
INVARIANT AreaErasedForNextOta
CHECK_DEADLOCK FALSE
