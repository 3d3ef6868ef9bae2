SPECIFICATION FairSpec
CONSTANTS
  SectorPages = 2
  SlotPages = 6
  LimitPages = 5
  Sizes <- MCSizes
  TornErase = TRUE
  MaxCuts = 2
  MaxFaults = 2
  MaxUpdates = 2
INVARIANTS
  TypeOK
  AppRunsWholeImage
  SourceUntilInstalled
  HangKeepsOldImage
PROPERTIES
  UnbootableOnlyInWindow
  FlagClearedOnlyWhenInstalled
  UpdateEnds
  ImplementsFirmwareUpdate
CHECK_DEADLOCK FALSE
