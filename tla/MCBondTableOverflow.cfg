SPECIFICATION Spec
CONSTANTS
  Addr <- MCAddr
  MaxNum = 1
  SectorSlots = 5
  CleanSlots = 2
  FlashSlots = 7
  MaxAdds = 6
  MaxCuts = 0
INVARIANT LogStaysInSector
CHECK_DEADLOCK FALSE
