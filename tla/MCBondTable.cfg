SPECIFICATION FairSpec
CONSTANTS
  Addr <- MCAddr
  MaxNum = 2
  SectorSlots = 5
  CleanSlots = 2
  FlashSlots = 7
  MaxAdds = 6
  MaxCuts = 2
INVARIANTS
  TypeOK
  TableIsDurable
  NoMixedAddress
PROPERTIES
  ImplementsBondSet
  StartUpEnds
CHECK_DEADLOCK FALSE
