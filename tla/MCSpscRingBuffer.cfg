CONSTANTS
  Capacity = 4
  Value = {a, b}
  Raw = Raw
  Moved = Moved
  Nothing = Nothing
SPECIFICATION FairSpec
INVARIANTS IInv SlotsAreUsedRight NoDataRace
PROPERTIES ImplementsFifo TransfersGoOn
CHECK_DEADLOCK FALSE
