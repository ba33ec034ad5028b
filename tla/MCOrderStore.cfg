SPECIFICATION FairStoreSpec
CONSTANTS
  Capacity = 4
  OrderId = {1, 2, 3, 4, 5}
  Data = {a, b}
  Hash <- MCHash
  Empty = Empty
  NoCall = NoCall
  NoData = NoData
INVARIANT StoreInv
PROPERTIES ImplementsMap CallsReturn
