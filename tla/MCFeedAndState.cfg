CONSTANTS
  MaxSequence = 5
  Unlimited = Unlimited
  Quotas = {0, 2}
  MaxPackets = 4
  Body = {"good", "bad"}
  Decodable = {"good"}
  Packets <- MCPackets
  Answers <- MCAnswers
  Instrument = {"A", "B"}
  OrderId = {1, 2, 3, 4}
  Price = {1, 2}
  MaxOrder = 2
  TradingState = {"Halted"}
  RegShoState = {"NoRestriction"}
  Adds <- MCAdds
  StoreCapacity = 3
  MaxQuantity = 3
  EventLimit = 2
  Replacements <- MCReplacements
  MaxMessages = 6
  MaxRejected = 1
SPECIFICATION BothSpec
INVARIANTS HandlerInv QuotaIsMet StateInv QuoteIsCurrent GapsShowDrops
PROPERTY ImplementsFeed
