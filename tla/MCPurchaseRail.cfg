SPECIFICATION PurchaseSpec
CONSTANTS
  a = a
  b = b
  r1 = r1
  NoRoute = NoRoute
  Stocks = {a, b}
  Founding <- FoundOne
  MaxConstituents = 2
  TimelockDelay = 1
  LastTimestamp = 4
  Routers = {r1}
  MaxTtl = 2
  Quotes <- OneOrTwo
  Deadlines <- EarlyAndLate
  ShelvedAdapters <- NewAndUsed
  Thresholds <- OnlyZero
  MaxInflow = 3
  MaxStray = 1
INVARIANTS PurchaseTypeOK WethAccounted
PROPERTIES PurchaseIsWhole FeesLeaveAsStock RouteServesOnce BoughtInSession
