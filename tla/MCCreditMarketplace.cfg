\* Two traders and two tokens; prices with and without rounding.
SPECIFICATION MarketSpec
CONSTANTS
  a = a
  b = b
  cr = cr
  pay = pay
  Market = market
  Account = {a, b}
  Token = {cr, pay}
  Credits = {cr}
  Admins = {a}
  FeeRecipients = {b, market}
  FirstAdmin = a
  Wealth = 3
  OrderAmounts = {1, 2}
  Prices = {1, 3}
  Fees = {2, 4}
  Gifts = {3}
  PricePrecision = 2
  BpsDenominator = 4
  MaxFeeBps = 3
  MaxOpenOrders = 1
  MaxBatchFill = 2
  MaxOrders = 2
INVARIANTS
  MarketTypeOK
  EscrowCoversOpenOrders
  OpenOrdersAreIndexed
PROPERTIES
  ClosedOrdersAreFinal
CHECK_DEADLOCK FALSE
