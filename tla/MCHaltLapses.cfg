\* Two symbols, two exchanges, no failure; any number of nights.
SPECIFICATION MonitorFairSpec
CONSTANTS
  buy = buy
  sell = sell
  s1 = s1
  s2 = s2
  OrderIds = {buy, sell}
  Quantity <- MCQuantity
  BuyOrders = {buy}
  Symbols = {s1, s2}
  SymbolOf <- MCSymbolOf
  Exchanges = {"IDX", "ALPACA"}
  ExchangeOf <- MCExchangeOf
  TTL = 12
  MaxExceptions = 0
  MaxResumes = 0
PROPERTIES
  BrokenStaysHalted
