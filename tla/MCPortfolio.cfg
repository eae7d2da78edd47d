SPECIFICATION PortfolioSpec
CONSTANTS
  AccountIds = {1}
  MaxEntries = 3
  TransferIds = {}
  TradeIds = {1, 2, 3}
  Currencies = {"CNY"}
  CNY = "CNY"
  ProceedsFlags = {FALSE}
  StartBalances = {3}
  AdjustmentAmounts = {}
  TransferAmounts = {}
  TargetSkews = {0}
  FxRates = {2}
  Symbols = {"s"}
  Quantities = {2, 4}
  Prices = {1}
  Days = {1, 2}
  MaxQuantity = 2
INVARIANTS
  TradesReplay
  PositionsHeld
  LiveTradesSettled
PROPERTIES
  BalanceAsTyped
