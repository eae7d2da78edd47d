SPECIFICATION RecordSpec
CONSTANTS
  AccountIds = {1, 2}
  MaxEntries = 4
  TransferIds = {1}
  TradeIds = {1, 2, 3}
  Currencies = {"CNY"}
  CNY = "CNY"
  ProceedsFlags = {FALSE}
  StartBalances = {4}
  AdjustmentAmounts = {2}
  TransferAmounts = {2}
  TargetSkews = {0}
  FxRates = {1}
  Symbols = {"s"}
  Quantities = {2, 5}
  Prices = {1, 2}
  Days = {1, 2}
  MaxQuantity = 5
  MaxFetched = 20
  MaxRequests = 3
INVARIANTS
  FirstInFirstOut
  ExactWhenSpaced
  ProfitsAtFifoCost
  AuditsTellTrades
  ListingFailsOnlyAfterDelete
PROPERTIES
  OneRecordPerRequest
