SPECIFICATION PortfolioSpec
CONSTANTS
  AccountIds = {1, 2}
  MaxEntries = 5
  TransferIds = {1}
  TradeIds = {1, 2}
  Currencies = {"CNY", "USD"}
  CNY = "CNY"
  ProceedsFlags = {FALSE}
  StartBalances = {3}
  AdjustmentAmounts = {}
  TransferAmounts = {2}
  TargetSkews = {1}
  FxRates = {2}
  Symbols = {"s"}
  Quantities = {2}
  Prices = {0, 1}
  Days = {1}
  MaxQuantity = 2
INVARIANTS
  BalanceIsLedgerSum
  TransfersPaired
  EntriesPlaced
  SettlementsBacked
PROPERTIES
  FundingCovered
  WithdrawalsCovered
