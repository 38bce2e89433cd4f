SPECIFICATION FairSpec
CONSTANTS
  Symbols = {btcusdt}
  Prices = {21, 29}
  Bot = bot
  Trader = trader
  Offsets <- OneLevel
  Tick = 2
  Quantity = 1
  Enabled = TRUE
  Refreshes = {r1, r2}
  MaxTrades = 1
  MaxFailures = 1
  MaxRestarts = 1
INVARIANTS OneGenerationOfQuotes QuotesStraddleReference
PROPERTIES PausedBeginsNothing KeepsRefreshing
CHECK_DEADLOCK FALSE
