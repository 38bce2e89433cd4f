SPECIFICATION FairSpec
CONSTANTS
  Symbols = {btcusdt}
  Prices = {1, 2}
  Hooks = {h1}
  None = None
  Sent = Sent
INVARIANTS OneFeed UnmountedLeavesNothing
PROPERTIES ImplementsTickerSource RestingTickersAreShown
CHECK_DEADLOCK FALSE
