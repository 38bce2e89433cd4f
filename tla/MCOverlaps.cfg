SPECIFICATION HistorySpec
CONSTANTS
  alice = alice
  bob = bob
  Users = {alice, bob}
  FeeRevenue = fees
  InitialBalance <- OverlapFunds
  Orders = {o1, o2, o3}
  Requests <- OverlapRequests
  CancelCalls = {c1}
  MinimumNotional = 2
  MakerFee = 0
  TakerFee = 1
  FeeScale = 2
  SlipNum = 3
  SlipDen = 2
  MaxInFlight = 2
  MayFail = TRUE
  MaxRestarts = 1
INVARIANTS LockedFollowsHolds HoldCoversRemaining BookMirrorsOrders
PROPERTIES BookUncrossed 
SYMMETRY CallSymmetry
CHECK_DEADLOCK FALSE
