SPECIFICATION Spec
CONSTANTS
  alice = alice
  bob = bob
  Users = {alice, bob}
  FeeRevenue = fees
  InitialBalance <- RaceFunds
  Orders = {o1, o2, o3}
  Requests <- RaceRequests
  CancelCalls = {}
  MinimumNotional = 1
  MakerFee = 0
  TakerFee = 1
  FeeScale = 2
  SlipNum = 3
  SlipDen = 2
  MaxInFlight = 3
  MayFail = FALSE
  MaxRestarts = 0
INVARIANT LockedEqualsActiveHolds
CHECK_DEADLOCK FALSE
