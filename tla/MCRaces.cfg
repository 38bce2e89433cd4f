SPECIFICATION RaceSpec
CONSTANTS
  alice = alice
  bob = bob
  Users = {alice, bob}
  FeeRevenue = fees
  InitialBalance <- RaceFunds
  Orders = {o1, o2, o3}
  Requests <- AllRequests
  CancelCalls = {c1, c2}
  MinimumNotional = 1
  MakerFee = 0
  TakerFee = 1
  FeeScale = 2
  SlipNum = 3
  SlipDen = 2
  MaxInFlight = 5
  MayFail = TRUE
  MaxRestarts = 1
INVARIANTS TypeOK AvailableNonNegative ValueConserved FilledMatchesTrades EngineWithinOrders
  ReservationsAreLocked
PROPERTIES HoldsStayClosed ReleasesOnlyWhatIsHeld
SYMMETRY CallSymmetry
CHECK_DEADLOCK FALSE
