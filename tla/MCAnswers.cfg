SPECIFICATION AnswersSpec
CONSTANTS
  alice = alice
  bob = bob
  o1 = o1
  o2 = o2
  o3 = o3
  o4 = o4
  Users = {alice, bob}
  FeeRevenue = fees
  InitialBalance <- AnswerFunds
  Orders = {o1, o2, o3, o4}
  Requests <- AnswerRequests
  CancelCalls = {c1}
  MinimumNotional = 1
  MakerFee = 0
  TakerFee = 1
  FeeScale = 2
  SlipNum = 3
  SlipDen = 2
  MaxInFlight = 3
  MayFail = FALSE
  MaxRestarts = 0
PROPERTY EveryCallAnswered
CHECK_DEADLOCK FALSE
