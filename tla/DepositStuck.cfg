SPECIFICATION FairSpec
CONSTANTS
  alice = alice
  bob = bob
  carol = carol
  bot = bot
  c1 = c1
  c2 = c2
  c3 = c3
  Users = {alice, bob, carol, bot}
  Registered = {alice, bob, bot}
  Protected = {alice}
  Calls = {c1, c2, c3}
  Workloads <- DepositWorkloads
  MaxAttempts = 2
  OpeningBalance <- Balances
  GrantAmount = 1
  MayTimeOut = FALSE
  MayFail = FALSE
  Bot = bot
  SeedAmount = 2
  Traders = {alice}
  MaxRestarts = 0
PROPERTY EveryDepositConfirmed
CHECK_DEADLOCK FALSE
