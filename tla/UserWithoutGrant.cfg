SPECIFICATION Spec
CONSTANTS
  alice = alice
  bob = bob
  carol = carol
  bot = bot
  c1 = c1
  c2 = c2
  c3 = c3
  Users = {alice, bob, carol, bot}
  Registered = {alice, bob, bot}
  Protected = {alice}
  Calls = {c1, c2, c3}
  Workloads <- RegistrationWorkloads
  MaxAttempts = 2
  OpeningBalance <- NoBalances
  GrantAmount = 1
  MayTimeOut = FALSE
  MayFail = FALSE
  Bot = bot
  SeedAmount = 2
  Traders = {}
  MaxRestarts = 0
INVARIANT GrantedWhenExists
CHECK_DEADLOCK FALSE
