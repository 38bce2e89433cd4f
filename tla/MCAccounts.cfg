SPECIFICATION AccountsSpec
CONSTANTS
  alice = alice
  bob = bob
  carol = carol
  bot = bot
  c1 = c1
  c2 = c2
  c3 = c3
  Users = {alice, bob, carol, bot}
  Registered = {alice, bob, bot}
  Protected = {alice}
  Calls = {c1, c2, c3}
  Workloads <- AccountWorkloads
  MaxAttempts = 2
  OpeningBalance <- NoBalances
  GrantAmount = 1
  MayTimeOut = TRUE
  MayFail = TRUE
  Bot = bot
  SeedAmount = 2
  Traders = {bob}
  MaxRestarts = 1
INVARIANTS OneTimeCodes EveryFailureCounted TwoFactorConsistent
  NoOverdraft BalancesMatchEntries RowsMatchLedger TimersAccountedFor AdjustmentsAudited RegisteredIsGranted
CHECK_DEADLOCK FALSE
