# TLA+ for crypto_changer

Specifications, model-checking configurations and proofs for the exchange in
`src/`: a NestJS backend over PostgreSQL (Prisma), an in-memory matching engine
per market, and a React frontend.

    tlasany M.tla                              # parse
    tlc -workers 2 -config X.cfg M.tla         # model-check
    tlapm M_proofs.tla                         # prove

## 1. The system

| Component | State | Operations | Talks to |
|---|---|---|---|
| Matching engine (`modules/matching/engine`) | price levels of both sides, sequence | `submit`, `cancel`, `snapshot` | called by MatchingService, synchronously |
| MatchingService | one engine per market | `onModuleInit`, `submitAndSettle`, `settleFill`, `cancelResting` | engine, Balances, Ledger, database |
| OrdersService | none | `createOrder`, `cancelOrder`, lists | Balances, MatchingService, database |
| BalancesService | Account.locked, Hold rows | `lockFunds`, `reduceHold`, `releaseHold` | database |
| LedgerService | Account.available, LedgerTransaction, LedgerEntry | `postTransaction`, `getOrCreate*Account`, `grantTestLiquidity` | database |
| WalletsService | Deposit, Withdrawal rows, timers | `createDeposit`, `confirmDeposit`, `createWithdrawal`, `runWithdrawalProgress` | Ledger, Auth |
| AdminService, AuditService | User.status, Market rows, AuditLog | status, market and balance changes, pause/resume of the bot | Ledger, MarketMaker |
| MarketMakerService | timer, `refreshing`, bot user | `start`, `pause`, `refreshAll`, `seedBalances` | OrdersService, MarketData, Ledger |
| AuthService | User login and 2FA columns, backup codes | `register`, `login`, `refresh`, 2FA set-up, confirm, disable | Ledger |
| MarketDataService | tickers, socket, backoff | `connect`, `getTickers`, `getKlines` | external feed |
| Frontend | tokens, polled data | `request`, `tryRefresh`, `usePolling`, `useTickers` | backend |
| markets, assets, users, trades, controllers | none | queries, request translation | database |

Every request is its own chain of awaits; the transactions of concurrent
requests interleave statement by statement (no isolation level is set, so
PostgreSQL runs them READ COMMITTED), and the engine is outside all
transactions. Money and orders, in the first five rows, are where this is
hardest; timers that live in the process, user rows that are read long before
they are written, sockets that close late and answers that overtake each other
are the rest. The places where it bites are in `PROJECT.json` under `hazards`,
each at its line.

What makes the components correct:

* engine: price-time priority, an uncrossed book, no order of a user meets
  another of the same user, no shares made or lost;
* orders and balances: nobody spends what is not there, the funds of an asset
  are conserved, an open order has its funds reserved and a closed one none,
  filled quantities are those of the trades, engine and database agree;
* wallets, admin: a deposit is credited and a withdrawal debited once and with
  its row, what is on its way has somebody who will finish it, nobody spends
  more than there is, what changed is audited;
* auth: lockout counts every failure, a backup code works once, the codes that
  are demanded are those the user confirmed;
* market maker: one generation of quotes, on their side of the reference price,
  one refresh at a time, none while paused;
* feed: one connection, prices that survive it, nothing left by a page that is
  gone; frontend: the session is the user's choice, a form is executed once, no
  answer for another key is shown, and what rests is shown in the end.

## 2. Modules

| Module | Models | Needs |
|---|---|---|
| `Sums` | finite sums, as sizes of token sets | |
| `Matching` | price-time priority in closed form on a set of orders | `Sums` |
| `EngineInterface` | what callers of the engine see: orders, counter, results | `Matching` |
| `PriceTimePriority` | abstract engine: one step per call | extends `EngineInterface` |
| `OrderBook` | `order-book.ts`: arrays of price levels, binary search | |
| `MatchingEngine` | `matching-engine.ts`: one step per pass of the loop | extends `OrderBook`, `EngineInterface`; refines `PriceTimePriority` |
| `Exchange` | orders.service, matching.service, balances.service, TRADE_FILL of ledger.service | `Matching` |
| `Overlaps` | history of `Exchange`: which orders two calls have worked on, whose call was undone, who was overtaken | extends `Exchange` |
| `Auth` | auth.service, two-factor codes, the admin's status changes, audit records | |
| `Funds` | LedgerService without trades, WalletsService, `register`, `createBalanceAdjustment` | extends `Auth` |
| `Accounts` | the two together, crashes, `ensureBotUser` and `seedBalances` | extends `Funds` |
| `MarketMaker` | market-maker.service, with trades, halts and the reference price around it | `Matching` |
| `TickerSource` | abstract source of prices that go stale | |
| `MarketData` | market-data.service: sockets, reconnection, shutdown | `TickerSource` |
| `Tickers` | the feed, market-data.gateway and `useTickers` of each page | extends `MarketData`; refines `TickerSource` |
| `Client` | api/client.ts: tokens, requests, refresh and retry; the server as the browser sees it | |
| `Pages` | what pages and components fetch, poll and submit | extends `Client` |
| `MCMatchingEngine`, `MCExchange`, `MCOverlaps`, `MCAnswers`, `MCAccounts`, `MCMarketMaker`, `MCPages` | instances for TLC | |
| `SumLemmas`, `MatchingEngine_proofs`, `Exchange_proofs`, `ExchangeFills_proofs`, `Accounts_proofs`, `MarketMaker_proofs`, `Tickers_proofs`, `Pages_proofs` | lemmas, theorems, proofs | |

### Engine

`MatchingEngine` keeps `bids` and `asks` as the code does. `Submit` starts a
call, `Fill` is one pass of the `while` loop, `Finish` leaves it and is
`finalize`. The loop is synchronous JavaScript: no other call of the engine can
be between its passes, hence `taker = NoTaker` in `Submit` and `Cancel`.
`PriceTimePriority` says what the whole call does in one step; the refinement
(`ImplementsPriceTimePriority`) maps a state inside the loop to the book and the
result the loop is bound to reach. So `Exchange` may use the closed form of
`Matching` for the call it makes.

### Exchange

One market, base and quote asset. The state is what the database has committed
(`account`, `order`, `hold`, `trades`), the memory of the backend (`book`,
`arrivals`), and the calls: `create[o]` is the call of `createOrder` that makes
order `o`, `cancel[c]` a call of `cancelOrder`, `tx[p]` the open transaction of
call `p` (rows it has locked, changes it will commit).

A handler is cut into blocks, each ending where another handler can matter: at
a read of rows others commit, or at the engine. What a block writes before that
read is visible to its own transaction only. A block that writes waits (`Free`)
until nobody else has locked the rows it writes.

| Action | Code |
|---|---|
| `ReceiveOrder` | `createOrder` up to the notional check, with the snapshot a MARKET order reads |
| `PlaceOrder` | transaction of `order.create` and `lockFunds`; its guarded update fails or succeeds as a whole |
| `SubmitOrder` | `engine.submit` |
| `ReadBuyerHold`, `ReduceBuyerHold` | `settleFill`: `reduceHold` of the buyer, read and write |
| `PostFill`, `SettlementShort` | `reduceHold` of the seller, `trade.create`, `postTransaction`; or InsufficientBalanceError |
| `FillMaker`, `FillTaker` | `applyFillToOrder`, twice |
| `ReadRemainderHold`, `CancelRemainder` | the cancelled remainder in `submitAndSettle` |
| `CommitSettlement` | end of that transaction |
| `ReceiveCancel`, `MarkCancelled`, `ReleaseHold`, `CommitCancel` | `cancelOrder`: read and check, update, `releaseHold` and `cancelResting`, commit |
| `FailTransaction` | deadlock victim, 5 s transaction limit, lost connection |
| `Restart` | crash at any point and `onModuleInit` |

Abstractions. Prices and quantities are natural numbers of ticks and steps; the
Decimal columns are exact at the scale used, and fees round down to a step
(`FeeOf`) instead of to 18 decimals. `Requests` holds dtos that pass the checks
of step, tick, minimum quantity and market status, which only read immutable or
admin data. Accounts exist from the start. Each order is cancelled by its owner.
A fill has a field `ahead`, the quantity filled before it, in place of its
index. External in `map`: visibility of rows, row locks, commit and abort, as
PostgreSQL documents READ COMMITTED.

`Overlaps` adds history to `Exchange` and takes none of its steps away. A call works
on its own order and the orders its fills are against, or on the one it cancels
(`WorksOn`). `shared` are the orders that two calls have worked on at once: nothing
in the code keeps them apart, and there rows, holds and engine may part. `adrift`
are the orders whose call was undone since the book was last built: the engine has
matched or dropped them, the database has not. `overtaken` are those that came to
the engine after a newer one was created, since the await between the two phases of
`createOrder` lets one pass another. The properties are about each order that is
none of these, whatever goes on beside it.

### Accounts: logins, codes, funds

A call has a kind, a user, and for a login whether the password is right; all
calls overlap. `Auth` cuts a handler at each await after which it uses something
it read before: the user row is kept in `seen` for the rest of the call, the
unused backup codes in `unused`. What a client types is chosen among the codes
it can know (`KnownCodes`). An access token is not checked against the status of
its user, as in the code: only logins and refreshes are.

| Action | Code |
|---|---|
| `Login`, `FailedAttempt`, `NeedsCode`, `LoginSucceeds`, `AuditLogin` | `login`, `registerFailedAttempt` |
| `ReadCodes`, `UseCode`, `RefuseCode` | `verifyTwoFactorCode` |
| `SetupTwoFactor`, `WriteSecret`, `ConfirmTwoFactor`, `EnableTwoFactor`, `DisableTwoFactor`, `RemoveTwoFactor` | the two-factor settings, up to and from their awaits |
| `UpdateUserStatus`, `WriteStatus`, `Record` | admin.service, then audit.service |
| `Register`, `CreateDeposit`, `ConfirmDeposit`, `CreateWithdrawal`, `WithdrawalVerified`, `CreateBalanceAdjustment` | handlers up to their transactions |
| `CreateUser`, `CommitWithoutGrant`, `FindFirst`, `CreateFirst`, `FindSecond`, `CreateSecond`, `Debit`, `CreditAndCommit` | that transaction, for all of them: accounts found or created, debit, credit, rows of the handler, commit; a registration that finds no asset commits the user alone |
| `SeedAssets` | prisma/seed.ts, at any time: without it the handlers find no asset |
| `AdvanceWithdrawal` | `runWithdrawalProgress`: the timers are the rest of the call |
| `FailTransaction` | deadlock victim, time limit |
| `Break` | a statement that throws of itself: the handler rejects, a timer only logs (wallets.service.ts:48, 146), what was committed before stays |
| `LockFunds`, `ReleaseFunds` | orders of the same user, as in `Exchange` |
| `Restart` | crash: calls, transactions and timers are gone; start-up until the server listens |

Abstractions: one asset; two-factor codes do not expire; a lockout ends at any
time; hashes, secrets and tokens are names. `met` (which calls a call has
overlapped) and `streak` (failures since the last success or lockout) are
history: the properties that only hold for calls that do not overlap say with
`met` which overlap they exclude.

### Market maker

`MarketMaker` has one action per await of a refresh. createOrder and cancelOrder
of the bot are one step each, with the matching of `Matching`: what happens
inside them is in `Exchange`. The live price is any price at any time, which
is what `TickerSource` promises; the audit records of the admin's calls are left
out. `uncancelled` is history: orders whose cancellation failed.

### Tickers

Sockets and timers are counted, as nothing but the code keeps them from being
many. A socket that emits an error, or is closed, still has its `close` event to
come (`failing`). `wire` holds one snapshot at a time for each page. The length
of a reconnection delay, and with it `reconnectAttempts`, is left out.

### Client and pages

`Client` has the life of a call of `request()`: sent, answered, perhaps 401 and
then a refresh and a second attempt. A form whose password or code is wrong is
answered 401 too (`Credentials`). `Pages` models what the pages have in common
once, an effect on mount and key change, an interval, a form with its busy flag,
and says in tables which page has what. The pages of a screen share nothing but
the session, so one of them, with the requests that earlier ones left behind,
stands for all. `session` is history: who the user means to be logged in, or
`Unsure` where an overlap of the code's own making leaves it open.

## 3. Runs

| Run | cfg | Question | Instance |
|---|---|---|---|
| `arrays` | MCMatchingEngine | Does the loop over the arrays implement priority matching, does the book stay uncrossed, do levels and queues stay sorted, without empty ones? | 3 prices, quantities 1-2, 3 submits: three levels on a side, a taker over two makers, partial fills, self-trade at either place |
| `races` | MCRaces | What holds when any calls overlap, fail and restart? | two workloads: a bid of 2, sells of 1 or a MARKET sell of 2 into it and a cancellation; two bids on the same funds and two cancellations, possibly of one bid; all open at once, a restart |
| `overlaps` | MCOverlaps | Do rows, holds, locked funds and book agree for the orders that no two calls work on? | 3 orders of six kinds and a cancellation, any two open at once: price improvement, self-trade, MARKET remainders, a MARKET BUY rolled back, failures, restart |
| `answers` | MCAnswers | Is every call answered? | two workloads, all calls open at once: a bid of two lots, two sales that fill it and a cancellation; a bid and an ask of one user, both taken by the other, and a cancellation of one of them |
| `accounts` | MCAccounts | Do logins, codes and settings, balances and ledger, deposits and withdrawals, grants and audit records stay right when calls overlap, break and crash? | eighteen mixes of three calls: nine of logins, codes, settings and status, lockout at 2 failures; five of transfers over one unit, with orders of the same user and missing accounts; four of registrations of one email, the assets seeded before, between or not at all; a restart |
| `quotes` | MCMarketMaker | Does the bot keep one generation of quotes on the right side, and refresh for ever? | one market, two prices off the tick, one level per side, 2 refreshes at once if the code allowed it, a trade, a failure, a restart, any pauses and halts |
| `tickers` | MCTickers | One feed, nothing left behind, the right tickers in the end? | one symbol, two prices, one page; any number of breaks |
| `browser` | MCPages | Are session, forms and data on screen right when requests overlap? | two users, two keys, two requests at once, every page; six mixes of expiries, failures, logouts, suspensions, visits, key changes, submissions |

`MaxInFlight` is how many calls clients have open; the proofs do without it.
`MCRaces` has more calls than any of the known lost updates needs (two, or one and
a cancellation), and funds for only one of two bids, so that a reservation can be
refused; where lots are sold into the bid it has one cancellation, which keeps the
run short. In `overlaps` two calls are enough: what one leaves to the other is the
same whoever else is open, and the third order is there to be filled, cancelled or
overtaken beside them. In `answers` a settlement and a cancellation wait for each
other over the rows of one bid, two settlements do, over one bid and, crossed, over
the accounts of both users, and two settlements and a cancellation of the order they
fill are under way at once; a crash only loses calls, and is left to the other runs.
`MaxSubmits`, `MaxRestarts`, the finite sets of
calls, `MaxTrades`, `MaxFailures`, `Slots` and `Budgets` are the only other bounds;
every call is made at most once, so exchange and accounts stop when all are over,
and so does a page without an interval, hence `CHECK_DEADLOCK FALSE` there. Orders
and cancellations are interchangeable (`CallSymmetry`): requests and targets are
chosen in `Init` for each.

The workloads over `Accounts` are mixes because what can go wrong takes calls that
touch the same rows: three failing logins; logins, a withdrawal and a removal
with the same backup code; set-ups and confirmations; two or three registrations
of one email and a credit; first deposits of one user; withdrawals, debits and
orders over one unit. Nobody but the bot owns anything before that, and only
registrations meet a database without assets. A failure takes two overlapping calls, and the third is there
to meet either. In `browser`, two requests at once are enough for an answer to
overtake another, and for two refreshes; a mix fixes how often each event
happens, and events that do not matter to one property are left to another mix.

This is the boundary the runs draw in the exchange: with calls that overlap on
any orders it keeps available balances non-negative, conserves funds, never
reopens a hold, records fills exactly and never offers more than an order has
left (`races`). Holds, locked funds and book keep in step with the rows for orders
that no two calls have worked on (`overlaps`), and do not for others
(`lost_hold_update`). As long as there are only bids, so that nothing settles, even
orders that two cancellations work on keep locked funds and holds in step
(`ReservationsAreLocked` of `races`).

Fairness. In `Exchange` and `Accounts`, weak fairness of every block of a call
that was accepted, as Node runs every ready continuation and timer and PostgreSQL
every statement that waits for nothing; and of `FailTransaction` for a call that
keeps waiting, which is the deadlock detector and the time limit of Prisma
transactions. In `MarketMaker`, of the interval and of the continuations of a
refresh. In `Tickers`, of timers and handlers, and strong fairness of accepting
a connection or delivering a message that is tried again and again: it may be
refused or lost any number of times, not always. In `Pages`, of the interval and
of the next step of each request, which the browser ends with an error when the
network does not. Nothing is assumed of clients, users, failures or restarts.

### Disagreements with comments and documents

Four runs must find their property violated; the quotations are in `PROJECT.json`
under `findings`.

| Run | Property | Statement it refutes |
|---|---|---|
| `lost_hold_update` | `LockedEqualsActiveHolds` | ledger-design.md:59 (and :50) |
| `deposit_stuck` | `EveryDepositConfirmed` | wallets.service.ts:47, under fairness and without crashes or statements that throw: the unique index is enough |
| `user_without_grant` | `GrantedWhenExists` | auth.service.ts:43-44: a user can never exist without the welcome grant. The branch at 62-67, whose comment says so, commits one when the assets are not seeded; only the seed makes the difference, as `RegisteredIsGranted` says |
| `adjustment_unrecorded` | `AdjustmentsCaptured` | admin.service.ts:130-134: the record follows the commit (165) and may throw |

### Known consequences

What else follows from the models, and where the properties draw their line:

* `reduceHold` after a release takes `locked` below zero (ledger-design.md:56).
* An order cancelled between its two phases is submitted all the same
  (orders.service.spec.ts:147 calls it off the book), and an order filled while
  its cancellation waits is marked CANCELLED (orders.service.ts:160).
* A MARKET BUY that walks beyond its buffer settles short and is rolled back
  (matching.service.ts:37-39); a restart queues orders of a level by `createdAt`,
  not by the order in which the engine saw them (59-60).
* A settlement that is rolled back leaves the engine without the makers it
  matched; a cancellation that fails at its commit has taken the order off the
  book already (orders.service.ts:171). These orders are `adrift`: the properties
  about the book leave them out until a restart, which repairs both.
* An order that was lost between its two phases is put on the book without being
  matched and may cross it (matching.service.ts:66): `BookUncrossed` allows a
  restart to do so with orders that were worked on or adrift, and with no others.
* Two overlapping logins read the same backup code as unused and are both let in by
  it (auth.service.ts:201-212; schema.prisma:128 calls the codes one-time):
  `OneTimeCodes` excludes the overlap only.
* The bot is seeded at every start-up at which it owns nothing of an asset, also
  when it has lost an earlier seed (market-maker.service.ts:100, where line 91
  promises a no-op on later boots): `BalancesMatchEntries` has the second seed as an
  entry like the first.
* Overlapping failed logins count once, and a login that succeeds late clears a
  lock set meanwhile (auth.service.ts:115): `EveryFailureCounted` excludes the
  overlap only. Settings that are changed by two calls at once may demand the
  codes of a secret that was not confirmed: `TwoFactorConsistent` excludes that.
* A crash, or an update that throws, leaves deposits and withdrawals where they
  were for good (wallets.service.ts:48, 146), and an adjustment without its audit
  record. `TimersAccountedFor` and `AdjustmentsAudited` say that nothing else does.
* A refresh of the bot that is under way goes on after a pause; orders whose
  cancellation failed stay beside the new ones until the next refresh; an error
  of `findMany` in `refreshAll` is a rejection nobody handles (part of `Restart`).
* A refresh of tokens under way at a logout or login stores its tokens
  afterwards, and one that fails takes away whatever tokens are there; a refused
  request is sent again under the session of the moment, also when it was
  refused for a wrong password or code. `TradePage` shows the market that is
  answered last, not the one asked for last.

### Variants

Definitions introduced by a comment "Variant" are plausible wrong versions of
the definition after them; nothing uses them. `PROJECT.json` pairs each with a
property that fails when it takes the place of the original.

## 4. Proofs

For any number of users, orders, calls, markets and levels, from the named
assumptions of the modules only: finite sets of users, orders and calls that do
not overlap, amounts and prices above zero, fees below one, opening balances not
below zero (`EngineAssumption`, `ExchangeAssumption`, `AuthAssumption`,
`FundsAssumption`, `AccountsAssumption`, `MarketMakerAssumption`,
`FeedAssumption`, `ClientAssumption`, `PagesAssumption`). The system
accounts are no users, and the names of the seeds made at start-up are no calls:
in the code they are rows of other owner types and references of their own. The
offsets of the bot are below 100 %, which the code takes from constants.

### Engine (`MatchingEngine_proofs`, `SumLemmas`)

* `EngineTypeOK`, of the abstract engine, whose steps are whole calls. The sums
  behind "what the makers before it offer" are sizes of token sets (`Sums`), so the
  lemmas of `SumLemmas` come from the library's facts about finite cardinality and
  need no induction.
* `EngineLevelsSorted`. The binary search is a recursive function: that there is
  one (`SearchExists`) and that it finds how many levels come before the price
  (`SearchEnds`, `SearchFinds`) is shown on the smallest interval that would
  disagree. Hence an added level keeps the side sorted (`LevelInserted`,
  `AddFacts`), and the other operations take an order from a queue, or a queue
  from a side (`SideShortened`, `TakeFromBestFacts`, `RemoveOrderFacts`). The
  invariant `EngineInv` adds that identifiers are arrival numbers, unique over
  both sides, and that the taker in the loop is newer than whatever rests: without
  it a rested remainder might stand behind its arrival in the queue.
* `EngineImplements`, the refinement, for books and takers of any size, so that a
  call may take any number of passes. `FillStep`, `FinishStep` and `CancelStep`
  say on the set of resting orders what the steps do to the arrays. One pass of
  the loop leaves the makers of the closed form but what it took of the first
  (`PassMakers`), the same remainder (`PassLeft`), the same amounts of the later
  ones (`PassTaken`), and so the same book and fills (`PassMatched`, `PassFills`);
  where the loop stops, the closed form has nothing to fill (`StopsMatched`) and
  prescribes a self-trade stop just when the loop makes one (`FinishStops`). So a
  pass and the end of the loop stutter, and the call takes effect at its start.

* `EngineUncrossed`, of the arrays: whenever no call is at work, every bid is below
  every ask. In the middle of a call the taker may cross what rests, so `Uncrossed`
  says nothing then and is not inductive. The invariant is that the book the
  refinement maps to, the one the call is bound to leave, is uncrossed
  (`StepUncrosses`): the start of a call puts the closed form there, after which
  either the reachable opposing orders are gone or the taker has nothing left, or the
  self-trade stop keeps it off the book (`MatchedUncrossed`); passes and the end of
  the loop leave it as it is.

### Exchange: funds and holds (`Exchange_proofs`)

* `TypeCorrectness`. Invariant `TypeInv`: `TypeOK`, and that a call in the middle
  of a fill has fills left, so that `NextFill` is one.
* `FundsNeverNegative`, `ValueIsConserved`. Invariant `Inv`, the conjunction of
  - `IdleInv`: a call outside its transaction has nothing pending;
  - `LocksInv`: row locks are exclusive and cover the accounts and holds that a
    transaction will change, so two pending changes never meet on one account;
  - `FundsInv`: committed plus pending available is non-negative, per transaction;
  - `BalancedInv`: pending changes of a transaction sum to zero per asset;
  - `HoldInv`: a hold that a transaction keeps active is active.
  Non-negativity needs the locks: each transaction checked its debit against
  what was committed, and the lock keeps that current until the commit. The
  lemmas follow the life of a transaction: a block (`BlockKeeps`, with what it
  writes described by `Written`), its commit (`CommitKeeps`), its end without one
  (`RollbackKeeps`).
* `HoldsClosedForGood`. `Inv` with `FreshInv`: an order whose call has not placed
  it has no row, is in no open transaction, book or pending fill, and is being
  cancelled by nobody. With `HoldInv` a commit makes no hold active; with
  `FreshInv` the only other writer, `PlaceOrder`, meets no hold that exists.

### Exchange: fills (`ExchangeFills_proofs`)

What a block of a settlement does is described once (`Block`, `Effect`): which
account, hold and order it writes and which trade it adds. The invariants are
preserved by blocks, by the commit, and by what ends without one.

* `ReleasesWhatIsHeld`. `cancelOrder` releases an amount that it read one await
  earlier, and `reduceHold` writes amounts it read before too. Invariant
  `GuardInv`: a cancellation has the row of its order locked from the moment it
  reads the hold (`CancelsGuarded`), and a settlement that has written a hold has
  the row of that order or will write it before it commits (`HoldsFollowed`). A
  settlement that overlaps the cancellation therefore cannot commit, and the
  amount read is still that of the hold (`ReleasesExact`).
* `FillsAreNeverLost`. `FilledMatchesTrades` relates committed rows and trades and
  is not inductive: a settlement records the trade first and the two rows after
  it, each from a row it read one block before. `FillsInv` says of every open
  settlement what it will commit: for each order the row as the settlement sees
  it, with the fill whose row is still to come (`Pend`), is the committed row
  plus the volume of its own trades (`Follows`); the row it read agrees with what
  it will overwrite (`SeenOK`), since the accounts of both owners stay locked from
  the trade on (`TradesOfCall`) and exclude another settlement of either; a
  cancellation that overlaps changes the status only (`WritesOK`). The fills of
  one call are of distinct makers of other users (`FillsOf`), so no row is
  written twice for one trade. Committed trades are those of calls that are done
  (`HistoryOK`), so a commit adds trades nobody counted.
* `EngineNeverOverpromises`, with the same invariant: the book has each order once
  (`BookOK`), an order not yet submitted is neither in it nor in a fill
  (`UnsubmittedOK`), a submit takes from the book what it gives to fills, a commit
  takes the same quantity from the order and from what is not committed, a
  failure only drops fills, and a restart rebuilds the book from what remains.

### Exchange: orders that no two calls work on (`ExchangeFills_proofs`)

Of `HistorySpec`, with any number of calls that overlap in any way, fail at every
step or are lost in a crash. A property is claimed of each order that no two calls
have worked on at once (`shared` has the others), whatever happens to all other
orders meanwhile. Of a shared order it may be false, as the run `lost_hold_update`
shows.

* `LockedIsWhatIsHeld`, `HoldsCoverOrders`. Both compare committed rows that one
  transaction rewrites over several awaits, so neither is inductive. Invariant
  `OverlapInv`, per order that is not shared (`AllCovered`): its committed rows are
  covered (`RowCovered`), and so is what the one call that works on it sees
  (`CallCovered`). A settlement sees a row covered by the hold, but for what the
  hold has given up ahead of the row that is written next (`Reduced`); the hold it
  read is the one it overwrites (`HoldRead`); what it will cancel of the taker is
  what was not matched (`RestKnown`); and nothing it has still to do is about a
  cancelled order (`NotCancelled`). A cancellation leaves its order without hold
  and off the book (`CancelCovered`). For an account none of whose orders is shared
  (`Clean`), what a transaction will unlock is what its holds give up (`LockedBy`).
  `ShapeInv` says what holds of shared orders too: a transaction writes only rows
  of orders its call works on (`WritesLocal`), an open row has something left
  (`RowsShaped`). So the step of a call that does not work on an order leaves its
  rows and the call that does (`OthersStay`, `OthersCovered`), and there is at most
  one such call (`Uncontended`). What each block does to holds and locked funds is
  `Exact`, stronger than the `Effect` that the properties above need.
* `BookIsMirrored`, `BookStaysUncrossed`, `RestartRebuildsBook`. The engine is
  ahead of the database while a settlement is under way, so the invariant
  `MirrorInv` says where everything is that an order has left: on the book, matched
  and not committed, or to be cancelled (`Aligned`, `RestOf`), unless a call was
  undone that had worked on it since the book was last built (`adrift`). It needs
  the matching to lose nothing: the makers give exactly what the taker gets, and
  what the taker does not get rests or is to be cancelled (`SubmitExact` and the
  lemmas before it). Of an order that no call works on nothing is matched or to be
  cancelled, hence the book has what the row has (`InStepBook`). A submit leaves no
  maker that the taker still reaches (`MatchedUncrosses`, `RestClear`). Entries
  stand in the order in which their orders were created, which a restart reads them
  in, but for those that came to the engine after a newer one was created
  (`InOrder`); so what a restart builds of the orders in step is what was there
  (`Rebuilt`), in the priorities it had (`PriorityKept`).

### Accounts (`Accounts_proofs`)

* `NobodyOverdraws`, of the available funds; what is locked is the business of
  `Exchange`. Invariant `Inv`: rows are written by one transaction at a
  time (`Exclusive`), and a transaction past its debit has the row of its payer,
  whose balance covers the amount (`Secured`). `NoOverdraft` alone is not
  inductive, because the debit is checked at one step and committed at a later
  one. Each action either changes neither rows nor funds (`Quiet`), or takes a
  row that is free (`Locks`), or moves funds of users whose rows no other
  transaction past its debit has (`Moves`).
* `BalancesAreEntries`, `FundsMoveOnce`, `NothingIsForgotten`,
  `AdjustmentsLeaveTrail`, `GrantedOnce`. Invariant `Booked`: `Inv`, and
  - `StagesOK`: which steps a call of each kind can be at;
  - `LedgerOK`: every entry is that of its call or the seed of an earlier start,
    so a call that has posted has posted once;
  - `RowsOK`: before the commit nothing is posted, after it something is, and the
    rows of deposits and withdrawals and the audit records say which;
  - `TimersOK`: a row under way has its timer or transaction, unless a statement
    broke (`Break`) or a crash lost it; if the transaction failed, it met a row
    that was free of it before, the work of another call;
  - `ExistenceOK`: whoever acts for a user found the row, and a registration that
    has written the row keeps the unique email to itself, whether it goes on to a
    grant or finds no asset;
  - `GrantsOK`: each user that registered was enrolled by one registration, which
    was granted funds or found no asset (`Enrolled`);
  - `BooksOK`: each balance is its opening and its entries. An entry is new when
    it is made (`LedgerOK`, `RowsOK`), so each sum grows by it.
* `CodesServeOnce`, `FailuresAreCounted`, `CodesDemandedWereConfirmed`. Invariant
  `AuthBooked`: `Booked`, and
  - `OpenOK`: calls that are open together have met, for a property that excludes
    an overlap has to know it while it is still going on;
  - `LoginsOK`: while the logins of a user do not overlap, the attempts that one
    has read are those in the row;
  - `SettingsOK`: while the changes of the settings do not overlap, a set-up under
    way found them off, and a confirmation the secret it was given a code for;
  - `CodesOK`: a code that served is not unused again, codes are generated once,
    and a call about to use a code that served has met the one it served.

### Market maker (`MarketMaker_proofs`)

* `PausedStaysQuiet`: as many intervals tick as the timer names (`SwitchOK`), so
  none ticks while the service is paused.
* `OneGeneration`. Invariant `QuotesInv`: one refresh at a time, by the flag
  (`OneRefresh`); a refresh that still cancels has all its quotes before it; the
  live quotes of its market that it will not cancel and the quotes it has left
  are together no more than two per level (`QuotingOK`). The property bounds what
  is there, this what will be.
* `QuotesStraddle`: rounding to the tick, down for bids and up for asks, starts
  strictly beside the reference price and leads away from it, unless the quote
  would be zero and is not placed. The reference price itself is positive: a
  price of the feed or of a trade, which `PricesOK` follows through matching.

### Tickers (`Tickers_proofs`)

`FeedIsOne`, `GonePagesLeaveNothing`, `TickersImplementSource`, for any symbols,
prices and pages. The first is inductive with the types of the counters; the
second needs that a timer runs only without a socket; the third is a step
simulation with the identity mapping on `ticker`.

### Client and pages (`Pages_proofs`)

`SessionKept`, `FormsRunOnce`, `EarlierKeysAreDropped`, for any users, keys and
requests in flight, from `ClientAssumption` and `PagesAssumption` (there is a
user and a key, and `null` is no token). None is inductive alone. The session is
kept because, while it is beyond doubt, each refresh under way is of its user
and has not failed (`SessionInv`); a form serves once because what was executed
is never answered 401, the only answer after which `request()` goes on
(`RanOnce`), and for its author because as long as that is known neither the
tokens nor a refresh under way are of anybody else (`OwnTokens`); late answers
are dropped because on a guarded page what is live is a fetch for its key
(`Current`).

### Only model-checked

* `ReservationsAreLocked`, which joins the locked funds of orders that several
  cancellations work on.
* Liveness: `EveryCallAnswered`, `KeepsRefreshing`, `RestingTickersAreShown`,
  `RestingDataIsShown`, `EverySubmissionEnds`. A credit and a debit of one user lock
  two accounts in opposite orders; that they come to an end, as settlements do, is
  not checked.

## 5. Not modelled, and next

Not modelled: controllers, guards, DTO validation, rendering, the query-only
services and migrations, which keep no state; of the seeds all but the existence
of the asset (`SeedAssets`); `getKlines`, a pass-through;
changes of fees by the admin, as `Exchange` has the fees of one market as
constants; `packages/validation`, whose decimal rules are pure wrappers of a
library; P2P and notifications, which are empty modules.

Next, by importance:

1. An abstract exchange in which each settlement and cancellation is atomic, and
   which overlapping calls of `Exchange` implement except where section 3 says.
2. Market status and fees that change under `createOrder`.
