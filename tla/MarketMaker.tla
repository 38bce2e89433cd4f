----------------------------- MODULE MarketMaker -----------------------------
(***************************************************************************)
(* MarketMakerService: every few seconds, market by market, it cancels the *)
(* bot's open orders and quotes around a reference price again.  A refresh *)
(* is a sequence of calls between which traders trade, an admin pauses the *)
(* service or halts a market, and the process may stop.                    *)
(*                                                                         *)
(* Each createOrder and cancelOrder of the bot is one step here: module    *)
(* Exchange has what happens inside them.  Quotes and trades survive a     *)
(* restart; the timer and the refresh do not.                              *)
(* The audit record of an admin's call, which nothing reads, is left out.  *)
(***************************************************************************)
EXTENDS Matching, Sequences

CONSTANTS
    Symbols, Prices,    \* the markets, and their reference prices
    Bot, Trader,
    Offsets,            \* MARKET_MAKER_LEVEL_OFFSETS_BPS, a sequence
    Tick, Quantity,     \* tickSize and MARKET_MAKER_QUOTE_QUANTITY
    Enabled,            \* MARKET_MAKER_ENABLED
    Refreshes,          \* calls of refreshAll
    MaxTrades, MaxFailures, MaxRestarts     \* bounds

ASSUME MarketMakerAssumption ==
    /\ Prices \subseteq Nat \ {0} /\ Bot # Trader
    /\ Offsets \in Seq(1 .. 9999) /\ Offsets # <<>> /\ Tick \in Nat \ {0} /\ Quantity \in Nat \ {0}
    /\ Enabled \in BOOLEAN
    /\ {MaxTrades, MaxFailures, MaxRestarts} \subseteq Nat

VARIABLES
    active,         \* the markets that are ACTIVE; the others are halted
    lastTrade,      \* the price of the last trade of each market, 0 for none
    orders,         \* open orders, which are also the books
    timer,          \* this.timer is set
    intervals,      \* intervals that tick
    refreshing,
    refresh,        \* the state of each call of refreshAll
    uncancelled,    \* history: orders whose cancellation failed
    budget          \* trades, failures and restarts that may still happen

vars == <<active, lastTrade, orders, timer, intervals, refreshing, refresh,
          uncancelled, budget>>
exchangeVars == <<active, lastTrade, orders, uncancelled>>
switchVars == <<timer, intervals>>
-----------------------------------------------------------------------------
Spend(what) == budget[what] > 0 /\ budget' = [budget EXCEPT ![what] = @ - 1]

Book(m) == {o \in orders : o.market = m}
BotOrders(m) == {o \in Book(m) : o.user = Bot}
Top(S) == CHOOSE n \in {0} \cup S : \A k \in S : k <= n

\* What createOrder of an ACTIVE market makes of a valid order: it is matched,
\* and the last of its fills is the last trade.
CreateOrder(m, user, side, type, price, ref) ==
    LET number == Top({o.sequence : o \in orders}) + 1
        taker == [id |-> number, sequence |-> number, user |-> user, market |-> m,
                  side |-> side, type |-> type, price |-> price, remaining |-> Quantity,
                  ref |-> ref]
        fills == Fills(Book(m), taker)
    IN  /\ m \in active
        /\ orders' = (orders \ Book(m)) \cup Matched(Book(m), taker)
        /\ lastTrade' = IF fills = {} THEN lastTrade
                        ELSE [lastTrade EXCEPT ![m] =
                                (CHOOSE f \in fills : \A g \in fills : g.ahead <= f.ahead).price]
        /\ uncancelled' = uncancelled \cap {o.id : o \in orders'}
        /\ UNCHANGED active
-----------------------------------------------------------------------------
(* The switch *)

Idle == [pc |-> "idle", todo |-> {}, market |-> "none", ref |-> 0,
         cancels |-> {}, quotes |-> <<>>]

\* refreshAll up to its first await; an overlapping call returns at once.
Begins(refreshes) ==
    LET r == CHOOSE r \in Refreshes : refreshes[r].pc = "idle"
    IN  [refreshes EXCEPT ![r].pc = "query"]
RefreshAll ==
    IF refreshing THEN UNCHANGED <<refreshing, refresh>>
    ELSE refreshing' = TRUE /\ refresh' = Begins(refresh)

\* Variant: a service that is running is started again.
StartAgain ==
    /\ timer' = TRUE /\ intervals' = 2
    /\ RefreshAll
    /\ UNCHANGED <<exchangeVars, budget>>

\* resumeMarketMaker: nothing happens to a service that is running.
Start ==
    /\ ~timer
    /\ timer' = TRUE /\ intervals' = intervals + 1
    /\ RefreshAll
    /\ UNCHANGED <<exchangeVars, budget>>

\* pauseMarketMaker: the interval that this.timer names is cleared.
Pause ==
    /\ timer
    /\ timer' = FALSE /\ intervals' = intervals - 1
    /\ UNCHANGED <<exchangeVars, refreshing, refresh, budget>>

\* Variant: an overlapping call does not return.
TickOverlapping ==
    /\ intervals > 0 /\ \E r \in Refreshes : refresh[r].pc = "idle"
    /\ refreshing' = TRUE /\ refresh' = Begins(refresh)
    /\ UNCHANGED <<exchangeVars, switchVars, budget>>

TickInterval ==
    /\ intervals > 0 /\ ~refreshing
    /\ RefreshAll
    /\ UNCHANGED <<exchangeVars, switchVars, budget>>
-----------------------------------------------------------------------------
(* A refresh *)

Becomes(r, state) == refresh' = [refresh EXCEPT ![r] = state]
Proceed(todo) == [Idle EXCEPT !.pc = "markets", !.todo = todo]

ReadMarkets(r) ==
    /\ refresh[r].pc = "query"
    /\ Becomes(r, Proceed(active))
    /\ UNCHANGED <<exchangeVars, switchVars, refreshing, budget>>

\* getReferenceTicker: the live price, whatever it is by now, or that of the
\* last trade when the feed is missing or stale.
ReferencePrices(m) == Prices \cup {lastTrade[m]}

\* The next market, unless it has no reference price.
RefreshMarket(r, m) ==
    LET todo == refresh[r].todo \ {m} IN
    /\ refresh[r].pc = "markets" /\ m \in refresh[r].todo
    /\ \E ref \in ReferencePrices(m) :
            Becomes(r, IF ref = 0 THEN Proceed(todo)
                       ELSE [Idle EXCEPT !.pc = "list", !.todo = todo, !.market = m, !.ref = ref])
    /\ UNCHANGED <<exchangeVars, switchVars, refreshing, budget>>

\* The quotes of a market, from the inner level outwards, BUY before SELL.
Levels == [i \in 1 .. 2 * Len(Offsets) |->
            [side |-> IF i % 2 = 1 THEN "BUY" ELSE "SELL", bps |-> Offsets[(i + 1) \div 2]]]

\* cancelOwnOpenOrders reads the bot's open orders once; an error is caught by
\* refreshAll, which goes on with the next market.
ListOpen(r) ==
    /\ refresh[r].pc = "list"
    /\ \/ /\ Becomes(r, [refresh[r] EXCEPT !.pc = "quote", !.quotes = Levels,
                             !.cancels = {o.id : o \in BotOrders(refresh[r].market)}])
          /\ UNCHANGED budget
       \/ Spend("failures") /\ Becomes(r, Proceed(refresh[r].todo))
    /\ UNCHANGED <<exchangeVars, switchVars, refreshing>>

\* cancelOrder of one of them, whose errors are swallowed.  Numbers are used
\* again when the orders that had them are gone, hence the test of the owner,
\* which cancelOrder makes too.
CancelQuote(r, id) ==
    /\ refresh[r].pc = "quote" /\ id \in refresh[r].cancels
    /\ Becomes(r, [refresh[r] EXCEPT !.cancels = @ \ {id}])
    /\ \/ /\ orders' = {o \in orders : o.id # id \/ o.user # Bot}
          /\ uncancelled' = uncancelled \ {id}
          /\ UNCHANGED budget
       \/ /\ Spend("failures")
          /\ uncancelled' = uncancelled \cup ({id} \cap {o.id : o \in {o \in orders : o.user = Bot}})
          /\ UNCHANGED orders
    /\ UNCHANGED <<active, lastTrade, switchVars, refreshing>>

Down(n, unit) == (n \div unit) * unit
Up(n, unit) == Down(n + unit - 1, unit)

\* Variant: both sides round to the nearest tick below.
QuotePriceDown(side, ref, bps) ==
    Down(ref * (IF side = "BUY" THEN 10000 - bps ELSE 10000 + bps), 10000 * Tick) \div 10000

\* Bids are rounded down to a tick, asks up.
QuotePrice(side, ref, bps) ==
    IF side = "BUY" THEN Down(ref * (10000 - bps), 10000 * Tick) \div 10000
                    ELSE Up(ref * (10000 + bps), 10000 * Tick) \div 10000

\* placeQuote: createOrder refuses a halted market, a price of zero or an
\* order the bot cannot pay; the error is swallowed.
PlaceQuote(r) ==
    LET q == Head(refresh[r].quotes)
        price == QuotePrice(q.side, refresh[r].ref, q.bps)
        rest == Tail(refresh[r].quotes)
    IN  /\ refresh[r].pc = "quote" /\ refresh[r].cancels = {}
        /\ Becomes(r, IF rest = <<>> THEN Proceed(refresh[r].todo)
                      ELSE [refresh[r] EXCEPT !.quotes = rest])
        /\ \/ /\ price > 0 /\ UNCHANGED budget
              /\ CreateOrder(refresh[r].market, Bot, q.side, "LIMIT", price, refresh[r].ref)
           \/ /\ refresh[r].market \notin active \/ price = 0
              /\ UNCHANGED <<exchangeVars, budget>>
           \/ Spend("failures") /\ UNCHANGED exchangeVars
        /\ UNCHANGED <<switchVars, refreshing>>

\* Variant: the flag is not reset.
EndRefreshing(r) ==
    /\ refresh[r].pc = "markets" /\ refresh[r].todo = {}
    /\ Becomes(r, Idle)
    /\ UNCHANGED <<exchangeVars, switchVars, refreshing, budget>>

EndRefresh(r) ==
    /\ refresh[r].pc = "markets" /\ refresh[r].todo = {}
    /\ Becomes(r, Idle)
    /\ refreshing' = FALSE
    /\ UNCHANGED <<exchangeVars, switchVars, budget>>
-----------------------------------------------------------------------------
(* Around it *)

\* A trader's order, at a price of whole ticks or at any.
Trade(m) ==
    /\ Spend("trades")
    /\ \E side \in Sides, type \in OrderTypes :
       \E price \in IF type = "LIMIT" THEN {Down(p, Tick) : p \in Prices} ELSE {0} :
            /\ type = "MARKET" => \E o \in Book(m) : o.side # side
            /\ CreateOrder(m, Trader, side, type, price, 0)
    /\ UNCHANGED <<switchVars, refreshing, refresh>>

\* The admin's updateMarket.
UpdateMarket(m) ==
    /\ active' = IF m \in active THEN active \ {m} ELSE active \cup {m}
    /\ UNCHANGED <<lastTrade, orders, uncancelled, switchVars, refreshing, refresh, budget>>

\* A crash, also that of a findMany whose rejection nobody handles, and
\* onModuleInit.
Restart ==
    /\ Spend("restarts")
    /\ timer' = Enabled /\ intervals' = IF Enabled THEN 1 ELSE 0
    /\ refreshing' = Enabled
    /\ LET none == [r \in Refreshes |-> Idle]
       IN  refresh' = IF Enabled THEN Begins(none) ELSE none
    /\ UNCHANGED exchangeVars

Init ==
    /\ active = Symbols
    /\ lastTrade = [m \in Symbols |-> 0]
    /\ orders = {} /\ uncancelled = {}
    /\ timer = FALSE /\ intervals = 0 /\ refreshing = FALSE
    /\ refresh = [r \in Refreshes |-> Idle]
    /\ budget = [trades |-> MaxTrades, failures |-> MaxFailures, restarts |-> MaxRestarts]

RefreshStep(r) ==
    \/ ReadMarkets(r) \/ ListOpen(r) \/ PlaceQuote(r) \/ EndRefresh(r)
    \/ \E m \in Symbols : RefreshMarket(r, m)
    \/ \E id \in refresh[r].cancels : CancelQuote(r, id)

Next ==
    \/ Start \/ Pause \/ TickInterval \/ Restart
    \/ \E m \in Symbols : Trade(m) \/ UpdateMarket(m)
    \/ \E r \in Refreshes : RefreshStep(r)

Spec == Init /\ [][Next]_vars

\* Node runs the interval and the continuations of a refresh.
FairSpec == Spec /\ WF_vars(TickInterval) /\ WF_vars(\E r \in Refreshes : RefreshStep(r))
-----------------------------------------------------------------------------
\* market-maker.service.ts 121-156: the bot never has two generations of quotes
\* on a market, but for orders whose cancellation failed, however long a
\* refresh takes, whatever happens meanwhile, and through restarts.
OneGenerationOfQuotes ==
    \A m \in Symbols :
        Cardinality({o \in BotOrders(m) : o.id \notin uncancelled}) <= 2 * Len(Offsets)

\* market-maker.service.ts 21-25: a quote is never on the wrong side of the
\* reference price it was made for.
QuotesStraddleReference ==
    \A m \in Symbols : \A o \in BotOrders(m) :
        IF o.side = "BUY" THEN o.price < o.ref ELSE o.price > o.ref

\* market-maker.service.ts 59-77: a paused service begins no refresh, whatever
\* pauses and resumes came before; one that is under way goes on to its end.
PausedBeginsNothing ==
    [][\A r \in Refreshes :
        refresh[r].pc = "idle" /\ refresh'[r].pc # "idle" => timer']_vars

\* market-maker.service.ts 121-137: a service that stays on begins, and ends,
\* one refresh after the other.
KeepsRefreshing == []<>~refreshing /\ (timer ~> refreshing \/ ~timer)
=============================================================================
