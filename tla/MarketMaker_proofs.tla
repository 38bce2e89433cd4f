-------------------------- MODULE MarketMaker_proofs --------------------------
(***************************************************************************)
(* What is proved of the market maker, for any markets, prices, levels,    *)
(* tick and number of refreshes that are under way.                        *)
(*                                                                         *)
(* Inv: the intervals that tick are exactly the one that this.timer names, *)
(* so that a paused service begins no refresh.                             *)
(*                                                                         *)
(* QuotesInv: a refresh has room for what is left of its quotes, counting  *)
(* the orders that it is about to cancel as gone, and no other refresh is  *)
(* under way that could take this room; each order of the bot is on its    *)
(* side of the price it was made for.                                      *)
(***************************************************************************)
EXTENDS MarketMaker, SumLemmas, SequenceTheorems

\* No interval outlives the timer that could clear it.
SwitchOK == timer \in BOOLEAN /\ intervals = IF timer THEN 1 ELSE 0

Inv == SwitchOK /\ DOMAIN refresh = Refreshes

BeginsOnlyWhenOn ==
    \A r \in Refreshes : refresh[r].pc = "idle" /\ refresh'[r].pc # "idle" => timer'
-----------------------------------------------------------------------------
\* Whatever call of refreshAll gets the refresh, the others keep theirs.
LEMMA BeginsDomain ==
    ASSUME NEW refreshes, DOMAIN refreshes = Refreshes
    PROVE  DOMAIN Begins(refreshes) = Refreshes
  BY DEF Begins

\* A step of a refresh that is under way begins no other.
LEMMA RefreshStepContinues ==
    ASSUME Inv, NEW r \in Refreshes, RefreshStep(r)
    PROVE  /\ UNCHANGED switchVars /\ refresh[r].pc # "idle"
           /\ DOMAIN refresh' = Refreshes
           /\ \A s \in Refreshes \ {r} : refresh'[s] = refresh[s]
<1>1. /\ UNCHANGED switchVars /\ refresh[r].pc # "idle" /\ \E state : Becomes(r, state)
  <2>1. CASE ReadMarkets(r)
    BY <2>1 DEF ReadMarkets
  <2>2. CASE ListOpen(r)
    BY <2>2 DEF ListOpen
  <2>3. CASE PlaceQuote(r)
    BY <2>3, Zenon DEF PlaceQuote
  <2>4. CASE EndRefresh(r)
    BY <2>4 DEF EndRefresh
  <2>5. ASSUME NEW m \in Symbols, RefreshMarket(r, m)
        PROVE  UNCHANGED switchVars /\ refresh[r].pc # "idle" /\ \E state : Becomes(r, state)
    BY <2>5 DEF RefreshMarket
  <2>6. ASSUME NEW id \in refresh[r].cancels, CancelQuote(r, id)
        PROVE  UNCHANGED switchVars /\ refresh[r].pc # "idle" /\ \E state : Becomes(r, state)
    BY <2>6 DEF CancelQuote, switchVars
  <2> QED
    BY <2>1, <2>2, <2>3, <2>4, <2>5, <2>6 DEF RefreshStep
<1>2. DOMAIN refresh' = Refreshes /\ \A s \in Refreshes \ {r} : refresh'[s] = refresh[s]
  BY <1>1 DEF Inv, Becomes
<1> QED
  BY <1>1, <1>2

\* Each step keeps timer and interval together, and begins a refresh only
\* where the timer is set.
LEMMA StepKeeps == Inv /\ Next => Inv' /\ BeginsOnlyWhenOn
<1> SUFFICES ASSUME Inv, Next PROVE Inv' /\ BeginsOnlyWhenOn
  OBVIOUS
<1>1. CASE Start
  <2>1. timer' = TRUE /\ ~timer /\ intervals' = intervals + 1
    BY <1>1 DEF Start
  <2>2. SwitchOK'
    BY <2>1 DEF Inv, SwitchOK
  <2>3. DOMAIN refresh' = Refreshes
    BY <1>1, BeginsDomain DEF Start, RefreshAll, Inv
  <2> QED
    BY <2>1, <2>2, <2>3 DEF Inv, BeginsOnlyWhenOn
<1>2. CASE Pause
  <2>1. timer /\ timer' = FALSE /\ intervals' = intervals - 1 /\ refresh' = refresh
    BY <1>2 DEF Pause
  <2>2. intervals = 1
    BY <2>1, Zenon DEF Inv, SwitchOK
  <2>3. intervals' = 0
    BY <2>1, <2>2
  <2>4. SwitchOK'
    BY <2>1, <2>3, Zenon DEF SwitchOK
  <2>5. BeginsOnlyWhenOn
    BY <2>1, Zenon DEF BeginsOnlyWhenOn
  <2> QED
    BY <2>1, <2>4, <2>5 DEF Inv
<1>3. CASE TickInterval
  <2>1. timer
    BY <1>3 DEF TickInterval, Inv, SwitchOK
  <2>2. UNCHANGED switchVars /\ DOMAIN refresh' = Refreshes
    BY <1>3, BeginsDomain DEF TickInterval, RefreshAll, Inv
  <2> QED
    BY <2>1, <2>2 DEF Inv, SwitchOK, BeginsOnlyWhenOn, switchVars
<1>4. CASE Restart
  <2> DEFINE none == [r \in Refreshes |-> Idle]
  <2>1. /\ timer' = Enabled /\ intervals' = (IF Enabled THEN 1 ELSE 0)
        /\ refresh' = IF Enabled THEN Begins(none) ELSE none
    BY <1>4 DEF Restart
  <2>2. DOMAIN refresh' = Refreshes
    BY <2>1, BeginsDomain
  <2>3. SwitchOK'
    BY <2>1, MarketMakerAssumption DEF SwitchOK
  <2>4. BeginsOnlyWhenOn
    BY <2>1 DEF BeginsOnlyWhenOn, Idle
  <2> QED
    BY <2>2, <2>3, <2>4 DEF Inv
<1>5. ASSUME NEW m \in Symbols, Trade(m) \/ UpdateMarket(m)
      PROVE  Inv' /\ BeginsOnlyWhenOn
  <2>1. UNCHANGED <<switchVars, refresh>>
    BY <1>5, Zenon DEF Trade, UpdateMarket
  <2> QED
    BY <2>1 DEF Inv, SwitchOK, BeginsOnlyWhenOn, switchVars
<1>6. ASSUME NEW r \in Refreshes, RefreshStep(r)
      PROVE  Inv' /\ BeginsOnlyWhenOn
  BY <1>6, RefreshStepContinues DEF Inv, SwitchOK, BeginsOnlyWhenOn, switchVars
<1> QED
  BY <1>1, <1>2, <1>3, <1>4, <1>5, <1>6 DEF Next

\* market-maker.service.ts 59-77: no sequence of pauses, resumes, crashes and
\* late ticks makes a paused service begin a refresh.
THEOREM PausedStaysQuiet == Spec => PausedBeginsNothing
<1>1. Init => Inv
  BY DEF Init, Inv, SwitchOK
<1>2. Inv /\ [Next]_vars => Inv'
  <2>1. Inv /\ UNCHANGED vars => Inv'
    BY DEF Inv, SwitchOK, vars
  <2> QED
    BY <2>1, StepKeeps
<1>3. Inv /\ [Next]_vars => [BeginsOnlyWhenOn]_vars
  BY StepKeeps
<1> QED
  BY <1>1, <1>2, <1>3, PTL DEF Spec, PausedBeginsNothing, BeginsOnlyWhenOn
-----------------------------------------------------------------------------
(* Prices of quotes *)

Bps == 1 .. 9999

LEMMA DivFacts ==
    ASSUME NEW n \in Nat, NEW unit \in Nat \ {0}
    PROVE  /\ n \div unit \in Nat
           /\ (n \div unit) * unit <= n
           /\ n < (n \div unit) * unit + unit
  OBVIOUS

\* A bid is rounded down from below the reference price.
LEMMA BidBelow ==
    ASSUME NEW ref \in Nat \ {0}, NEW bps \in Bps
    PROVE  /\ QuotePrice("BUY", ref, bps) \in Nat
           /\ QuotePrice("BUY", ref, bps) < ref
<1> DEFINE n == ref * (10000 - bps)
           unit == 10000 * Tick
           k == n \div unit
<1>1. n \in Nat /\ n < ref * 10000 /\ unit \in Nat \ {0}
  BY MarketMakerAssumption DEF Bps
<1>2. QuotePrice("BUY", ref, bps) = (k * unit) \div 10000
  BY DEF QuotePrice, Down
<1> HIDE DEF n, unit
<1>3. k \in Nat /\ k * unit <= n
  <2>1. n \in Nat /\ unit \in Nat \ {0}
    BY <1>1
  <2> QED
    BY <2>1, DivFacts
<1> HIDE DEF k
<1>4. k * unit \in Nat
  BY <1>1, <1>3
<1> QED
  BY <1>1, <1>2, <1>3, <1>4

\* An ask is rounded up from above it.
LEMMA AskAbove ==
    ASSUME NEW ref \in Nat \ {0}, NEW bps \in Bps
    PROVE  /\ QuotePrice("SELL", ref, bps) \in Nat
           /\ QuotePrice("SELL", ref, bps) > ref
<1> DEFINE n == ref * (10000 + bps)
           unit == 10000 * Tick
           m == n + unit - 1
           k == m \div unit
<1>1. n \in Nat /\ n > ref * 10000 /\ unit \in Nat \ {0} /\ Tick \in Nat /\ unit = 10000 * Tick
  BY MarketMakerAssumption DEF Bps
<1>2. QuotePrice("SELL", ref, bps) = (k * unit) \div 10000
  BY DEF QuotePrice, Up, Down
<1> HIDE DEF n, unit
<1>3. m \in Nat /\ m = n + unit - 1
  BY <1>1
<1> HIDE DEF m
<1>4. k \in Nat /\ m < k * unit + unit
  <2>1. m \in Nat /\ unit \in Nat \ {0}
    BY <1>1, <1>3
  <2> QED
    BY <2>1, DivFacts
<1> HIDE DEF k
<1>5. k * unit = (k * Tick) * 10000 /\ k * Tick \in Nat /\ k * unit \in Nat
  BY <1>1, <1>4
<1>6. k * unit >= n
  BY <1>1, <1>3, <1>4, <1>5
<1>7. QuotePrice("SELL", ref, bps) = k * Tick
  BY <1>2, <1>5
<1> QED
  BY <1>1, <1>5, <1>6, <1>7
-----------------------------------------------------------------------------
(* Orders *)

Fields == {"id", "sequence", "user", "market", "side", "type", "price", "remaining", "ref"}

Straddles(o) == IF o.side = "BUY" THEN o.price < o.ref ELSE o.price > o.ref

OrderOK(o) ==
    /\ DOMAIN o = Fields
    /\ o.price \in Nat /\ o.remaining \in Int /\ o.ref \in Nat /\ o.side \in Sides
    /\ o.user = Bot => Straddles(o)

OrdersOK == IsFiniteSet(orders) /\ \A o \in orders : OrderOK(o)

PricesOK == DOMAIN lastTrade = Symbols /\ \A m \in Symbols : lastTrade[m] \in Nat

\* The quotes of the bot that do not have an id of K.
Live(m, K) == {o \in BotOrders(m) : o.id \notin uncancelled /\ o.id \notin K}
Count(m, K) == Cardinality(Live(m, K))

\* The same order, with less to offer.
Same(e, o) ==
    /\ DOMAIN e = Fields /\ e.remaining \in Int
    /\ e.id = o.id /\ e.user = o.user /\ e.market = o.market /\ e.side = o.side
    /\ e.price = o.price /\ e.ref = o.ref

LEMMA CountType ==
    ASSUME OrdersOK, NEW m, NEW K
    PROVE  IsFiniteSet(Live(m, K)) /\ Count(m, K) \in Nat
<1>1. Live(m, K) \in SUBSET orders
  BY DEF Live, BotOrders, Book
<1> QED
  BY <1>1, FS_Subset, FS_CardinalityType DEF OrdersOK, Count

\* What the taker takes is a number, and so is what was taken before.
LEMMA TakenType ==
    ASSUME NEW bk, IsFiniteSet(bk), \A o \in bk : o.remaining \in Int, NEW taker,
           NEW quantity \in Nat, NEW e \in Makers(bk, taker)
    PROVE  /\ Ahead(Makers(bk, taker), e) \in Nat
           /\ Taken(Makers(bk, taker), quantity, e) \in Int
<1> DEFINE before == {f \in Makers(bk, taker) : Before(f, e)}
           offer == [o \in before |-> o.remaining]
<1>1. before \in SUBSET bk /\ e \in bk
  BY DEF Makers, Reachable
<1>2. IsFiniteSet(before) /\ offer \in [before -> Int]
  BY <1>1, FS_Subset
<1>3. Ahead(Makers(bk, taker), e) = NatSum(offer, before)
  BY DEF Ahead, Offered
<1> HIDE DEF before, offer
<1>4. Ahead(Makers(bk, taker), e) \in Nat
  BY <1>2, <1>3, NatSumType
<1> QED
  BY <1>1, <1>4 DEF Taken, Least

\* What the fills of a taker leave of each order.
Reduced(bk, taker) ==
    [o \in bk |-> IF o \in Makers(bk, taker)
                  THEN [o EXCEPT !.remaining = @ - Taken(Makers(bk, taker), taker.remaining, o)]
                  ELSE o]

LEMMA AfterFillsOf ==
    ASSUME NEW bk, IsFiniteSet(bk), \A o \in bk : OrderOK(o),
           NEW taker, taker.remaining \in Nat
    PROVE  /\ \A e \in AfterFills(bk, taker) : \E o \in bk : e = Reduced(bk, taker)[o]
           /\ \A o \in bk : Same(Reduced(bk, taker)[o], o)
<1>1. Makers(bk, taker) \subseteq bk
  BY DEF Makers, Reachable
<1>2. ASSUME NEW e \in AfterFills(bk, taker)
      PROVE  \E o \in bk : e = Reduced(bk, taker)[o]
  <2>1. CASE e \in bk \ Makers(bk, taker)
    BY <2>1 DEF Reduced
  <2>2. CASE e \notin bk \ Makers(bk, taker)
    <3>1. PICK o \in Makers(bk, taker) :
            e = [o EXCEPT !.remaining = @ - Taken(Makers(bk, taker), taker.remaining, o)]
      BY <2>2, Zenon DEF AfterFills
    <3> QED
      BY <1>1, <3>1 DEF Reduced
  <2> QED
    BY <2>1, <2>2
<1>3. ASSUME NEW o \in bk PROVE Same(Reduced(bk, taker)[o], o)
  <2>1. OrderOK(o)
    OBVIOUS
  <2>2. CASE o \in Makers(bk, taker)
    <3> DEFINE taken == Taken(Makers(bk, taker), taker.remaining, o)
    <3>1. taken \in Int
      BY <2>2, TakenType DEF OrderOK
    <3>2. Reduced(bk, taker)[o] = [o EXCEPT !.remaining = @ - taken]
      BY <2>2 DEF Reduced
    <3> HIDE DEF taken
    <3> QED
      BY <2>1, <3>1, <3>2 DEF Same, OrderOK, Fields
  <2>3. CASE o \notin Makers(bk, taker)
    BY <2>1, <2>3 DEF Same, OrderOK, Reduced
  <2> QED
    BY <2>2, <2>3
<1> QED
  BY <1>2, <1>3

Taker(user, m, side, type, price, ref) ==
    LET number == Top({o.sequence : o \in orders}) + 1
    IN  [id |-> number, sequence |-> number, user |-> user, market |-> m,
         side |-> side, type |-> type, price |-> price, remaining |-> Quantity, ref |-> ref]

Rest(bk, taker) == [taker EXCEPT !.remaining = Left(bk, taker)]

\* The other orders are as they were, or reduced, and what is added is the
\* taker, as far as it rests.
Created(m, taker) ==
    LET left == Reduced(Book(m), taker)
        rest == Rest(Book(m), taker)
    IN  /\ IsFiniteSet(orders')
        /\ \A o \in Book(m) : Same(left[o], o)
        /\ \A e \in orders' : \/ e \in orders /\ e.market # m
                              \/ \E o \in Book(m) : e = left[o]
                              \/ e = rest
        /\ Same(rest, taker)

LEMMA OrdersOrigin ==
    ASSUME OrdersOK, NEW m \in Symbols, NEW taker, taker.remaining \in Nat,
           DOMAIN taker = Fields, orders' = (orders \ Book(m)) \cup Matched(Book(m), taker)
    PROVE  Created(m, taker)
<1> DEFINE bk == Book(m)
           left == Reduced(bk, taker)
           rest == Rest(bk, taker)
<1>1. bk \in SUBSET orders /\ IsFiniteSet(bk) /\ \A o \in bk : OrderOK(o)
  BY FS_Subset DEF Book, OrdersOK
<1>2. orders' = (orders \ bk) \cup Matched(bk, taker) /\ \A o \in orders \ bk : o.market # m
  BY DEF Book
<1> HIDE DEF bk
<1>3. /\ \A e \in AfterFills(bk, taker) : \E o \in bk : e = left[o]
      /\ \A o \in bk : Same(left[o], o)
  BY <1>1, AfterFillsOf
<1>4. IsFiniteSet(AfterFills(bk, taker))
  <2>1. DOMAIN left = bk
    BY DEF Reduced
  <2> HIDE DEF left
  <2> QED
    BY <1>1, <1>3, <2>1, ImageCount
<1>5. Left(bk, taker) \in Int
  <2> DEFINE makers == Makers(bk, taker)
             offer == [e \in makers |-> e.remaining]
  <2>1. makers \in SUBSET bk
    BY DEF Makers, Reachable
  <2>2. IsFiniteSet(makers) /\ offer \in [makers -> Int]
    BY <1>1, <2>1, FS_Subset DEF OrderOK
  <2>3. Offered(makers) = NatSum(offer, makers)
    BY DEF Offered
  <2> HIDE DEF makers, offer
  <2>4. Offered(makers) \in Nat
    BY <2>2, <2>3, NatSumType
  <2> QED
    BY <2>4 DEF Left, Least, makers
<1>6. Same(rest, taker)
  BY <1>5 DEF Fields, Rest, Same
<1> HIDE DEF left
<1>7. /\ IsFiniteSet(Matched(bk, taker))
      /\ \A e \in Matched(bk, taker) : e \in AfterFills(bk, taker) \/ e = rest
  <2>1. CASE Rests(bk, taker)
    <3>1. Matched(bk, taker) = AfterFills(bk, taker) \cup {rest}
      BY <2>1 DEF Matched, Rest
    <3>2. IsFiniteSet({rest})
      BY FS_Singleton
    <3> HIDE DEF rest
    <3> QED
      BY <1>4, <3>1, <3>2, FS_Union
  <2>2. CASE ~Rests(bk, taker)
    <3>1. Matched(bk, taker) = AfterFills(bk, taker)
      BY <2>2 DEF Matched
    <3> QED
      BY <1>4, <3>1
  <2> QED
    BY <2>1, <2>2
<1> HIDE DEF rest
<1>8. IsFiniteSet(orders')
  <2>1. IsFiniteSet(orders \ bk)
    BY <1>1, FS_Difference DEF OrdersOK
  <2> QED
    BY <1>2, <1>7, <2>1, FS_Union
<1>9. ASSUME NEW e \in orders'
      PROVE  (e \in orders /\ e.market # m) \/ e = rest \/ \E o \in bk : e = left[o]
  <2>1. e \in orders \ bk \/ e \in AfterFills(bk, taker) \/ e = rest
    BY <1>2, <1>7
  <2> QED
    BY <1>2, <1>3, <2>1
<1> QED
  BY <1>3, <1>6, <1>8, <1>9 DEF bk, left, rest, Created

\* The price of a last trade is that of an order.
LEMMA LastPriceType ==
    ASSUME OrdersOK, NEW m \in Symbols, NEW taker, taker.remaining \in Nat,
           Fills(Book(m), taker) # {}
    PROVE  (CHOOSE f \in Fills(Book(m), taker) :
                \A g \in Fills(Book(m), taker) : g.ahead <= f.ahead).price \in Nat
<1> DEFINE bk == Book(m)
           makers == Makers(bk, taker)
           filled == {e \in makers : Taken(makers, taker.remaining, e) > 0}
           ahead == [e \in filled |-> Ahead(makers, e)]
           fill(e) == FillOf(makers, taker.remaining, e)
           fills == Fills(bk, taker)
<1>1. bk \in SUBSET orders /\ IsFiniteSet(bk) /\ \A o \in bk : OrderOK(o)
  BY FS_Subset DEF Book, OrdersOK
<1>2. filled \in SUBSET bk /\ filled \subseteq makers
  BY DEF Makers, Reachable
<1>3. fills = {fill(e) : e \in filled}
  BY DEF Fills
<1> HIDE DEF bk, fills
<1>4. IsFiniteSet(filled) /\ ahead \in [filled -> Nat] /\ filled # {}
  BY <1>1, <1>2, <1>3, FS_Subset, TakenType DEF OrderOK, fills, bk
<1>5. \A e \in filled : fill(e).ahead = ahead[e] /\ fill(e).price \in Nat
  BY <1>1, <1>2 DEF FillOf, OrderOK
<1> HIDE DEF filled, ahead, fill
<1>6. PICK e \in filled : \A d \in filled : ahead[d] <= ahead[e]
  BY <1>4, FiniteMaximum
<1>7. \E f \in fills : \A g \in fills : g.ahead <= f.ahead
  BY <1>3, <1>5, <1>6
<1>8. (CHOOSE f \in fills : \A g \in fills : g.ahead <= f.ahead) \in fills
  BY <1>7
<1> QED
  BY <1>3, <1>5, <1>8 DEF fills, bk

\* createOrder adds one quote at most, and one of the bot only.
LEMMA OrderCreated ==
    ASSUME OrdersOK, PricesOK, NEW m \in Symbols, NEW user, NEW side \in Sides, NEW type,
           NEW price \in Nat, NEW ref \in Nat,
           user = Bot => IF side = "BUY" THEN price < ref ELSE price > ref,
           CreateOrder(m, user, side, type, price, ref)
    PROVE  /\ OrdersOK' /\ PricesOK'
           /\ \A n, K : Count(n, K)' <= Count(n, K) + 1
           /\ \A n, K : n # m \/ user # Bot => Count(n, K)' <= Count(n, K)
<1> DEFINE taker == Taker(user, m, side, type, price, ref)
           left == Reduced(Book(m), taker)
           rest == Rest(Book(m), taker)
<1>0. /\ taker.remaining \in Nat /\ DOMAIN taker = Fields
      /\ taker.user = user /\ taker.market = m /\ taker.side = side
      /\ taker.price = price /\ taker.ref = ref
      /\ orders' = (orders \ Book(m)) \cup Matched(Book(m), taker)
  BY MarketMakerAssumption DEF Taker, Fields, CreateOrder
<1>1. /\ IsFiniteSet(orders')
      /\ \A o \in Book(m) : Same(left[o], o)
      /\ \A e \in orders' : \/ e \in orders /\ e.market # m
                            \/ \E o \in Book(m) : e = left[o]
                            \/ e = rest
      /\ DOMAIN rest = Fields /\ rest.remaining \in Int
      /\ rest.user = user /\ rest.market = m /\ rest.side = side
      /\ rest.price = price /\ rest.ref = ref
  <2> HIDE DEF taker
  <2>1. Created(m, taker)
    BY <1>0, OrdersOrigin
  <2> QED
    BY <1>0, <2>1 DEF Created, Same
<1>2. uncancelled' = uncancelled \cap {o.id : o \in orders'}
  BY DEF CreateOrder
<1>3. PricesOK'
  <2>1. CASE Fills(Book(m), taker) = {}
    BY <2>1 DEF CreateOrder, Taker, PricesOK
  <2>2. CASE Fills(Book(m), taker) # {}
    <3>1. taker.remaining \in Nat
      BY MarketMakerAssumption DEF Taker
    <3>2. lastTrade' = [lastTrade EXCEPT ![m] =
              (CHOOSE f \in Fills(Book(m), taker) :
                    \A g \in Fills(Book(m), taker) : g.ahead <= f.ahead).price]
      BY <2>2 DEF CreateOrder, Taker
    <3> HIDE DEF taker
    <3> QED
      BY <2>2, <3>1, <3>2, LastPriceType DEF PricesOK
  <2> QED
    BY <2>1, <2>2
<1>4. DOMAIN left = Book(m) /\ Book(m) \subseteq orders /\ \A o \in Book(m) : o.market = m
  BY DEF Reduced, Book
<1> HIDE DEF left, taker, rest
<1>5. OrdersOK'
  <2>1. ASSUME NEW e \in orders' PROVE OrderOK(e)
    <3>1. CASE e \in orders
      BY <3>1 DEF OrdersOK
    <3>2. CASE \E o \in Book(m) : e = left[o]
      <4>1. PICK o \in Book(m) : e = left[o]
        BY <3>2
      <4>2. Same(e, o) /\ OrderOK(o)
        BY <1>1, <1>4, <4>1 DEF OrdersOK
      <4> QED
        BY <4>2 DEF OrderOK, Same, Straddles
    <3>3. CASE e = rest
      BY <1>1, <3>3 DEF OrderOK, Straddles
    <3> QED
      BY <1>1, <3>1, <3>2, <3>3
  <2> QED
    BY <1>1, <2>1 DEF OrdersOK
<1>6. ASSUME NEW n, NEW K, NEW e \in Live(n, K)'
      PROVE  \/ n # m /\ e \in Live(n, K)
             \/ n = m /\ \E o \in Live(n, K) : e = left[o]
             \/ n = m /\ user = Bot /\ e = rest
  <2>1. /\ e \in orders' /\ e.market = n /\ e.user = Bot
        /\ e.id \notin uncancelled /\ e.id \notin K
    BY <1>2 DEF Live, BotOrders, Book
  <2>2. CASE e \in orders /\ e.market # m
    BY <2>1, <2>2 DEF Live, BotOrders, Book
  <2>3. CASE \E o \in Book(m) : e = left[o]
    <3>1. PICK o \in Book(m) : e = left[o]
      BY <2>3
    <3>2. Same(e, o) /\ o.market = m /\ o \in orders
      BY <1>1, <1>4, <3>1
    <3>3. n = m /\ o \in Live(n, K)
      BY <2>1, <3>2 DEF Same, Live, BotOrders, Book
    <3> QED
      BY <3>1, <3>3
  <2>4. CASE e = rest
    BY <1>1, <2>1, <2>4
  <2> QED
    BY <1>1, <2>1, <2>2, <2>3, <2>4
<1>7. ASSUME NEW n, NEW K, n # m
      PROVE  Count(n, K)' <= Count(n, K)
  <2>1. Live(n, K)' \in SUBSET Live(n, K)
    BY <1>6, <1>7
  <2> QED
    BY <2>1, CountType, FS_Subset DEF Count
<1>8. ASSUME NEW K
      PROVE  LET kept == {e \in Live(m, K)' : \E o \in Live(m, K) : e = left[o]} IN
             /\ IsFiniteSet(kept) /\ Cardinality(kept) \in Nat
             /\ Cardinality(kept) <= Count(m, K)
  <2> DEFINE kept == {e \in Live(m, K)' : \E o \in Live(m, K) : e = left[o]}
             f == [o \in Live(m, K) |-> left[o]]
  <2>1. \A e \in kept : \E o \in Live(m, K) : e = f[o]
    OBVIOUS
  <2>2. DOMAIN f = Live(m, K) /\ IsFiniteSet(Live(m, K))
    BY CountType
  <2> HIDE DEF kept, f
  <2>3. IsFiniteSet(kept) /\ Cardinality(kept) <= Cardinality(Live(m, K))
    BY <2>1, <2>2, ImageCount
  <2> QED
    BY <2>3, FS_CardinalityType DEF Count, kept
<1>9. ASSUME NEW K, user # Bot
      PROVE  Count(m, K)' <= Count(m, K)
  <2>1. Live(m, K)' = {e \in Live(m, K)' : \E o \in Live(m, K) : e = left[o]}
    BY <1>6, <1>9
  <2> QED
    BY <1>8, <2>1 DEF Count
<1>10. ASSUME NEW K, user = Bot
       PROVE  Count(m, K)' <= Count(m, K) + 1
  <2> DEFINE kept == {e \in Live(m, K)' : \E o \in Live(m, K) : e = left[o]}
  <2>1. IsFiniteSet(kept) /\ Cardinality(kept) \in Nat /\ Cardinality(kept) <= Count(m, K)
    BY <1>8
  <2>2. Live(m, K)' \in SUBSET (kept \cup {rest})
    BY <1>6
  <2> HIDE DEF kept
  <2>3. /\ IsFiniteSet(kept \cup {rest})
        /\ Cardinality(kept \cup {rest}) <= Cardinality(kept) + 1
    <3>1. /\ IsFiniteSet(kept \cup {rest})
          /\ Cardinality(kept \cup {rest}) = IF rest \in kept THEN Cardinality(kept)
                                              ELSE Cardinality(kept) + 1
      BY <2>1, FS_AddElement
    <3> QED
      BY <2>1, <3>1
  <2>4. Cardinality(Live(m, K)') <= Cardinality(kept \cup {rest})
    BY <2>2, <2>3, FS_Subset
  <2>5. Cardinality(Live(m, K)') \in Nat /\ Cardinality(kept \cup {rest}) \in Nat
    BY <2>2, <2>3, FS_Subset, FS_CardinalityType
  <2> QED
    BY <2>1, <2>3, <2>4, <2>5, CountType DEF Count
<1>11. \A n, K : Count(n, K) \in Nat /\ Count(n, K)' \in Nat
  <2>1. ASSUME NEW n, NEW K PROVE Count(n, K)' \in Nat
    <3>1. Live(n, K)' \in SUBSET orders'
      BY DEF Live, BotOrders, Book
    <3> QED
      BY <1>1, <3>1, FS_Subset, FS_CardinalityType DEF Count
  <2> QED
    BY <2>1, CountType
<1>12. \A n, K : n # m \/ user # Bot => Count(n, K)' <= Count(n, K)
  BY <1>7, <1>9
<1>13. \A n, K : n = m /\ user = Bot => Count(n, K)' <= Count(n, K) + 1
  BY <1>10
<1> QED
  BY <1>3, <1>5, <1>11, <1>12, <1>13
-----------------------------------------------------------------------------
(* Refreshes *)

Full == 2 * Len(Offsets)
Quotes == [side : Sides, bps : Bps]

\* A refresh that cancels has placed nothing yet; one that places has made room
\* for what is left of its quotes.
QuotingOK(f) ==
    /\ f.quotes \in Seq(Quotes) /\ f.quotes # <<>>
    /\ Len(f.quotes) <= Full
    /\ f.cancels # {} => Len(f.quotes) = Full
    /\ Count(f.market, f.cancels) + Len(f.quotes) <= Full

StateFields == {"pc", "todo", "market", "ref", "cancels", "quotes"}

StateOK(f) ==
    /\ DOMAIN f = StateFields
    /\ f.pc \in {"list", "quote"} => f.market \in Symbols /\ f.ref \in Nat \ {0}
    /\ f.pc = "quote" => QuotingOK(f)

OneRefresh ==
    /\ \A r \in Refreshes : refresh[r].pc # "idle" => refreshing
    /\ \A r, s \in Refreshes : refresh[r].pc # "idle" /\ refresh[s].pc # "idle" => r = s

RefreshesOK == OneRefresh /\ \A r \in Refreshes : StateOK(refresh[r])

RoomOK == \A m \in Symbols : Count(m, {}) <= Full

QuotesInv == Inv /\ OrdersOK /\ PricesOK /\ RefreshesOK /\ RoomOK

\* No quote is added.
Quiet == OrdersOK' /\ PricesOK' /\ \A n, K : Count(n, K)' <= Count(n, K)

LEMMA LevelsType == Levels \in Seq(Quotes) /\ Len(Levels) = Full /\ Levels # <<>>
<1> DEFINE n == Len(Offsets)
<1>1. Offsets \in Seq(Bps) /\ Offsets # <<>>
  BY MarketMakerAssumption DEF Bps
<1>2. n \in Nat /\ Offsets \in [1 .. n -> Bps]
  BY <1>1, LenProperties
<1>3. n # 0
  BY <1>1, EmptySeq
<1>4. Full = 2 * n
  BY DEF Full
<1> HIDE DEF n
<1>5. Full \in Nat /\ Full >= 2
  BY <1>2, <1>3, <1>4
<1>6. ASSUME NEW i \in 1 .. Full
      PROVE  [side |-> IF i % 2 = 1 THEN "BUY" ELSE "SELL", bps |-> Offsets[(i + 1) \div 2]] \in Quotes
  <2> DEFINE k == (i + 1) \div 2
  <2>1. k \in 1 .. n
    BY <1>2, <1>4, <1>5
  <2> HIDE DEF k
  <2>2. Offsets[k] \in Bps
    BY <1>2, <2>1
  <2> DEFINE bps == Offsets[k]
             side == IF i % 2 = 1 THEN "BUY" ELSE "SELL"
  <2>3. side \in Sides
    BY DEF Sides
  <2> HIDE DEF bps, side
  <2>4. [side |-> side, bps |-> bps] \in Quotes
    <3>1. bps \in Bps
      BY <2>2 DEF bps
    <3> QED
      BY <2>3, <3>1 DEF Quotes
  <2> QED
    BY <2>4 DEF side, bps, k
<1>7. Levels = [i \in 1 .. Full |->
                  [side |-> IF i % 2 = 1 THEN "BUY" ELSE "SELL", bps |-> Offsets[(i + 1) \div 2]]]
  BY DEF Levels, Full
<1>8. Levels \in [1 .. Full -> Quotes]
  BY <1>6, <1>7
<1>9. Levels \in Seq(Quotes) /\ Len(Levels) = Full
  BY <1>5, <1>8, LenProperties
<1> QED
  BY <1>5, <1>9, EmptySeq

LEMMA QuotingKept ==
    ASSUME OrdersOK, Quiet, NEW f, QuotingOK(f), NEW K, K = f.cancels
    PROVE  Count(f.market, K)' + Len(f.quotes) <= Full
<1>1. /\ Count(f.market, K)' <= Count(f.market, K)
      /\ Count(f.market, K) + Len(f.quotes) <= Full
      /\ Count(f.market, K) \in Nat /\ Len(f.quotes) \in Nat /\ Full \in Nat
  BY CountType, MarketMakerAssumption DEF Quiet, QuotingOK, Full
<1>2. Count(f.market, K)' \in Nat
  <2>1. Live(f.market, K)' \in SUBSET orders'
    BY DEF Live, BotOrders, Book
  <2> QED
    BY <2>1, FS_Subset, FS_CardinalityType DEF Quiet, OrdersOK, Count
<1> QED
  BY <1>1, <1>2

LEMMA CountNext ==
    ASSUME OrdersOK', NEW m, NEW K
    PROVE  Count(m, K)' \in Nat
<1>1. Live(m, K)' \in SUBSET orders'
  BY DEF Live, BotOrders, Book
<1> QED
  BY <1>1, FS_Subset, FS_CardinalityType DEF OrdersOK, Count

\* A quiet step leaves a refresh the room it has, and each market its own.
LEMMA QuietKeeps ==
    ASSUME QuotesInv, Quiet
    PROVE  RoomOK' /\ \A f : StateOK(f) => StateOK(f)'
<1>1. /\ OrdersOK /\ RoomOK /\ OrdersOK' /\ Full \in Nat
      /\ \A n, K : /\ Count(n, K)' <= Count(n, K)
                   /\ Count(n, K) \in Nat /\ Count(n, K)' \in Nat
  BY CountType, CountNext, MarketMakerAssumption DEF QuotesInv, Quiet, Full
<1>2. RoomOK'
  BY <1>1 DEF RoomOK
<1>3. ASSUME NEW f, StateOK(f) PROVE StateOK(f)'
  <2>1. ASSUME QuotingOK(f) PROVE QuotingOK(f)'
    BY <1>1, <2>1, QuotingKept DEF QuotingOK
  <2> QED
    BY <1>3, <2>1 DEF StateOK
<1> QED
  BY <1>2, <1>3

LEMMA UnchangedIsQuiet ==
    ASSUME QuotesInv, UNCHANGED <<lastTrade, orders, uncancelled>>
    PROVE  Quiet
<1>1. OrdersOK' /\ PricesOK'
  BY DEF QuotesInv, OrdersOK, OrderOK, PricesOK
<1>2. ASSUME NEW n, NEW K PROVE Count(n, K)' <= Count(n, K)
  <2>1. Live(n, K)' = Live(n, K) /\ Count(n, K) \in Nat
    BY CountType DEF Live, BotOrders, Book, QuotesInv
  <2> QED
    BY <2>1 DEF Count
<1> QED
  BY <1>1, <1>2 DEF Quiet

LEMMA ProceedOK == \A todo : StateOK(Proceed(todo))' /\ DOMAIN Proceed(todo) = StateFields
  BY DEF StateOK, Proceed, Idle, StateFields

\* The refresh that begins is the only one.
LEMMA BeginsOne ==
    ASSUME NEW refreshes, DOMAIN refreshes = Refreshes,
           \A r \in Refreshes : refreshes[r].pc = "idle" /\ DOMAIN refreshes[r] = StateFields
    PROVE  /\ \A r \in Refreshes : /\ DOMAIN Begins(refreshes)[r] = StateFields
                                   /\ Begins(refreshes)[r].pc \in {"idle", "query"}
           /\ \A r, s \in Refreshes :
                Begins(refreshes)[r].pc # "idle" /\ Begins(refreshes)[s].pc # "idle" => r = s
<1> DEFINE b == CHOOSE r \in Refreshes : refreshes[r].pc = "idle"
<1>1. Begins(refreshes) = [refreshes EXCEPT ![b].pc = "query"]
  BY DEF Begins
<1> HIDE DEF b
<1>2. \A r \in Refreshes : Begins(refreshes)[r] = IF r = b THEN [refreshes[r] EXCEPT !.pc = "query"]
                                                  ELSE refreshes[r]
  BY <1>1
<1> QED
  BY <1>2 DEF StateFields
-----------------------------------------------------------------------------
(* The steps of a refresh *)

\* What is left to show of a step of a refresh: that the refresh has room.
LEMMA RefreshesFollow ==
    ASSUME QuotesInv, NEW r \in Refreshes, RefreshStep(r), StateOK(refresh[r])',
           \A f : StateOK(f) /\ f.pc = "idle" => StateOK(f)'
    PROVE  RefreshesOK'
<1>1. (refreshing => refreshing') \/ refresh'[r].pc = "idle"
  <2>1. CASE EndRefresh(r)
    BY <2>1 DEF EndRefresh, Becomes, Idle, QuotesInv, Inv
  <2>2. CASE ~EndRefresh(r)
    BY <2>2 DEF RefreshStep, ReadMarkets, ListOpen, PlaceQuote, RefreshMarket, CancelQuote
  <2> QED
    BY <2>1, <2>2
<1>2. /\ refresh[r].pc # "idle" /\ \A s \in Refreshes \ {r} : refresh'[s] = refresh[s]
  BY RefreshStepContinues DEF QuotesInv
<1>3. refreshing /\ \A s \in Refreshes \ {r} : refresh[s].pc = "idle" /\ StateOK(refresh[s])
  BY <1>2 DEF QuotesInv, RefreshesOK, OneRefresh
<1>4. \A s \in Refreshes : refresh'[s].pc # "idle" => s = r /\ refreshing'
  BY <1>1, <1>2, <1>3
<1>5. OneRefresh'
  BY <1>4 DEF OneRefresh
<1>6. ASSUME NEW s \in Refreshes PROVE StateOK(refresh[s])'
  BY <1>2, <1>3
<1> QED
  BY <1>5, <1>6 DEF RefreshesOK

\* A refresh that goes on to the next market, or ends.
LEMMA BetweenMarkets ==
    ASSUME QuotesInv, NEW r \in Refreshes,
           \/ ReadMarkets(r) \/ EndRefresh(r) \/ \E m \in Symbols : RefreshMarket(r, m)
    PROVE  Quiet /\ StateOK(refresh[r])'
<1>1. Quiet
  <2>1. UNCHANGED exchangeVars
    BY DEF ReadMarkets, EndRefresh, RefreshMarket
  <2> QED
    BY <2>1, UnchangedIsQuiet DEF exchangeVars
<1>2. CASE ReadMarkets(r)
  BY <1>1, <1>2, ProceedOK DEF ReadMarkets, Becomes, QuotesInv, Inv
<1>3. CASE EndRefresh(r)
  BY <1>1, <1>3 DEF EndRefresh, Becomes, QuotesInv, Inv, StateOK, Idle, StateFields
<1>4. ASSUME NEW m \in Symbols, RefreshMarket(r, m) PROVE StateOK(refresh[r])'
  <2> DEFINE todo == refresh[r].todo \ {m}
  <2>2. PICK ref \in ReferencePrices(m) :
            refresh'[r] = IF ref = 0 THEN Proceed(todo)
                          ELSE [Idle EXCEPT !.pc = "list", !.todo = todo, !.market = m, !.ref = ref]
    BY <1>4 DEF RefreshMarket, Becomes, QuotesInv, Inv
  <2>3. ref \in Nat
    BY <2>2, MarketMakerAssumption DEF ReferencePrices, QuotesInv, PricesOK
  <2>4. CASE ref = 0
    BY <2>2, <2>4, ProceedOK
  <2>5. CASE ref # 0
    BY <2>2, <2>3, <2>5 DEF StateOK, Idle, StateFields
  <2> QED
    BY <2>4, <2>5
<1> QED
  BY <1>1, <1>2, <1>3, <1>4

\* The list of what to cancel names every quote there is: room for all levels.
LEMMA ListOpenKeeps ==
    ASSUME QuotesInv, NEW r \in Refreshes, ListOpen(r)
    PROVE  Quiet /\ StateOK(refresh[r])'
<1>1. Quiet
  <2>1. UNCHANGED exchangeVars
    BY DEF ListOpen
  <2> QED
    BY <2>1, UnchangedIsQuiet DEF exchangeVars
<1> DEFINE f == refresh[r]
           ids == {o.id : o \in BotOrders(f.market)}
           g == [f EXCEPT !.pc = "quote", !.quotes = Levels, !.cancels = ids]
<1>2. StateOK(f) /\ f.pc = "list"
  BY DEF ListOpen, QuotesInv, RefreshesOK
<1>3. CASE refresh'[r] = Proceed(f.todo)
  BY <1>1, <1>3, ProceedOK
<1>4. CASE refresh'[r] = g
  <2>1. Live(f.market, ids) = {}
    BY DEF Live
  <2>2. Count(f.market, ids) = 0
    BY <2>1, FS_EmptySet DEF Count
  <2> HIDE DEF ids
  <2>3. /\ DOMAIN g = StateFields /\ g.pc = "quote" /\ g.quotes = Levels /\ g.cancels = ids
        /\ g.market = f.market /\ g.ref = f.ref
    BY <1>2 DEF StateOK, StateFields
  <2> HIDE DEF g
  <2>4. QuotingOK(g)
    BY <2>2, <2>3, LevelsType, MarketMakerAssumption DEF QuotingOK, Full
  <2>5. StateOK(g)
    BY <1>2, <2>3, <2>4 DEF StateOK
  <2> QED
    BY <1>1, <1>4, <2>5, QuietKeeps
<1>5. refresh'[r] = g \/ refresh'[r] = Proceed(f.todo)
  BY DEF ListOpen, Becomes, QuotesInv, Inv
<1> QED
  BY <1>1, <1>3, <1>4, <1>5

\* A cancellation takes its order away, or notes that it could not.
LEMMA CancelKeeps ==
    ASSUME QuotesInv, NEW r \in Refreshes, NEW id \in refresh[r].cancels, CancelQuote(r, id)
    PROVE  Quiet /\ StateOK(refresh[r])'
<1> DEFINE f == refresh[r]
<1>0. PICK g : g = [f EXCEPT !.cancels = @ \ {id}]
  OBVIOUS
<1>1. StateOK(f) /\ f.pc = "quote" /\ refresh'[r] = g
  BY <1>0 DEF CancelQuote, Becomes, QuotesInv, Inv, RefreshesOK
<1>2. orders' \in SUBSET orders /\ lastTrade' = lastTrade
  BY DEF CancelQuote
<1>3. OrdersOK' /\ PricesOK'
  <2>1. IsFiniteSet(orders')
    BY <1>2, FS_Subset DEF QuotesInv, OrdersOK
  <2> QED
    BY <1>2, <2>1 DEF QuotesInv, OrdersOK, OrderOK, PricesOK
<1>4. ASSUME NEW o \in orders', o.user = Bot, o.id \notin uncancelled'
      PROVE  o \in orders /\ o.id \notin uncancelled /\ o.id # id
  <2>1. CASE /\ orders' = {x \in orders : x.id # id \/ x.user # Bot}
             /\ uncancelled' = uncancelled \ {id}
    BY <1>4, <2>1
  <2>2. CASE /\ uncancelled' = uncancelled \cup ({id} \cap {x.id : x \in {y \in orders : y.user = Bot}})
             /\ orders' = orders
    BY <1>4, <2>2
  <2> QED
    BY <2>1, <2>2 DEF CancelQuote
<1>5. ASSUME NEW n, NEW K, NEW L, L \subseteq K \cup {id}, K \subseteq L \cup {id}
      PROVE  Count(n, L)' <= Count(n, K)
  <2>1. Live(n, L)' \in SUBSET Live(n, K)
    BY <1>4, <1>5 DEF Live, BotOrders, Book
  <2> QED
    BY <2>1, CountType, FS_Subset DEF Count, QuotesInv
<1>6. Quiet
  BY <1>3, <1>5 DEF Quiet
<1>7. QuotingOK(g)'
  <2>1. /\ QuotingOK(f) /\ Count(f.market, f.cancels) \in Nat
        /\ f.market = g.market /\ f.quotes = g.quotes /\ g.cancels = f.cancels \ {id}
    BY <1>0, <1>1, CountType DEF StateOK, StateFields, QuotesInv
  <2>2. Count(g.market, g.cancels)' <= Count(f.market, f.cancels) /\ Count(g.market, g.cancels)' \in Nat
    BY <1>3, <1>5, <2>1, CountNext
  <2> HIDE DEF f
  <2>3. /\ Len(g.quotes) \in Nat /\ Full \in Nat
        /\ Count(f.market, f.cancels) + Len(g.quotes) <= Full
    BY <2>1, MarketMakerAssumption DEF QuotingOK, Full
  <2>4. Count(g.market, g.cancels)' + Len(g.quotes) <= Full
    BY <2>1, <2>2, <2>3
  <2>5. g.cancels # {} => Len(g.quotes) = Full
    BY <2>1 DEF QuotingOK
  <2> QED
    BY <2>1, <2>4, <2>5 DEF QuotingOK
<1> QED
  BY <1>0, <1>1, <1>6, <1>7 DEF StateOK, StateFields

\* What is quoted is a level of the book.
LEMMA QuotePriceOK ==
    ASSUME NEW ref \in Nat \ {0}, NEW q \in Quotes
    PROVE  LET price == QuotePrice(q.side, ref, q.bps) IN
           /\ q.side \in Sides /\ price \in Nat
           /\ IF q.side = "BUY" THEN price < ref ELSE price > ref
<1>1. q.side \in {"BUY", "SELL"} /\ q.bps \in Bps
  BY DEF Quotes, Sides
<1>2. PICK bps \in Bps : bps = q.bps
  BY <1>1
<1>3. QuotePrice("BUY", ref, bps) \in Nat /\ QuotePrice("BUY", ref, bps) < ref
  BY <1>2, BidBelow
<1>4. QuotePrice("SELL", ref, bps) \in Nat /\ QuotePrice("SELL", ref, bps) > ref
  BY <1>2, AskAbove
<1> QED
  BY <1>1, <1>2, <1>3, <1>4 DEF Sides

\* One quote more, and one fewer to place.
LEMMA PlaceKeeps ==
    ASSUME QuotesInv, NEW r \in Refreshes, PlaceQuote(r)
    PROVE  /\ OrdersOK' /\ PricesOK' /\ RoomOK' /\ StateOK(refresh[r])'
           /\ \A f : StateOK(f) /\ f.pc = "idle" => StateOK(f)'
<1>0. PICK f : f = refresh[r]
  OBVIOUS
<1> DEFINE m == f.market
           q == Head(f.quotes)
           rest == Tail(f.quotes)
           price == QuotePrice(q.side, f.ref, q.bps)
<1>1. /\ StateOK(f) /\ f.pc = "quote" /\ f.cancels = {}
      /\ m \in Symbols /\ f.ref \in Nat \ {0} /\ QuotingOK(f)
  BY <1>0 DEF PlaceQuote, QuotesInv, RefreshesOK, StateOK
<1>2. refresh'[r] = IF rest = <<>> THEN Proceed(f.todo) ELSE [f EXCEPT !.quotes = rest]
  BY <1>0 DEF PlaceQuote, Becomes, QuotesInv, Inv
<1>3. /\ q \in Quotes /\ rest \in Seq(Quotes)
      /\ Len(f.quotes) \in Nat \ {0} /\ Len(rest) = Len(f.quotes) - 1
  <2>1. f.quotes \in Seq(Quotes) /\ f.quotes # <<>>
    BY <1>1 DEF QuotingOK
  <2> QED
    BY <2>1, HeadTailProperties, EmptySeq, LenProperties
<1>4. q.side \in Sides /\ price \in Nat /\ IF q.side = "BUY" THEN price < f.ref ELSE price > f.ref
  <2> HIDE DEF q
  <2> QED
    BY <1>1, <1>3, QuotePriceOK
<1>5. /\ OrdersOK' /\ PricesOK'
      /\ \A n, K : Count(n, K)' <= Count(n, K) + 1
      /\ \A n, K : n # m => Count(n, K)' <= Count(n, K)
  <2>1. CASE UNCHANGED exchangeVars
    <3>1. Quiet
      BY <2>1, UnchangedIsQuiet DEF exchangeVars
    <3>2. \A n, K : Count(n, K) \in Nat /\ Count(n, K)' \in Nat
      BY <3>1, CountType, CountNext DEF Quiet, QuotesInv
    <3> QED
      BY <3>1, <3>2 DEF Quiet
  <2>2. CASE CreateOrder(m, Bot, q.side, "LIMIT", price, f.ref)
    <3>1. /\ OrdersOK /\ PricesOK /\ m \in Symbols /\ q.side \in Sides
          /\ price \in Nat /\ f.ref \in Nat
          /\ IF q.side = "BUY" THEN price < f.ref ELSE price > f.ref
      BY <1>1, <1>4 DEF QuotesInv
    <3> HIDE DEF m, q, price
    <3> QED
      BY <2>2, <3>1, OrderCreated
  <2>3. UNCHANGED exchangeVars \/ CreateOrder(m, Bot, q.side, "LIMIT", price, f.ref)
    BY <1>0 DEF PlaceQuote
  <2> QED
    BY <2>1, <2>2, <2>3
<1>6. \A n, K : Count(n, K) \in Nat /\ Count(n, K)' \in Nat
  BY <1>5, CountType, CountNext DEF QuotesInv
<1>7. Full \in Nat /\ Count(m, {}) + Len(f.quotes) <= Full
  BY <1>1, MarketMakerAssumption DEF QuotingOK, Full
<1>8. Count(m, {})' + Len(rest) <= Full
  <2> HIDE DEF rest, m
  <2>1. Count(m, {})' <= Count(m, {}) + 1 /\ Count(m, {}) \in Nat /\ Count(m, {})' \in Nat
    BY <1>5, <1>6
  <2> QED
    BY <1>3, <1>7, <2>1
<1>9. RoomOK'
  <2>1. ASSUME NEW n \in Symbols PROVE Count(n, {})' <= Full
    <3>1. CASE n = m
      <4>1. Len(rest) \in Nat /\ Count(m, {})' \in Nat
        BY <1>3, <1>6
      <4> HIDE DEF rest, m
      <4> QED
        BY <1>7, <1>8, <3>1, <4>1
    <3>2. CASE n # m
      BY <1>5, <1>6, <1>7, <3>2 DEF QuotesInv, RoomOK
    <3> QED
      BY <3>1, <3>2
  <2> QED
    BY <2>1 DEF RoomOK
<1>10. StateOK(refresh[r])'
  <2>1. CASE rest = <<>>
    BY <1>2, <2>1, ProceedOK
  <2>2. CASE rest # <<>>
    <3>0. PICK g : g = [f EXCEPT !.quotes = rest]
      OBVIOUS
    <3>1. /\ refresh'[r] = g /\ DOMAIN g = StateFields /\ g.quotes = rest /\ g.cancels = {}
          /\ g.market = m /\ g.ref = f.ref /\ g.pc = "quote"
      BY <1>1, <1>2, <2>2, <3>0 DEF StateOK, StateFields
    <3>2. QuotingOK(g)'
      <4> HIDE DEF m, rest
      <4>1. Len(g.quotes) <= Full
        BY <1>3, <1>7, <1>6, <3>1 DEF QuotingOK
      <4>2. Count(g.market, g.cancels)' + Len(g.quotes) <= Full
        BY <1>8, <3>1
      <4> QED
        BY <1>3, <2>2, <3>1, <4>1, <4>2 DEF QuotingOK
    <3> QED
      BY <1>1, <3>1, <3>2 DEF StateOK
  <2> QED
    BY <2>1, <2>2
<1> QED
  BY <1>5, <1>9, <1>10 DEF StateOK

LEMMA RefreshStepKeeps ==
    ASSUME QuotesInv, NEW r \in Refreshes, RefreshStep(r)
    PROVE  OrdersOK' /\ PricesOK' /\ RefreshesOK' /\ RoomOK'
<1>1. ASSUME Quiet, StateOK(refresh[r])'
      PROVE  OrdersOK' /\ PricesOK' /\ RefreshesOK' /\ RoomOK'
  BY <1>1, QuietKeeps, RefreshesFollow DEF Quiet
<1>2. CASE ReadMarkets(r) \/ EndRefresh(r) \/ \E m \in Symbols : RefreshMarket(r, m)
  BY <1>1, <1>2, BetweenMarkets
<1>3. CASE ListOpen(r)
  BY <1>1, <1>3, ListOpenKeeps
<1>4. CASE PlaceQuote(r)
  BY <1>4, PlaceKeeps, RefreshesFollow
<1>5. ASSUME NEW id \in refresh[r].cancels, CancelQuote(r, id)
      PROVE  OrdersOK' /\ PricesOK' /\ RefreshesOK' /\ RoomOK'
  BY <1>1, <1>5, CancelKeeps
<1> QED
  BY <1>2, <1>3, <1>4, <1>5 DEF RefreshStep
-----------------------------------------------------------------------------
(* The steps around a refresh *)

\* The call that the timer makes begins a refresh where none is under way.
LEMMA RefreshAllKeeps ==
    ASSUME QuotesInv, RefreshAll, UNCHANGED exchangeVars
    PROVE  OrdersOK' /\ PricesOK' /\ RefreshesOK' /\ RoomOK'
<1>1. Quiet
  BY UnchangedIsQuiet DEF exchangeVars
<1>2. RefreshesOK'
  <2>1. CASE UNCHANGED <<refreshing, refresh>>
    BY <1>1, <2>1, QuietKeeps DEF RefreshesOK, OneRefresh, QuotesInv
  <2>2. CASE ~refreshing /\ refreshing' = TRUE /\ refresh' = Begins(refresh)
    <3>1. \A r \in Refreshes : refresh[r].pc = "idle" /\ DOMAIN refresh[r] = StateFields
      BY <2>2 DEF QuotesInv, RefreshesOK, OneRefresh, StateOK
    <3>2. DOMAIN refresh = Refreshes
      BY DEF QuotesInv, Inv
    <3>3. /\ \A r \in Refreshes : /\ DOMAIN Begins(refresh)[r] = StateFields
                                  /\ Begins(refresh)[r].pc \in {"idle", "query"}
          /\ \A r, s \in Refreshes :
                Begins(refresh)[r].pc # "idle" /\ Begins(refresh)[s].pc # "idle" => r = s
      BY <3>1, <3>2, BeginsOne
    <3> QED
      BY <2>2, <3>3 DEF RefreshesOK, OneRefresh, StateOK
  <2> QED
    BY <2>1, <2>2 DEF RefreshAll
<1> QED
  BY <1>1, <1>2, QuietKeeps DEF Quiet

\* A crash forgets the refresh, and nothing of the exchange.
LEMMA RestartKeeps ==
    ASSUME QuotesInv, Restart
    PROVE  OrdersOK' /\ PricesOK' /\ RefreshesOK' /\ RoomOK'
<1>1. Quiet
  BY UnchangedIsQuiet DEF exchangeVars, Restart
<1>2. RefreshesOK'
  <2> DEFINE none == [r \in Refreshes |-> Idle]
  <2>1. /\ DOMAIN none = Refreshes
        /\ \A r \in Refreshes : none[r].pc = "idle" /\ DOMAIN none[r] = StateFields
    BY DEF Idle, StateFields
  <2>2. CASE Enabled /\ refreshing' = TRUE /\ refresh' = Begins(none)
    <3> HIDE DEF none
    <3>1. /\ \A r \in Refreshes : /\ DOMAIN Begins(none)[r] = StateFields
                                  /\ Begins(none)[r].pc \in {"idle", "query"}
          /\ \A r, s \in Refreshes :
                Begins(none)[r].pc # "idle" /\ Begins(none)[s].pc # "idle" => r = s
      BY <2>1, BeginsOne
    <3> QED
      BY <2>2, <3>1 DEF RefreshesOK, OneRefresh, StateOK
  <2>3. CASE refresh' = none
    <3> HIDE DEF none
    <3> QED
      BY <2>1, <2>3 DEF RefreshesOK, OneRefresh, StateOK
  <2> QED
    <3>1. Enabled \in BOOLEAN
      BY MarketMakerAssumption
    <3>2. refreshing' = Enabled /\ refresh' = IF Enabled THEN Begins(none) ELSE none
      BY DEF Restart
    <3> HIDE DEF none
    <3>3. (Enabled /\ refreshing' = TRUE /\ refresh' = Begins(none)) \/ refresh' = none
      BY <3>1, <3>2
    <3> QED
      BY <2>2, <2>3, <3>3
<1> QED
  BY <1>1, <1>2, QuietKeeps DEF Quiet

\* A trader's order makes no quote, whatever it does to those there are.
LEMMA TradeKeeps ==
    ASSUME QuotesInv, NEW m \in Symbols, Trade(m)
    PROVE  OrdersOK' /\ PricesOK' /\ RefreshesOK' /\ RoomOK'
<1>1. PICK side \in Sides, type \in OrderTypes :
        \E price \in IF type = "LIMIT" THEN {Down(p, Tick) : p \in Prices} ELSE {0} :
            CreateOrder(m, Trader, side, type, price, 0)
  BY Zenon DEF Trade
<1>2. PICK price : /\ price \in {Down(p, Tick) : p \in Prices} \cup {0}
                   /\ CreateOrder(m, Trader, side, type, price, 0)
  BY <1>1
<1>3. price \in Nat
  <2>1. \A p \in Prices : p \in Nat /\ Tick \in Nat \ {0}
    BY MarketMakerAssumption
  <2>2. \A p \in Prices : p \div Tick \in Nat
    BY <2>1, DivFacts
  <2>3. \A p \in Prices : Down(p, Tick) \in Nat
    BY <2>1, <2>2 DEF Down
  <2> QED
    BY <1>2, <2>3
<1>4. Quiet
  <2>1. OrdersOK /\ PricesOK /\ Trader # Bot
    BY MarketMakerAssumption DEF QuotesInv
  <2> QED
    BY <1>2, <1>3, <2>1, OrderCreated DEF Quiet
<1>5. UNCHANGED <<refreshing, refresh>>
  BY Zenon DEF Trade
<1> QED
  BY <1>4, <1>5, QuietKeeps DEF Quiet, QuotesInv, RefreshesOK, OneRefresh

LEMMA QuotesInvInit == Init => QuotesInv
<1> SUFFICES ASSUME Init PROVE QuotesInv
  OBVIOUS
<1>1. Inv
  BY DEF Init, Inv, SwitchOK
<1>2. OrdersOK /\ PricesOK
  BY FS_EmptySet DEF Init, OrdersOK, PricesOK
<1>3. RefreshesOK
  BY DEF Init, RefreshesOK, OneRefresh, StateOK, Idle, StateFields
<1>4. RoomOK
  <2>1. \A m : Live(m, {}) = {}
    BY DEF Init, Live, BotOrders, Book
  <2> QED
    <3>1. \A m : Count(m, {}) = 0
      BY <2>1, FS_EmptySet DEF Count
    <3>2. Full \in Nat
      BY MarketMakerAssumption DEF Full
    <3> QED
      BY <3>1, <3>2 DEF RoomOK
<1> QED
  BY <1>1, <1>2, <1>3, <1>4 DEF QuotesInv

LEMMA QuotesInvStep == QuotesInv /\ [Next]_vars => QuotesInv'
<1> SUFFICES ASSUME QuotesInv, [Next]_vars PROVE OrdersOK' /\ PricesOK' /\ RefreshesOK' /\ RoomOK'
  <2>1. Inv /\ UNCHANGED vars => Inv'
    BY DEF Inv, SwitchOK, vars
  <2> QED
    BY <2>1, StepKeeps DEF QuotesInv
<1>1. CASE UNCHANGED <<lastTrade, orders, uncancelled, refreshing, refresh>>
  BY <1>1, UnchangedIsQuiet, QuietKeeps DEF Quiet, QuotesInv, RefreshesOK, OneRefresh
<1>2. CASE Start \/ TickInterval
  BY <1>2, RefreshAllKeeps DEF Start, TickInterval
<1>3. CASE Restart
  BY <1>3, RestartKeeps
<1>4. ASSUME NEW m \in Symbols, Trade(m)
      PROVE  OrdersOK' /\ PricesOK' /\ RefreshesOK' /\ RoomOK'
  BY <1>4, TradeKeeps
<1>5. ASSUME NEW r \in Refreshes, RefreshStep(r)
      PROVE  OrdersOK' /\ PricesOK' /\ RefreshesOK' /\ RoomOK'
  BY <1>5, RefreshStepKeeps
<1>6. CASE UNCHANGED vars \/ Pause \/ \E m \in Symbols : UpdateMarket(m)
  BY <1>1, <1>6 DEF vars, Pause, UpdateMarket, exchangeVars
<1> QED
  BY <1>2, <1>3, <1>4, <1>5, <1>6 DEF Next

\* market-maker.service.ts 21-25: whatever the reference price, the offset and
\* the tick, rounding takes no quote to the wrong side of the reference price.
THEOREM QuotesStraddle == Spec => []QuotesStraddleReference
<1>1. QuotesInv => QuotesStraddleReference
  BY DEF QuotesInv, OrdersOK, OrderOK, Straddles, QuotesStraddleReference, BotOrders, Book
<1> QED
  BY <1>1, QuotesInvInit, QuotesInvStep, PTL DEF Spec

\* market-maker.service.ts 121-156: for any levels and markets, through
\* trades, halts, pauses, failures and crashes, the bot has on no market more
\* quotes than levels on each side, but for those it could not cancel.
THEOREM OneGeneration == Spec => []OneGenerationOfQuotes
<1>1. QuotesInv => OneGenerationOfQuotes
  <2>1. \A m : Live(m, {}) = {o \in BotOrders(m) : o.id \notin uncancelled}
    BY DEF Live
  <2> QED
    BY <2>1 DEF QuotesInv, RoomOK, Count, Full, OneGenerationOfQuotes
<1> QED
  BY <1>1, QuotesInvInit, QuotesInvStep, PTL DEF Spec
=============================================================================
