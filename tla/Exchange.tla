------------------------------ MODULE Exchange ------------------------------
(***************************************************************************)
(* Spot orders of one market, from the HTTP call to the committed rows:    *)
(* OrdersService, MatchingService, BalancesService and LedgerService over  *)
(* a READ COMMITTED PostgreSQL, with the matching engine in memory.        *)
(*                                                                         *)
(* A call is a sequence of blocks.  A block is what a handler does between *)
(* two points where another handler can matter: some writes, which only its*)
(* own transaction sees and which lock their rows until it ends, and then  *)
(* one read of committed rows, or one synchronous access to the engine.    *)
(* Moving the writes (and the waits for their locks) right, up to the read *)
(* that follows, changes nothing any other handler can see.                *)
(*                                                                         *)
(* tx[p] is the open transaction of call p: the rows it has locked, and    *)
(* what it will change when it commits.  Statements that wait for a row    *)
(* locked by another transaction may be ended by the deadlock detector or  *)
(* by the 5 s limit of an interactive transaction (FailTransaction).       *)
(***************************************************************************)
EXTENDS Matching

CONSTANTS
    Users,             \* the traders
    FeeRevenue,        \* owner of the FEE_REVENUE system accounts
    InitialBalance,    \* available funds: [Users -> [Assets -> Nat]]
    Orders,            \* identifiers of orders, one per call of createOrder
    Requests,          \* the dtos: [user, side, type, price, quantity]
    CancelCalls,       \* calls of cancelOrder
    MinimumNotional,   \* market.minimumNotional
    MakerFee, TakerFee, FeeScale,   \* the fee rates are MakerFee/FeeScale ...
    SlipNum, SlipDen,  \* MARKET_ORDER_SLIPPAGE_BUFFER = SlipNum/SlipDen
    MaxInFlight,       \* how many calls the clients have open at once
    MayFail,           \* whether a transaction may fail without waiting
    MaxRestarts        \* bound on restarts of the backend

Assets == {"base", "quote"}

ASSUME ExchangeAssumption ==
    /\ IsFiniteSet(Users) /\ IsFiniteSet(Orders) /\ IsFiniteSet(CancelCalls)
    /\ FeeRevenue \notin Users
    /\ Orders \cap CancelCalls = {}
    /\ InitialBalance \in [Users -> [Assets -> Nat]]
    /\ Requests \subseteq [user : Users, side : Sides, type : OrderTypes,
                           price : Nat \ {0}, quantity : Nat \ {0}]
    /\ MinimumNotional \in Nat
    /\ MakerFee \in Nat /\ TakerFee \in Nat /\ FeeScale \in Nat \ {0}
    /\ MakerFee < FeeScale /\ TakerFee < FeeScale
    /\ SlipNum \in Nat /\ SlipDen \in Nat \ {0} /\ SlipNum >= SlipDen
    /\ MaxInFlight \in Nat \ {0}
    /\ MayFail \in BOOLEAN
    /\ MaxRestarts \in Nat

VARIABLES
    \* the database, as committed
    account,    \* Account rows: available and locked
    order,      \* Order rows (their mutable columns and createdAt)
    hold,       \* Hold rows, one per order
    trades,     \* Trade rows
    \* the memory of the backend
    book,       \* the engine's resting orders
    arrivals,   \* the engine's sequence
    \* the calls
    request,    \* the dto of the call that creates each order
    price,      \* the price that call resolved: the price column of the order
    target,     \* the order each call of cancelOrder is for
    create,     \* the state of each createOrder call
    cancel,     \* the state of each cancelOrder call
    tx,         \* the open transaction of each call
    restarts    \* restarts so far

db == <<account, order, hold, trades>>
engine == <<book, arrivals>>
inputs == <<request, target>>
vars == <<db, engine, inputs, price, create, cancel, tx, restarts>>
-----------------------------------------------------------------------------
(* Rows *)

Accounts == (Users \cup {FeeRevenue}) \X Assets
UserAccounts == Users \X Assets
Calls == Orders \cup CancelCalls

Balance == [available : Int, locked : Int]
ZeroBalance == [available |-> 0, locked |-> 0]

OpenStatuses == {"OPEN", "PARTIALLY_FILLED"}
OrderStatuses == OpenStatuses \cup {"NONE", "FILLED", "CANCELLED"}
OrderRow == [status : OrderStatuses, filled : Int, remaining : Int, created : Nat]
NoOrder == [status |-> "NONE", filled |-> 0, remaining |-> 0, created |-> 0]

HoldRow == [status : {"NONE", "ACTIVE", "RELEASED", "CONSUMED"}, amount : Nat]
NoHold == [status |-> "NONE", amount |-> 0]

Rows == ({"account"} \X Accounts) \cup ({"order", "hold"} \X Orders)

\* A transaction: NoOrder and NoHold mark the rows it has not written.
NoTx == [rows |-> {}, delta |-> [a \in Accounts |-> ZeroBalance],
         order |-> [o \in Orders |-> NoOrder], hold |-> [o \in Orders |-> NoHold],
         trades |-> {}]

\* What a statement of call p reads: its own writes, else what is committed.
OrderSeen(p, o) == IF tx[p].order[o] # NoOrder THEN tx[p].order[o] ELSE order[o]
HoldSeen(p, o) == IF tx[p].hold[o] # NoHold THEN tx[p].hold[o] ELSE hold[o]

\* The funds an order reserves: whose, of which asset, how much for q.
HoldAccount(o) ==
    <<request[o].user, IF request[o].side = "BUY" THEN "quote" ELSE "base">>
reserveAmount(o, q) == IF request[o].side = "BUY" THEN price[o] * q ELSE q

FeeOf(amount, rate) == (amount * rate) \div FeeScale
-----------------------------------------------------------------------------
(* Calls *)

CreateEnds == {"done", "rejected", "insufficient", "failed", "lost"}
CancelEnds == {"done", "refused", "failed", "lost"}
SettlingPcs == {"fill", "buyer", "seller", "maker", "taker", "remainder"}
CancellingPcs == {"checked", "marked", "released"}

\* A createOrder call: fills still to settle, unfilled remainder and whether it
\* is to be cancelled, and the rows read last.
Handler(pc) == [pc |-> pc, fills |-> {}, left |-> 0, cancelRest |-> FALSE,
                seenHold |-> NoHold, seenOrder |-> NoOrder]
Canceller(pc) == [pc |-> pc, seenHold |-> NoHold]

InFlight(p) ==
    IF p \in Orders THEN create[p].pc \notin CreateEnds \cup {"new"}
                    ELSE cancel[p].pc \notin CancelEnds \cup {"new"}
MayStart == Cardinality({p \in Calls : InFlight(p)}) < MaxInFlight

\* The next fill a settlement works on, and its two sides.
NextFill(o) ==
    CHOOSE f \in create[o].fills : \A g \in create[o].fills : f.ahead <= g.ahead
Buyer(o) == IF request[o].side = "BUY" THEN o ELSE NextFill(o).maker
Seller(o) == IF request[o].side = "BUY" THEN NextFill(o).maker ELSE o

TradeOf(o, f) == [maker |-> f.maker, taker |-> o, price |-> f.price,
                  quantity |-> f.quantity]

\* Variant: the fees are taken and credited to nobody.
LegToUser(a, to, amount) == IF a = to /\ a \in UserAccounts THEN amount ELSE 0

\* One leg of a ledger transaction, as a change of available.
Leg(a, to, amount) == IF a = to THEN amount ELSE 0

\* The legs of the TRADE_FILL for the next fill: fees come out of what each
\* side receives.
Legs(o) ==
    LET f == NextFill(o)
        buyer == request[Buyer(o)].user
        seller == request[Seller(o)].user
        quote == f.price * f.quantity
        takerBuys == Buyer(o) = o
        feeBase == FeeOf(f.quantity, IF takerBuys THEN TakerFee ELSE MakerFee)
        feeQuote == FeeOf(quote, IF takerBuys THEN MakerFee ELSE TakerFee)
    IN  [a \in Accounts |->
            Leg(a, <<buyer, "quote">>, -quote)
            + Leg(a, <<seller, "quote">>, quote - feeQuote)
            + Leg(a, <<FeeRevenue, "quote">>, feeQuote)
            + Leg(a, <<seller, "base">>, -f.quantity)
            + Leg(a, <<buyer, "base">>, f.quantity - feeBase)
            + Leg(a, <<FeeRevenue, "base">>, feeBase)]

LegAccounts(o) == LET legs == Legs(o) IN {a \in Accounts : legs[a] # 0}

\* The rows reduceHold or releaseHold of an order's hold writes.
HoldRows(o) == {<<"hold", o>>, <<"account", HoldAccount(o)>>}
HoldRowsIfSeenActive(p, o) ==
    IF create[p].seenHold.status = "ACTIVE" THEN HoldRows(o) ELSE {}

\* The rows the next block of a call writes, and so locks.
CreateNeeds(o) ==
    LET at(pc, rows) == IF create[o].pc = pc THEN rows ELSE {}
    IN  at("placing", {<<"account", HoldAccount(o)>>})
        \cup at("buyer", HoldRowsIfSeenActive(o, Buyer(o)))
        \cup at("seller", HoldRowsIfSeenActive(o, Seller(o))
                          \cup {<<"account", a>> : a \in LegAccounts(o)})
        \cup at("maker", {<<"order", NextFill(o).maker>>})
        \cup at("taker", {<<"order", o>>})
        \cup at("remainder", HoldRowsIfSeenActive(o, o) \cup {<<"order", o>>})
\* Variant: the hold is read before the row of the order is written.
CancelNeedsLate(c) ==
    IF cancel[c].pc = "marked" /\ hold[target[c]].status = "ACTIVE"
    THEN HoldRows(target[c]) ELSE {}

CancelNeeds(c) ==
    LET at(pc, rows) == IF cancel[c].pc = pc THEN rows ELSE {}
    IN  at("checked", {<<"order", target[c]>>})
        \cup at("marked", IF hold[target[c]].status = "ACTIVE"
                          THEN HoldRows(target[c]) ELSE {})
Needs(p) == IF p \in Orders THEN CreateNeeds(p) ELSE CancelNeeds(p)

\* No other transaction has a lock on a row that p is about to write.
Free(p) == \A q \in Calls \ {p} : tx[q].rows \cap Needs(p) = {}
-----------------------------------------------------------------------------
(* createOrder: validation, then the transaction that reserves the funds *)

Opposing(side) == {e \in book : e.side # side}

\* The best price on the other side, none when it is empty.
BestPrice(side) ==
    {p \in {e.price : e \in Opposing(side)} :
        \A e \in Opposing(side) : IF side = "BUY" THEN p <= e.price ELSE p >= e.price}

\* The price a call resolves: its own, or what a MARKET order reserves at; a
\* MARKET order that finds an empty book resolves none.
ResolvedPrice(r) ==
    IF r.type = "LIMIT" THEN {r.price}
    ELSE IF r.side = "SELL" THEN BestPrice("SELL")
    ELSE {(p * SlipNum) \div SlipDen : p \in BestPrice("BUY")}

ReceiveOrder(o) ==
    /\ create[o].pc = "new"
    /\ MayStart
    /\ \/ /\ \A p \in ResolvedPrice(request[o]) :
                p * request[o].quantity < MinimumNotional
          /\ create' = [create EXCEPT ![o] = Handler("rejected")]
          /\ UNCHANGED price
       \/ \E p \in ResolvedPrice(request[o]) :
          /\ p * request[o].quantity >= MinimumNotional
          /\ create' = [create EXCEPT ![o] = Handler("placing")]
          /\ price' = [price EXCEPT ![o] = p]
    /\ UNCHANGED <<db, engine, inputs, cancel, tx, restarts>>

Placed == {o \in Orders : order[o].status # "NONE"}

\* order.create and lockFunds, in one transaction.
PlaceOrder(o) ==
    LET a == HoldAccount(o)
        amount == reserveAmount(o, request[o].quantity)
    IN  /\ create[o].pc = "placing"
        /\ Free(o)
        /\ \/ /\ account[a].available >= amount
              /\ account' = [account EXCEPT ![a] =
                    [available |-> @.available - amount, locked |-> @.locked + amount]]
              /\ order' = [order EXCEPT ![o] =
                    [status |-> "OPEN", filled |-> 0, remaining |-> request[o].quantity,
                     created |-> Cardinality(Placed) + 1]]
              /\ hold' = [hold EXCEPT ![o] = [status |-> "ACTIVE", amount |-> amount]]
              /\ create' = [create EXCEPT ![o] = Handler("placed")]
           \/ /\ account[a].available < amount
              /\ create' = [create EXCEPT ![o] = Handler("rejected")]
              /\ UNCHANGED <<account, order, hold>>
        /\ UNCHANGED <<trades, engine, inputs, price, cancel, tx, restarts>>
-----------------------------------------------------------------------------
(* submitAndSettle: the engine, then one transaction for all the fills *)

\* An order as the engine sees it.
EngineOrder(o, remaining, sequence) ==
    [id |-> o, user |-> request[o].user, side |-> request[o].side,
     type |-> request[o].type, price |-> price[o], remaining |-> remaining,
     sequence |-> sequence]

SubmitOrder(o) ==
    LET taker == EngineOrder(o, request[o].quantity, arrivals + 1)
        fills == Fills(book, taker)
        rests == Rests(book, taker)
    IN  /\ create[o].pc = "placed"
        /\ book' = Matched(book, taker)
        /\ arrivals' = arrivals + 1
        /\ create' = [create EXCEPT ![o] =
              IF fills = {} /\ rests THEN Handler("done")
              ELSE [Handler("fill") EXCEPT
                      !.fills = fills,
                      !.left = Left(book, taker),
                      !.cancelRest = ~rests /\ Left(book, taker) > 0]]
        /\ UNCHANGED <<db, inputs, price, cancel, tx, restarts>>

\* Variant: the status of the hold is written with its amount.
reduceHoldReopening(t, p, o, amount) ==
    LET seen == create[p].seenHold
        left == seen.amount - amount
    IN  IF seen.status # "ACTIVE" THEN t
        ELSE [t EXCEPT
                !.delta[HoldAccount(o)] = [available |-> @.available + amount,
                                           locked |-> @.locked - amount],
                !.hold[o] = IF left <= 0
                            THEN [status |-> "CONSUMED", amount |-> 0]
                            ELSE [status |-> "ACTIVE", amount |-> left]]

\* The writes of reduceHold in transaction t of call p, from the hold it read.
reduceHold(t, p, o, amount) ==
    LET a == HoldAccount(o)
        seen == create[p].seenHold
        left == seen.amount - amount
    IN  IF seen.status # "ACTIVE" THEN t
        ELSE [t EXCEPT
                !.delta[a] = [available |-> @.available + amount,
                              locked |-> @.locked - amount],
                !.hold[o] = IF left <= 0
                            THEN [status |-> "CONSUMED", amount |-> 0]
                            ELSE [status |-> HoldSeen(p, o).status, amount |-> left]]

\* One more block of the settlement of o, up to the read it ends with.
Settle(o, t, handler) ==
    /\ Free(o)
    /\ tx' = [tx EXCEPT ![o] = [t EXCEPT !.rows = @ \cup Needs(o)]]
    /\ create' = [create EXCEPT ![o] = handler]
    /\ UNCHANGED <<db, engine, inputs, price, cancel, restarts>>

ReadBuyerHold(o) ==
    /\ create[o].pc = "fill" /\ create[o].fills # {}
    /\ Settle(o, tx[o], [create[o] EXCEPT !.pc = "buyer",
                                          !.seenHold = HoldSeen(o, Buyer(o))])

\* Variant: what is un-reserved is the cost of the fill.
ReduceBuyerHoldAtFillPrice(o) ==
    /\ create[o].pc = "buyer"
    /\ Settle(o, reduceHold(tx[o], o, Buyer(o),
                            NextFill(o).price * NextFill(o).quantity),
              [create[o] EXCEPT !.pc = "seller", !.seenHold = HoldSeen(o, Seller(o))])

ReduceBuyerHold(o) ==
    /\ create[o].pc = "buyer"
    /\ Settle(o, reduceHold(tx[o], o, Buyer(o),
                            reserveAmount(Buyer(o), NextFill(o).quantity)),
              [create[o] EXCEPT !.pc = "seller", !.seenHold = HoldSeen(o, Seller(o))])

\* reduceHold of the seller, trade.create and the ledger transaction.
FillTx(o) ==
    LET t == reduceHold(tx[o], o, Seller(o), NextFill(o).quantity)
        legs == Legs(o)
    IN  [t EXCEPT !.trades = @ \cup {TradeOf(o, NextFill(o))},
                  !.delta = [a \in Accounts |->
                      [t.delta[a] EXCEPT !.available = @ + legs[a]]]]

\* Variant: the debits are not guarded.
FundedAlways(o) == TRUE

\* The guarded debits of applyToBalance find the funds.
Funded(o) ==
    LET legs == Legs(o)
        delta == FillTx(o).delta
    IN  \A a \in UserAccounts :
            legs[a] < 0 => account[a].available + delta[a].available >= 0

PostFill(o) ==
    /\ create[o].pc = "seller"
    /\ Funded(o)
    /\ Settle(o, FillTx(o), [create[o] EXCEPT !.pc = "maker",
                                !.seenOrder = OrderSeen(o, NextFill(o).maker)])

\* Variant: the filled quantity is set, not increased.
AppliedOnce(row, quantity) ==
    [row EXCEPT !.filled = quantity,
                !.remaining = @ - quantity,
                !.status = IF row.remaining - quantity <= 0
                           THEN "FILLED" ELSE "PARTIALLY_FILLED"]

\* applyFillToOrder: what is written from the row that was read.
Applied(row, quantity) ==
    [row EXCEPT !.filled = @ + quantity,
                !.remaining = @ - quantity,
                !.status = IF row.remaining - quantity <= 0
                           THEN "FILLED" ELSE "PARTIALLY_FILLED"]

FillMaker(o) ==
    LET f == NextFill(o)
    IN  /\ create[o].pc = "maker"
        /\ Settle(o, [tx[o] EXCEPT !.order[f.maker] =
                          Applied(create[o].seenOrder, f.quantity)],
                  [create[o] EXCEPT !.pc = "taker", !.seenOrder = OrderSeen(o, o)])

FillTaker(o) ==
    LET f == NextFill(o)
    IN  /\ create[o].pc = "taker"
        /\ Settle(o, [tx[o] EXCEPT !.order[o] =
                          Applied(create[o].seenOrder, f.quantity)],
                  [create[o] EXCEPT !.pc = "fill", !.fills = @ \ {f},
                                    !.seenHold = NoHold, !.seenOrder = NoOrder])

ReadRemainderHold(o) ==
    /\ create[o].pc = "fill" /\ create[o].fills = {} /\ create[o].cancelRest
    /\ Settle(o, tx[o], [create[o] EXCEPT !.pc = "remainder",
                                          !.seenHold = HoldSeen(o, o)])

CancelRemainder(o) ==
    /\ create[o].pc = "remainder"
    /\ Settle(o, [reduceHold(tx[o], o, o, reserveAmount(o, create[o].left)) EXCEPT
                    !.order[o] = [OrderSeen(o, o) EXCEPT !.status = "CANCELLED"]],
              [create[o] EXCEPT !.pc = "fill", !.cancelRest = FALSE,
                                !.seenHold = NoHold])

\* The committed rows once the transaction of p is.
Commit(p) ==
    /\ account' = [a \in Accounts |->
            [available |-> account[a].available + tx[p].delta[a].available,
             locked |-> account[a].locked + tx[p].delta[a].locked]]
    /\ order' = [o \in Orders |-> OrderSeen(p, o)]
    /\ hold' = [o \in Orders |-> HoldSeen(p, o)]
    /\ trades' = trades \cup tx[p].trades
    /\ tx' = [tx EXCEPT ![p] = NoTx]

CommitSettlement(o) ==
    /\ create[o].pc = "fill" /\ create[o].fills = {} /\ ~create[o].cancelRest
    /\ Commit(o)
    /\ create' = [create EXCEPT ![o] = Handler("done")]
    /\ UNCHANGED <<engine, inputs, price, cancel, restarts>>

\* InsufficientBalanceError rolls the settlement back; the engine is not told.
SettlementShort(o) ==
    /\ create[o].pc = "seller"
    /\ Free(o)
    /\ ~Funded(o)
    /\ tx' = [tx EXCEPT ![o] = NoTx]
    /\ create' = [create EXCEPT ![o] = Handler("insufficient")]
    /\ UNCHANGED <<db, engine, inputs, price, cancel, restarts>>
-----------------------------------------------------------------------------
(* cancelOrder, called by the owner of the order *)

ReceiveCancel(c) ==
    /\ cancel[c].pc = "new"
    /\ MayStart
    /\ target[c] \in Placed
    /\ cancel' = [cancel EXCEPT ![c] =
          Canceller(IF order[target[c]].status \in OpenStatuses
                    THEN "checked" ELSE "refused")]
    /\ UNCHANGED <<db, engine, inputs, price, create, tx, restarts>>

\* order.update, then releaseHold reads the hold.
MarkCancelled(c) ==
    /\ cancel[c].pc = "checked"
    /\ Free(c)
    /\ tx' = [tx EXCEPT ![c].order[target[c]] =
                            [order[target[c]] EXCEPT !.status = "CANCELLED"],
                        ![c].rows = Needs(c)]
    /\ cancel' = [cancel EXCEPT ![c] = [pc |-> "marked", seenHold |-> hold[target[c]]]]
    /\ UNCHANGED <<db, engine, inputs, price, create, restarts>>

\* Variant: the whole reservation is released.
releaseWholeHold(c) ==
    LET o == target[c]
        amount == reserveAmount(o, request[o].quantity)
    IN  [tx[c] EXCEPT
            !.delta[HoldAccount(o)] = [available |-> amount, locked |-> -amount],
            !.hold[o] = [hold[o] EXCEPT !.status = "RELEASED"]]

\* The writes of releaseHold: the amount that moves is the one read before.
releaseHold(c) ==
    LET o == target[c]
        amount == cancel[c].seenHold.amount
    IN  [tx[c] EXCEPT
            !.delta[HoldAccount(o)] = [available |-> amount, locked |-> -amount],
            !.hold[o] = [hold[o] EXCEPT !.status = "RELEASED"]]

\* Variant: the status of the hold is no gate.
ReleaseHoldTwice(c) ==
    /\ cancel[c].pc = "marked"
    /\ Free(c)
    /\ tx' = [tx EXCEPT ![c] = [releaseHold(c) EXCEPT
                                  !.rows = @ \cup HoldRows(target[c])]]
    /\ book' = {e \in book : e.id # target[c]}
    /\ cancel' = [cancel EXCEPT ![c] = Canceller("released")]
    /\ UNCHANGED <<db, arrivals, inputs, price, create, restarts>>

\* Its gate is the status of the row as it is now.  Then the engine drops the
\* order.
ReleaseHold(c) ==
    LET o == target[c]
    IN  /\ cancel[c].pc = "marked"
        /\ Free(c)
        /\ \/ /\ hold[o].status = "ACTIVE"
              /\ tx' = [tx EXCEPT ![c] = [releaseHold(c) EXCEPT !.rows = @ \cup Needs(c)]]
           \/ /\ hold[o].status # "ACTIVE"
              /\ UNCHANGED tx
        /\ book' = {e \in book : e.id # o}
        /\ cancel' = [cancel EXCEPT ![c] = Canceller("released")]
        /\ UNCHANGED <<db, arrivals, inputs, price, create, restarts>>

CommitCancel(c) ==
    /\ cancel[c].pc = "released"
    /\ Commit(c)
    /\ cancel' = [cancel EXCEPT ![c] = Canceller("done")]
    /\ UNCHANGED <<engine, inputs, price, create, restarts>>
-----------------------------------------------------------------------------
(* Failures *)

\* Variant: a statement waits for a row as long as it takes.
FailTransactionByItself(p) ==
    /\ MayFail
    /\ \/ /\ p \in Orders
          /\ create[p].pc \in SettlingPcs \cup {"placing"}
          /\ create' = [create EXCEPT ![p] = Handler("failed")]
          /\ UNCHANGED cancel
       \/ /\ p \in CancelCalls
          /\ cancel[p].pc \in CancellingPcs
          /\ cancel' = [cancel EXCEPT ![p] = Canceller("failed")]
          /\ UNCHANGED create
    /\ tx' = [tx EXCEPT ![p] = NoTx]
    /\ UNCHANGED <<db, engine, inputs, price, restarts>>

\* The transaction of a call is rolled back: it waits for a row too long or is
\* the victim of a deadlock, or (MayFail) it fails for a reason of its own.
FailTransaction(p) ==
    /\ MayFail \/ ~Free(p)
    /\ \/ /\ p \in Orders
          /\ create[p].pc \in SettlingPcs \cup {"placing"}
          /\ create' = [create EXCEPT ![p] = Handler("failed")]
          /\ UNCHANGED cancel
       \/ /\ p \in CancelCalls
          /\ cancel[p].pc \in CancellingPcs
          /\ cancel' = [cancel EXCEPT ![p] = Canceller("failed")]
          /\ UNCHANGED create
    /\ tx' = [tx EXCEPT ![p] = NoTx]
    /\ UNCHANGED <<db, engine, inputs, price, restarts>>

\* Variant: the book is rebuilt newest first.
RestartNewestFirst ==
    /\ restarts < MaxRestarts
    /\ restarts' = restarts + 1
    /\ create' = [o \in Orders |-> IF InFlight(o) THEN Handler("lost") ELSE create[o]]
    /\ cancel' = [c \in CancelCalls |->
                    IF InFlight(c) THEN Canceller("lost") ELSE cancel[c]]
    /\ tx' = [p \in Calls |-> NoTx]
    /\ book' = {EngineOrder(o, order[o].remaining, Cardinality(Placed) - order[o].created) :
                  o \in {x \in Orders : /\ order[x].status \in OpenStatuses
                                        /\ request[x].type = "LIMIT"}}
    /\ arrivals' = Cardinality(Placed)
    /\ UNCHANGED <<db, inputs, price>>

\* The process goes away with its calls and the engine; onModuleInit rebuilds
\* the book from the open LIMIT orders, oldest createdAt first.
Restart ==
    /\ restarts < MaxRestarts
    /\ restarts' = restarts + 1
    /\ create' = [o \in Orders |-> IF InFlight(o) THEN Handler("lost") ELSE create[o]]
    /\ cancel' = [c \in CancelCalls |->
                    IF InFlight(c) THEN Canceller("lost") ELSE cancel[c]]
    /\ tx' = [p \in Calls |-> NoTx]
    /\ book' = {EngineOrder(o, order[o].remaining, order[o].created) :
                  o \in {x \in Orders : /\ order[x].status \in OpenStatuses
                                        /\ request[x].type = "LIMIT"}}
    /\ arrivals' = Cardinality(Placed)
    /\ UNCHANGED <<db, inputs, price>>
-----------------------------------------------------------------------------
InitialAccount ==
    [a \in Accounts |->
        IF a \in UserAccounts
        THEN [available |-> InitialBalance[a[1]][a[2]], locked |-> 0]
        ELSE ZeroBalance]

Init ==
    /\ account = InitialAccount
    /\ order = [o \in Orders |-> NoOrder]
    /\ hold = [o \in Orders |-> NoHold]
    /\ trades = {}
    /\ book = {} /\ arrivals = 0
    /\ request \in [Orders -> Requests]
    /\ price = [o \in Orders |-> 0]
    /\ target \in [CancelCalls -> Orders]
    /\ create = [o \in Orders |-> Handler("new")]
    /\ cancel = [c \in CancelCalls |-> Canceller("new")]
    /\ tx = [p \in Calls |-> NoTx]
    /\ restarts = 0

\* What a createOrder call does once it is received.
CreateStep(o) ==
    \/ PlaceOrder(o) \/ SubmitOrder(o)
    \/ ReadBuyerHold(o) \/ ReduceBuyerHold(o) \/ PostFill(o) \/ SettlementShort(o)
    \/ FillMaker(o) \/ FillTaker(o)
    \/ ReadRemainderHold(o) \/ CancelRemainder(o) \/ CommitSettlement(o)

CancelStep(c) == MarkCancelled(c) \/ ReleaseHold(c) \/ CommitCancel(c)

Next ==
    \/ \E o \in Orders : ReceiveOrder(o) \/ CreateStep(o)
    \/ \E c \in CancelCalls : ReceiveCancel(c) \/ CancelStep(c)
    \/ \E p \in Calls : FailTransaction(p)
    \/ Restart

\* Node and PostgreSQL make progress on every call they have accepted, and a
\* statement that waits for good is ended by the limit of its transaction.
Fairness ==
    /\ \A o \in Orders : WF_vars(CreateStep(o))
    /\ \A c \in CancelCalls : WF_vars(CancelStep(c))
    /\ \A p \in Calls : WF_vars(~Free(p) /\ FailTransaction(p))

Spec == Init /\ [][Next]_vars
FairSpec == Spec /\ Fairness
-----------------------------------------------------------------------------
(* Properties *)

BookEntry == [id : Orders, user : Users, side : Sides, type : OrderTypes, price : Nat,
              remaining : Int, sequence : Nat]
Fill == [maker : Orders, price : Nat, quantity : Nat \ {0}, ahead : Nat]
Trade == [maker : Orders, taker : Orders, price : Nat, quantity : Nat \ {0}]
Tx == [rows : SUBSET Rows, delta : [Accounts -> Balance],
       order : [Orders -> OrderRow], hold : [Orders -> HoldRow],
       trades : SUBSET Trade]

Handlers == [pc : CreateEnds \cup SettlingPcs \cup {"new", "placing", "placed"},
             fills : SUBSET Fill, left : Nat, cancelRest : BOOLEAN,
             seenHold : HoldRow, seenOrder : OrderRow]
Cancellers == [pc : CancelEnds \cup CancellingPcs \cup {"new"}, seenHold : HoldRow]

TypeOK ==
    /\ account \in [Accounts -> Balance]
    /\ order \in [Orders -> OrderRow]
    /\ hold \in [Orders -> HoldRow]
    /\ trades \subseteq Trade
    /\ request \in [Orders -> Requests]
    /\ price \in [Orders -> Nat]
    /\ target \in [CancelCalls -> Orders]
    /\ create \in [Orders -> Handlers]
    /\ cancel \in [CancelCalls -> Cancellers]
    /\ tx \in [Calls -> Tx]
    /\ book \subseteq BookEntry /\ IsFiniteSet(book)
    /\ arrivals \in Nat
    /\ restarts \in 0 .. MaxRestarts

\* ledger-design.md, "System-wide invariants" 1, for available: whatever the
\* interleaving of reservations, settlements and cancellations, the funds a
\* user can spend never go below zero.
AvailableNonNegative == \A a \in UserAccounts : account[a].available >= 0

\* ledger-design.md, "System-wide invariants" 3: whichever transactions commit,
\* fail or are lost, the funds of each asset, over all accounts, add up to what
\* was issued.
AccountsIn(asset) == {a \in Accounts : a[2] = asset}
Total(balances, asset) ==
    IntSum([a \in AccountsIn(asset) |-> balances[a].available + balances[a].locked],
           AccountsIn(asset))
ValueConserved ==
    \A asset \in Assets : Total(account, asset) = Total(InitialAccount, asset)

\* matching.service.ts 217-229 writes filled and remaining from a row it read
\* before: no settlement may overwrite what another one added.  The filled
\* quantity of an order is that of its trades, and the rest remains.
TradesOf(o, S) == {t \in S : t.maker = o \/ t.taker = o}
Volume(S) == NatSum([t \in S |-> t.quantity], S)
FilledMatchesTrades ==
    \A o \in Placed :
        /\ order[o].filled = Volume(TradesOf(o, trades))
        /\ order[o].remaining = request[o].quantity - order[o].filled
        /\ order[o].remaining >= 0

\* The engine never promises more of an order than the database has left of
\* it: what it offers on the book, with what it matched and no transaction has
\* committed yet, is covered by the committed remaining quantity.
Unsettled(o) == {TradeOf(o, f) : f \in create[o].fills} \cup tx[o].trades
InEngine(o) == NatSum([e \in book |-> e.remaining], {e \in book : e.id = o})
               + Volume(TradesOf(o, UNION {Unsettled(q) : q \in Orders}))
EngineWithinOrders == \A o \in Orders : InEngine(o) <= order[o].remaining

\* A hold that was released or consumed is never active again
\* (balances.service.ts 81-88, 129-135: the amount of a hold may be written from
\* a stale read, its status only ever leaves ACTIVE).
HoldsStayClosed ==
    [][\A o \in Orders : hold[o].status \in {"RELEASED", "CONSUMED"}
                            => hold'[o].status # "ACTIVE"]_vars

\* Every call that was accepted is answered, or lost with the process.
EveryCallAnswered == \A p \in Calls : InFlight(p) ~> ~InFlight(p)

\* ledger-design.md, "System-wide invariants" 4 and 1: the locked funds of an
\* account are those of its active holds; they never go below zero.
HeldOn(a) == {o \in Orders : hold[o].status = "ACTIVE" /\ HoldAccount(o) = a}
LockedEqualsActiveHolds ==
    \A a \in UserAccounts :
        account[a].locked = NatSum([o \in Orders |-> hold[o].amount], HeldOn(a))

\* orders.service.ts 75-79, balances.service.ts 81-96: as long as all orders are
\* LIMIT bids, so that nothing matches, the funds reserved for them are locked, and
\* those released are not, however many calls reserve and cancel them at once.
AllBids == \A o \in Orders : request[o].side = "BUY" /\ request[o].type = "LIMIT"
ReservationsAreLocked == AllBids => LockedEqualsActiveHolds

\* orders.service.ts 168-169: a cancellation "releases only what is still held":
\* the amount that leaves locked is the amount of the hold it releases.
ReleasesOnlyWhatIsHeld ==
    [][\A o \in Orders :
          hold[o].status = "ACTIVE" /\ hold'[o].status = "RELEASED" =>
            account'[HoldAccount(o)].locked
                = account[HoldAccount(o)].locked - hold[o].amount]_vars
=============================================================================
