--------------------------- MODULE MatchingEngine ---------------------------
(***************************************************************************)
(* The matching engine of one market, one action per pass of the loop of   *)
(* MatchingEngine.submit over the arrays of OrderBook.                     *)
(*                                                                         *)
(* submit is synchronous: no other call of the engine runs while it is in  *)
(* its loop, so Submit and Cancel wait for taker = NoTaker.                *)
(***************************************************************************)
EXTENDS OrderBook, EngineInterface

VARIABLES
    bids, asks,   \* OrderBook: the price levels of each side
    taker,        \* the order in the loop of submit, or NoTaker
    fills         \* the fills of this submit, in order

vars == <<bids, asks, sequence, taker, fills, result>>

NoTaker == [id |-> 0]

Opposing(side) == IF side = "BUY" THEN asks ELSE bids

\* The resting order the loop looks at: bestAsk() or bestBid(), {} if none.
Maker == BestOf(Opposing(taker.side))

\* Variant: equal prices do not match.
crossesStrictly(maker) ==
    \/ taker.type = "MARKET"
    \/ taker.side = "BUY" /\ taker.price > maker.price
    \/ taker.side = "SELL" /\ taker.price < maker.price

crosses(maker) ==
    \/ taker.type = "MARKET"
    \/ taker.side = "BUY" /\ taker.price >= maker.price
    \/ taker.side = "SELL" /\ taker.price <= maker.price

\* Where the loop is: it fills, or it leaves on self-trade, or it leaves.
CanFill ==
    /\ taker.remaining > 0
    /\ \E maker \in Maker : crosses(maker) /\ maker.user # taker.user
\* Variant: self-trade stops a taker only as long as it has no fills.
SelfTradeStopUnfilled ==
    /\ taker.remaining > 0 /\ fills = <<>>
    /\ \E maker \in Maker : crosses(maker) /\ maker.user = taker.user

SelfTradeStop ==
    /\ taker.remaining > 0
    /\ \E maker \in Maker : crosses(maker) /\ maker.user = taker.user

\* The fills as a set, each with the quantity filled before it.
Filled(n) == IF n = 0 THEN 0 ELSE fills[n].ahead + fills[n].quantity
FillSet == ToSet(fills)

Init ==
    /\ bids = <<>> /\ asks = <<>>
    /\ sequence = 0
    /\ taker = NoTaker
    /\ fills = <<>>
    /\ result = NoResult

Submit(user, side, type, price, quantity) ==
    /\ taker = NoTaker
    /\ sequence < MaxSubmits
    /\ sequence' = sequence + 1
    /\ taker' = Incoming(user, side, type, price, quantity)
    /\ fills' = <<>>
    /\ UNCHANGED <<bids, asks, result>>

\* The opposing levels once the best order gave q.
TakeFromBest(levels, q) ==
    IF levels[1].orders[1].remaining = q
    THEN RemoveBest(levels)
    ELSE [levels EXCEPT ![1].orders[1].remaining = @ - q]

Fill ==
    /\ taker # NoTaker
    /\ CanFill
    /\ \E maker \in Maker :
        LET q == Least(maker.remaining, taker.remaining)
        IN  /\ fills' = Append(fills, [maker |-> maker.id, price |-> maker.price,
                                       quantity |-> q, ahead |-> Filled(Len(fills))])
            /\ taker' = [taker EXCEPT !.remaining = @ - q]
            /\ IF taker.side = "BUY"
               THEN asks' = TakeFromBest(asks, q) /\ UNCHANGED bids
               ELSE bids' = TakeFromBest(bids, q) /\ UNCHANGED asks
    /\ UNCHANGED <<sequence, result>>

\* finalize: the remainder of a LIMIT order rests unless self-trade stopped it.
finalize(stp) ==
    LET rests == taker.remaining > 0 /\ taker.type = "LIMIT" /\ ~stp
    IN  /\ bids' = IF rests /\ taker.side = "BUY" THEN Add(bids, taker) ELSE bids
        /\ asks' = IF rests /\ taker.side = "SELL" THEN Add(asks, taker) ELSE asks
        /\ result' =
             [id |-> taker.id,
              status |-> IF taker.remaining = 0 THEN "FILLED"
                         ELSE IF rests
                         THEN IF fills = <<>> THEN "RESTING"
                              ELSE "PARTIALLY_FILLED_RESTING"
                         ELSE IF fills = <<>> THEN "CANCELLED"
                              ELSE "PARTIALLY_FILLED_CANCELLED",
              fills |-> FillSet,
              remaining |-> taker.remaining,
              selfTradePrevented |-> stp]

Finish ==
    /\ taker # NoTaker
    /\ ~CanFill
    /\ finalize(SelfTradeStop)
    /\ taker' = NoTaker
    /\ fills' = <<>>
    /\ UNCHANGED sequence

Cancel(id) ==
    /\ taker = NoTaker
    /\ bids' = RemoveOrder(bids, id)
    /\ asks' = IF PlacesOf(bids, id) = {} THEN RemoveOrder(asks, id) ELSE asks
    /\ UNCHANGED <<sequence, taker, fills, result>>

Next ==
    \/ \E user \in Users, side \in Sides, type \in OrderTypes,
         quantity \in Quantities : \E price \in PricesFor(type) :
            Submit(user, side, type, price, quantity)
    \/ Fill
    \/ Finish
    \/ \E id \in 1 .. sequence : Cancel(id)

Spec == Init /\ [][Next]_vars
-----------------------------------------------------------------------------
Resting == OrdersOf(bids) \cup OrdersOf(asks)

\* The call takes effect at its start: the rest of the loop is already decided
\* by the book and the remaining quantity of the taker.
MappedBook == IF taker = NoTaker THEN Resting ELSE Matched(Resting, taker)

\* The fills made, and those still to be made after them.
AllFills == FillSet \cup {[f EXCEPT !.ahead = @ + Filled(Len(fills))] :
                             f \in Fills(Resting, taker)}
MappedResult ==
    IF taker = NoTaker THEN result
    ELSE [ResultOf(Resting, taker) EXCEPT
             !.fills = AllFills,
             !.status = SubmitStatus(Left(Resting, taker), AllFills # {},
                                     Rests(Resting, taker))]

Abstract == INSTANCE PriceTimePriority WITH book <- MappedBook, result <- MappedResult

\* matching-engine.ts 36-92 and order-book.ts 32-97: the loop over the sorted
\* arrays, with its binary search, matches exactly by price-time priority.
ImplementsPriceTimePriority == Abstract!AtOnce

\* matching-engine.ts 56-83: after every call the best bid is below the best
\* ask, whoever placed them, also after a self-trade stop and partial fills.
Uncrossed == taker = NoTaker => IsUncrossed(Resting)

\* order-book.ts 32-97: no level is empty, levels are strictly ordered by price,
\* best first, and the orders of a level, all at its price, by arrival, whatever
\* was added, filled or cancelled.
LevelsSorted ==
    \A side \in Sides : LET levels == IF side = "BUY" THEN bids ELSE asks IN
        \A i, j \in DOMAIN levels :
            /\ i < j => ComesFirst(side, levels[i].price, levels[j].price)
            /\ levels[i].orders # <<>>
            /\ \A k, m \in DOMAIN levels[i].orders :
                    /\ levels[i].orders[k].price = levels[i].price
                    /\ k < m => levels[i].orders[k].sequence < levels[i].orders[m].sequence
=============================================================================
