----------------------------- MODULE OrderBook -----------------------------
(***************************************************************************)
(* The order book as the engine keeps it: one array of price levels per    *)
(* side, best price first; in a level the orders, oldest first.  Arrays are*)
(* sequences, so index i of the code is position i + 1 here.               *)
(***************************************************************************)
EXTENDS Integers, Sequences, SequencesExt

\* The first order of the first level, if there is one.
BestOf(levels) == IF levels = <<>> THEN {} ELSE {levels[1].orders[1]}

\* Whether the level at price p stands before one at price q.
ComesFirst(side, p, q) == IF side = "BUY" THEN p > q ELSE p < q

\* Variant: the lowest price first, on both sides.
FindAscendingIndex(levels, side, price) ==
    Cardinality({i \in DOMAIN levels : levels[i].price < price})

\* Binary search for the index (from 0) at which a level of this price is,
\* or is to be inserted, so that the best price stays first.
FindLevelIndex(levels, side, price) ==
    LET n == Len(levels)
        search[range \in (0 .. n) \X (0 .. n)] ==
            LET lo == range[1]
                hi == range[2]
                mid == (lo + hi) \div 2
                at == levels[mid + 1].price
            IN  IF lo >= hi THEN lo
                ELSE IF ComesFirst(side, at, price) THEN search[<<mid + 1, hi>>]
                ELSE IF at = price THEN mid
                ELSE search[<<lo, mid>>]
    IN  search[<<0, n>>]

\* The levels of its side with the order added.
Add(levels, order) ==
    LET at == FindLevelIndex(levels, order.side, order.price) + 1
    IN  IF at <= Len(levels) /\ levels[at].price = order.price
        THEN [levels EXCEPT ![at].orders = Append(@, order)]
        ELSE InsertAt(levels, at, [price |-> order.price, orders |-> <<order>>])

\* A level is dropped with its last order.
DropIfEmpty(levels, at) ==
    IF levels[at].orders = <<>> THEN RemoveAt(levels, at) ELSE levels

\* Where the order with this identifier is on a side.
PlacesOf(levels, id) ==
    UNION {{<<i, k>> : k \in {j \in DOMAIN levels[i].orders :
                                levels[i].orders[j].id = id}} : i \in DOMAIN levels}

\* The levels of a side without the order; as they are if it is not there.
RemoveOrder(levels, id) ==
    IF PlacesOf(levels, id) = {} THEN levels
    ELSE LET place == CHOOSE p \in PlacesOf(levels, id) : TRUE
         IN  DropIfEmpty([levels EXCEPT ![place[1]].orders = RemoveAt(@, place[2])],
                         place[1])

\* The levels of a side without its best order.
RemoveBest(levels) ==
    IF levels = <<>> THEN levels
    ELSE DropIfEmpty([levels EXCEPT ![1].orders = Tail(@)], 1)

\* All the orders on a side.
OrdersOf(levels) == UNION {ToSet(levels[i].orders) : i \in DOMAIN levels}
=============================================================================
