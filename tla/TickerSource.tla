---------------------------- MODULE TickerSource ----------------------------
(***************************************************************************)
(* What the rest of the backend may assume of market data: per symbol the  *)
(* latest price that arrived, marked stale once nothing new has arrived    *)
(* for a while.  A symbol that was ever quoted keeps its price, whatever   *)
(* happens to the connection.  MarketData implements it, MarketMaker       *)
(* relies on it.                                                           *)
(***************************************************************************)
CONSTANTS
    Symbols,    \* the markets that are tracked
    Prices      \* the prices that may arrive

VARIABLE ticker     \* getTicker of each symbol

Unknown == [price |-> 0, stale |-> TRUE]

Ticker == {Unknown} \cup [price : Prices, stale : BOOLEAN]

Update(s, price) == ticker' = [ticker EXCEPT ![s] = [price |-> price, stale |-> FALSE]]

\* STALENESS_MS have passed since the update.
GoStale(s) == ticker' = [ticker EXCEPT ![s].stale = TRUE]

Init == ticker = [s \in Symbols |-> Unknown]

Next == \E s \in Symbols : GoStale(s) \/ \E price \in Prices : Update(s, price)

Spec == Init /\ [][Next]_ticker
=============================================================================
