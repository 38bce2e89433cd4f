-------------------------- MODULE EngineInterface --------------------------
(***************************************************************************)
(* The matching engine of one market as its callers see it: the orders it  *)
(* is given, in the order of their arrival, and what a submit returns.     *)
(***************************************************************************)
EXTENDS Matching

CONSTANTS
    Users,        \* who places orders
    Prices,       \* the prices, in ticks
    Quantities,   \* the quantities, in steps
    MaxSubmits    \* bound on the calls of submit

ASSUME EngineAssumption ==
    /\ Prices \subseteq Nat \ {0}
    /\ Quantities \subseteq Nat \ {0}
    /\ MaxSubmits \in Nat

VARIABLES
    sequence,   \* the engine's counter of submitted orders
    result      \* what the last submit returned

\* An order the engine sees.  Identifiers are fresh, the counter stands for them.
EngineOrder ==
    [id : Nat, user : Users, side : Sides, type : OrderTypes, price : Nat,
     remaining : Nat \ {0}, sequence : Nat]

\* A MARKET order has price null in the engine, 0 here.
PricesFor(type) == IF type = "LIMIT" THEN Prices ELSE {0}

Incoming(user, side, type, price, quantity) ==
    [id |-> sequence + 1, user |-> user, side |-> side, type |-> type,
     price |-> price, remaining |-> quantity, sequence |-> sequence + 1]

\* What submit returns for a taker that meets this book.
ResultOf(book, taker) ==
    [id |-> taker.id,
     status |-> SubmitStatus(Left(book, taker), Fills(book, taker) # {},
                             Rests(book, taker)),
     fills |-> Fills(book, taker),
     remaining |-> Left(book, taker),
     selfTradePrevented |-> SelfTrade(book, taker)]

NoResult == [id |-> 0, status |-> "NONE", fills |-> {}, remaining |-> 0,
             selfTradePrevented |-> FALSE]
=============================================================================
