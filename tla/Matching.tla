------------------------------ MODULE Matching ------------------------------
(***************************************************************************)
(* Price-time priority, stated on a set of resting orders.                 *)
(*                                                                         *)
(* These operators say in closed form what one call of                     *)
(* MatchingEngine.submit does to the book: whom the taker trades with, at  *)
(* which price, for how much, and what becomes of the rest.  Module        *)
(* MatchingEngine has the loop over the price-level arrays, and is checked *)
(* to implement them; module Exchange takes them as the (synchronous, hence*)
(* atomic) call the matching service makes.                                *)
(*                                                                         *)
(* An order is a record with at least the fields                           *)
(*   id, user, side, type, price, remaining, sequence.                     *)
(* The book is a set of them, all of type LIMIT; sequence orders arrivals. *)
(***************************************************************************)
EXTENDS Sums

Sides == {"BUY", "SELL"}

OrderTypes == {"LIMIT", "MARKET"}

\* A LIMIT taker trades with a resting order whose price is at least as good
\* as its own; a MARKET taker (price null in the engine) has no bound.
Crosses(taker, maker) ==
    \/ taker.type = "MARKET"
    \/ taker.side = "BUY" /\ taker.price >= maker.price
    \/ taker.side = "SELL" /\ taker.price <= maker.price

\* e stands before f on their side of the book: best price, then oldest.
Before(e, f) ==
    \/ e.side = "BUY" /\ e.price > f.price
    \/ e.side = "SELL" /\ e.price < f.price
    \/ e.price = f.price /\ e.sequence < f.sequence

\* The resting orders of the other side that the taker's price reaches.
Reachable(book, taker) ==
    {e \in book : e.side # taker.side /\ Crosses(taker, e)}

\* Self-trade prevention: nothing from the taker's own first order on.
Makers(book, taker) ==
    LET reachable == Reachable(book, taker)
        own == {e \in reachable : e.user = taker.user}
    IN  {e \in reachable \ own : \A o \in own : Before(e, o)}

\* What the orders in S still offer, in all.
Offered(S) == NatSum([e \in S |-> e.remaining], S)

\* What the makers standing before e offer.
Ahead(makers, e) == Offered({f \in makers : Before(f, e)})

\* What a taker of this quantity takes of e; 0 when others fill it first.
Taken(makers, quantity, e) ==
    LET ahead == Ahead(makers, e)
    IN  IF ahead < quantity THEN Least(e.remaining, quantity - ahead) ELSE 0

\* A trade executes at the maker's price.  "ahead" (what was filled before it)
\* tells the position of the fill among the fills of this taker.
FillOf(makers, quantity, e) ==
    [maker |-> e.id, price |-> e.price,
     quantity |-> Taken(makers, quantity, e), ahead |-> Ahead(makers, e)]

Fills(book, taker) ==
    LET makers == Makers(book, taker)
    IN  {FillOf(makers, taker.remaining, e) :
            e \in {m \in makers : Taken(makers, taker.remaining, m) > 0}}

\* Variant: no bound at what the taker wants.
LeftUnclamped(book, taker) == taker.remaining - Offered(Makers(book, taker))

\* The unfilled quantity of the taker when matching stops.
Left(book, taker) ==
    taker.remaining - Least(taker.remaining, Offered(Makers(book, taker)))

\* Matching stopped because the taker met an order of its own user.
SelfTrade(book, taker) ==
    /\ Left(book, taker) > 0
    /\ \E own \in Reachable(book, taker) : own.user = taker.user

\* Variant: a self-trade stop does not cancel the remainder.
RestsAfterSelfTrade(book, taker) == Left(book, taker) > 0 /\ taker.type = "LIMIT"

\* Whether the remainder of the taker goes on the book.
Rests(book, taker) ==
    /\ Left(book, taker) > 0
    /\ taker.type = "LIMIT"
    /\ ~SelfTrade(book, taker)

\* Variant: the makers keep what was taken of them.
AfterFillsUnreduced(book, taker) ==
    LET makers == Makers(book, taker)
    IN  (book \ makers)
        \cup {e \in makers : Taken(makers, taker.remaining, e) < e.remaining}

\* The resting orders once the taker has taken its share of them.
AfterFills(book, taker) ==
    LET makers == Makers(book, taker)
        taken(e) == Taken(makers, taker.remaining, e)
    IN  (book \ makers)
        \cup {[e EXCEPT !.remaining = @ - taken(e)] :
                e \in {m \in makers : taken(m) < m.remaining}}

\* Variant: the taker rests with its whole quantity.
MatchedWhole(book, taker) ==
    AfterFills(book, taker) \cup (IF Rests(book, taker) THEN {taker} ELSE {})

\* The book after the call.
Matched(book, taker) ==
    AfterFills(book, taker)
    \cup (IF Rests(book, taker)
          THEN {[taker EXCEPT !.remaining = Left(book, taker)]} ELSE {})

\* SubmitStatus of the call.
SubmitStatus(left, hasFills, rests) ==
    CASE left = 0                         -> "FILLED"
      [] left > 0 /\ rests /\ hasFills    -> "PARTIALLY_FILLED_RESTING"
      [] left > 0 /\ rests /\ ~hasFills   -> "RESTING"
      [] left > 0 /\ ~rests /\ hasFills   -> "PARTIALLY_FILLED_CANCELLED"
      [] left > 0 /\ ~rests /\ ~hasFills  -> "CANCELLED"

\* No bid reaches an ask: what matching on every submit is for.
IsUncrossed(book) ==
    \A b, a \in book : b.side = "BUY" /\ a.side = "SELL" => b.price < a.price
=============================================================================
