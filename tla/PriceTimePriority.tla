------------------------- MODULE PriceTimePriority -------------------------
(***************************************************************************)
(* What the matching engine of one market promises: every submitted order  *)
(* is matched at once by price-time priority, and a cancelled order leaves *)
(* the book.  One step per call.                                           *)
(***************************************************************************)
EXTENDS EngineInterface

VARIABLE book       \* the resting orders

atOnceVars == <<book, sequence, result>>

AtOnceInit ==
    /\ book = {}
    /\ sequence = 0
    /\ result = NoResult

MatchAtOnce(taker) ==
    /\ sequence < MaxSubmits
    /\ sequence' = sequence + 1
    /\ book' = Matched(book, taker)
    /\ result' = ResultOf(book, taker)

CancelAtOnce(id) ==
    /\ book' = {e \in book : e.id # id}
    /\ UNCHANGED <<sequence, result>>

AtOnceNext ==
    \/ \E user \in Users, side \in Sides, type \in OrderTypes,
         quantity \in Quantities : \E price \in PricesFor(type) :
            MatchAtOnce(Incoming(user, side, type, price, quantity))
    \/ \E id \in 1 .. sequence : CancelAtOnce(id)

AtOnce == AtOnceInit /\ [][AtOnceNext]_atOnceVars
-----------------------------------------------------------------------------
\* The book holds well-formed LIMIT orders the engine has numbered, each once.
TypeOK ==
    /\ book \subseteq {e \in EngineOrder : e.type = "LIMIT" /\ e.sequence <= sequence}
    /\ IsFiniteSet(book)
    /\ \A e, f \in book : e.sequence = f.sequence => e = f
    /\ sequence \in Nat
=============================================================================
