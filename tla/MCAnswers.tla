----------------------------- MODULE MCAnswers -----------------------------
(***************************************************************************)
(* Calls that wait for each other's rows.  Which order has which dto is    *)
(* fixed; orders are told apart by their dtos alone.                       *)
(***************************************************************************)
EXTENDS MCExchange

CONSTANTS o1, o2, o3, o4

\* A bid of two lots and two sales into it: two settlements, and a cancellation,
\* want the rows of the bid and its hold.
BidRequests ==
    o1 :> Dto(alice, "BUY", "LIMIT", 2, 2)
    @@ o2 :> Dto(bob, "SELL", "LIMIT", 2, 1)
    @@ o3 :> Dto(bob, "SELL", "LIMIT", 2, 1)
    @@ o4 :> Dto(bob, "SELL", "LIMIT", 2, 1)

\* A bid and an ask of one user, both taken by another: one settlement has the
\* quote account of alice and wants that of bob, the other has his and wants hers.
CrossedRequests ==
    o1 :> Dto(alice, "BUY", "LIMIT", 1, 1)
    @@ o2 :> Dto(alice, "SELL", "LIMIT", 2, 1)
    @@ o3 :> Dto(bob, "SELL", "LIMIT", 1, 1)
    @@ o4 :> Dto(bob, "BUY", "LIMIT", 2, 1)

AnswerFunds == Funds(1, 4, 2, 2)
AnswerRequests == {BidRequests[o] : o \in Orders} \cup {CrossedRequests[o] : o \in Orders}

\* When each call comes is free, but that two lots are sold into the bid, and that
\* the orders of alice that are crossed have come to the book before.
Crossed == request = CrossedRequests
Came(o) == create[o].pc # "new"
InTurn ==
    /\ ~Crossed => ~Came(o4)
    /\ Crossed /\ (Came(o3) \/ Came(o4)) => \A o \in {o1, o2} : Came(o) /\ ~InFlight(o)

\* What is cancelled is the bid, or the other order that comes first.
AnswersInit ==
    /\ Init
    /\ request \in {BidRequests, CrossedRequests}
    /\ \A c \in CancelCalls : target[c] \in {o1, o2}
AnswersNext == Next /\ InTurn'
AnswersSpec == AnswersInit /\ [][AnswersNext]_vars /\ Fairness
=============================================================================
