----------------------------- MODULE MCExchange -----------------------------
(***************************************************************************)
(* Small instances of Exchange: who trades, with which funds and dtos.     *)
(***************************************************************************)
EXTENDS Exchange, TLC

CONSTANTS alice, bob

Dto(user, side, type, p, q) ==
    [user |-> user, side |-> side, type |-> type, price |-> p, quantity |-> q]

Funds(aliceBase, aliceQuote, bobBase, bobQuote) ==
    (alice :> ("base" :> aliceBase @@ "quote" :> aliceQuote))
    @@ (bob :> ("base" :> bobBase @@ "quote" :> bobQuote))

CallSymmetry == Permutations(Orders) \cup Permutations(CancelCalls)

\* A resting bid, and the lots sold into it by calls that overlap.
RaceRequests == {Dto(alice, "BUY", "LIMIT", 2, 2), Dto(bob, "SELL", "LIMIT", 1, 1),
                 Dto(bob, "SELL", "MARKET", 1, 2)}

\* Bids only: nothing matches, funds are reserved and released.
ReserveRequests == {Dto(alice, "BUY", "LIMIT", 2, 3), Dto(alice, "BUY", "LIMIT", 1, 1)}

RaceFunds == Funds(1, 6, 3, 2)
AllRequests == RaceRequests \cup ReserveRequests

\* Reservations are cancelled by any calls at once, a bid that lots are sold into
\* by one: with two, the instance is too large.
Cancelling == {c \in CancelCalls : cancel[c].pc # "new"}
RaceInit == Init /\ request \in [Orders -> RaceRequests] \cup [Orders -> ReserveRequests]
RaceNext == Next /\ (AllBids \/ Cardinality(Cancelling') <= 1)
RaceSpec == RaceInit /\ [][RaceNext]_vars
=============================================================================
