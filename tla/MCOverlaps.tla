----------------------------- MODULE MCOverlaps -----------------------------
(***************************************************************************)
(* A small instance of Overlaps: partial fills, price improvement,         *)
(* self-trade, MARKET orders within the slippage buffer and beyond it, and *)
(* calls that are rejected.                                                *)
(***************************************************************************)
EXTENDS MCExchange, Overlaps

OverlapFunds == Funds(3, 6, 3, 8)
OverlapRequests ==
    {Dto(alice, "BUY", "LIMIT", 3, 2), Dto(alice, "SELL", "LIMIT", 3, 1),
     Dto(alice, "SELL", "LIMIT", 7, 1),
     Dto(bob, "SELL", "LIMIT", 2, 1), Dto(bob, "BUY", "MARKET", 1, 2),
     Dto(bob, "SELL", "MARKET", 1, 3)}
=============================================================================
