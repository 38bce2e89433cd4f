---------------------------- MODULE MCMarketMaker ----------------------------
(***************************************************************************)
(* A small instance of MarketMaker: prices of a few ticks, neither of them *)
(* a multiple of the tick after the offset.                                *)
(***************************************************************************)
EXTENDS MarketMaker

OneLevel == <<500>>
=============================================================================
