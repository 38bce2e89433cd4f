------------------------ MODULE ExchangeFills_proofs ------------------------
(***************************************************************************)
(* What fills and cancellations make of holds and orders, whatever settles *)
(* at the same time, fails or is lost.                                     *)
(*                                                                         *)
(* A cancellation has locked the row of its order before it reads the hold,*)
(* and a settlement writes no hold without locking that row before it      *)
(* commits.  Hence a cancellation releases exactly what is held.           *)
(*                                                                         *)
(* A settlement that has read the row of an order has a trade of it, and so*)
(* has locked the account of its owner, as every other one with a trade of *)
(* it must.  Hence no settlement overwrites what another one filled.       *)
(*                                                                         *)
(* A submit takes from the book what it promises to its fills, a restart   *)
(* rebuilds the book from what is left in the database, and a commit takes *)
(* from the orders what it takes from the trades still open.  Hence what   *)
(* the engine offers and has matched is covered by what the database has   *)
(* left of it.                                                             *)
(*                                                                         *)
(* Of an order that no two calls have worked on, nothing that a call has   *)
(* read changes before it is written: the row it has seen is covered by the*)
(* hold, and what is locked for such orders is what they hold.  What the   *)
(* order has left is on the book, matched, or about to be cancelled, unless*)
(* its call was undone: no more, and no less.  So the book mirrors the     *)
(* orders, and a restart that rebuilds it from them rebuilds what it was.  *)
(***************************************************************************)
EXTENDS Exchange_proofs, Overlaps
-----------------------------------------------------------------------------
(* What a block of a settlement does *)

\* The rows and handlers of all other calls stay.
Alone(o) ==
    /\ \A q \in Calls \ {o} : tx'[q] = tx[q]
    /\ \A q \in Orders \ {o} : create'[q] = create[q]
    /\ tx'[o].rows = tx[o].rows \cup Needs(o) /\ Free(o)
    /\ UNCHANGED <<db, engine, inputs, price, cancel, restarts>>

\* reduceHold writes one hold, and reopens none.
WritesHold(o, x) ==
    /\ \A y \in Orders \ {x} : tx'[o].hold[y] = tx[o].hold[y]
    /\ \/ tx'[o].hold[x] = tx[o].hold[x]
       \/ tx'[o].hold[x].status \in {"CONSUMED", HoldSeen(o, x).status}

WritesOrder(o, x, row) == tx'[o].order = [tx[o].order EXCEPT ![x] = row]

KeepsHolds(o) == tx'[o].hold = tx[o].hold
KeepsOrders(o) == tx'[o].order = tx[o].order
KeepsTrades(o) == tx'[o].trades = tx[o].trades

\* From one point of the settlement to the next, with the same fills to do.
Moves(o, from, to) ==
    create[o].pc = from /\ create'[o].pc = to /\ create'[o].fills = create[o].fills

\* The row that applyFillToOrder writes next.
Filled(o) == Applied(create[o].seenOrder, NextFill(o).quantity)

Effect(o) ==
    \/ /\ Moves(o, "fill", "buyer") \/ Moves(o, "fill", "remainder")
       /\ KeepsHolds(o) /\ KeepsOrders(o) /\ KeepsTrades(o)
    \/ /\ Moves(o, "buyer", "seller")
       /\ WritesHold(o, Buyer(o)) /\ KeepsOrders(o) /\ KeepsTrades(o)
    \/ /\ Moves(o, "seller", "maker")
       /\ WritesHold(o, Seller(o)) /\ KeepsOrders(o)
       /\ tx'[o].trades = tx[o].trades \cup {TradeOf(o, NextFill(o))}
       /\ create'[o].seenOrder = OrderSeen(o, NextFill(o).maker)
    \/ /\ Moves(o, "maker", "taker")
       /\ KeepsHolds(o) /\ WritesOrder(o, NextFill(o).maker, Filled(o)) /\ KeepsTrades(o)
       /\ create'[o].seenOrder = OrderSeen(o, o)
    \/ /\ create[o].pc = "taker" /\ create'[o].pc = "fill"
       /\ create'[o].fills = create[o].fills \ {NextFill(o)}
       /\ KeepsHolds(o) /\ WritesOrder(o, o, Filled(o)) /\ KeepsTrades(o)
    \/ /\ Moves(o, "remainder", "fill")
       /\ WritesHold(o, o) /\ KeepsTrades(o)
       /\ WritesOrder(o, o, [OrderSeen(o, o) EXCEPT !.status = "CANCELLED"])

Block(o) ==
    \/ ReadBuyerHold(o) \/ ReduceBuyerHold(o) \/ PostFill(o) \/ FillMaker(o)
    \/ FillTaker(o) \/ ReadRemainderHold(o) \/ CancelRemainder(o)

\* What Settle makes of a transaction and a handler.
LEMMA SettleEffect ==
    ASSUME Inv, NEW o \in Orders, NEW t \in Tx, NEW h, Settle(o, t, h),
           t.rows = tx[o].rows
    PROVE  /\ Alone(o) /\ create'[o] = h
           /\ tx'[o].hold = t.hold /\ tx'[o].order = t.order /\ tx'[o].trades = t.trades
<1>1. /\ create' = [create EXCEPT ![o] = h]
      /\ tx' = [tx EXCEPT ![o] = [t EXCEPT !.rows = t.rows \cup Needs(o)]]
      /\ Free(o) /\ UNCHANGED <<db, engine, inputs, price, cancel, restarts>>
  BY DEF Settle
<1>2. create \in [Orders -> Handlers] /\ tx \in [Calls -> Tx] /\ o \in Calls
  BY DEF Inv, TypeInv, TypeOK, Calls
<1>3. tx'[o] = [t EXCEPT !.rows = t.rows \cup Needs(o)] /\ create'[o] = h
  BY <1>1, <1>2
<1>4. /\ tx'[o].rows = t.rows \cup Needs(o)
      /\ tx'[o].hold = t.hold /\ tx'[o].order = t.order /\ tx'[o].trades = t.trades
  BY <1>3 DEF Tx
<1> QED
  BY <1>1, <1>2, <1>3, <1>4 DEF Alone

LEMMA ReduceHoldEffect ==
    ASSUME Inv, NEW o \in Orders, NEW x \in Orders, NEW amount \in Nat
    PROVE  LET t == reduceHold(tx[o], o, x, amount) IN
           /\ t \in Tx
           /\ t.rows = tx[o].rows /\ t.order = tx[o].order /\ t.trades = tx[o].trades
           /\ \A y \in Orders \ {x} : t.hold[y] = tx[o].hold[y]
           /\ \/ t.hold[x] = tx[o].hold[x]
              \/ t.hold[x].status \in {"CONSUMED", HoldSeen(o, x).status}
<1> DEFINE t == reduceHold(tx[o], o, x, amount)
<1>1. tx[o] \in Tx /\ TypeOK
  BY DEF Inv, TypeInv, TypeOK, Calls
<1>2. t \in Tx
  BY <1>1, ReduceHoldType
<1>3. t.rows = tx[o].rows /\ t.order = tx[o].order /\ t.trades = tx[o].trades
  BY <1>1 DEF reduceHold, Tx
<1>4. \A y \in Orders \ {x} : t.hold[y] = tx[o].hold[y]
  BY <1>1 DEF reduceHold, Tx
<1>5. \/ t.hold[x] = tx[o].hold[x]
      \/ t.hold[x].status \in {"CONSUMED", HoldSeen(o, x).status}
  BY <1>1 DEF reduceHold, Tx
<1> QED
  BY <1>2, <1>3, <1>4, <1>5

LEMMA Blocks ==
    ASSUME Inv, NEW o \in Orders, Block(o)
    PROVE  Alone(o) /\ Effect(o)
<1>1. /\ tx[o] \in Tx /\ create[o] \in Handlers /\ TypeOK
      /\ create[o].left \in Nat
      /\ OrderSeen(o, o) \in OrderRow /\ create[o].seenOrder \in OrderRow
  BY SettlingType DEF Inv, TypeInv, Handlers
<1>2. ASSUME create[o].pc \in {"buyer", "seller", "maker", "taker"}
      PROVE  /\ NextFill(o).maker \in Orders /\ NextFill(o).quantity \in Nat
             /\ Buyer(o) \in Orders /\ Seller(o) \in Orders
  BY <1>1, <1>2, NextFillType DEF Inv, TypeInv, AtFill
<1>3. CASE ReadBuyerHold(o)
  <2> DEFINE h == [create[o] EXCEPT !.pc = "buyer", !.seenHold = HoldSeen(o, Buyer(o))]
  <2>1. Settle(o, tx[o], h) /\ create[o].pc = "fill"
    BY <1>3 DEF ReadBuyerHold
  <2>2. h.pc = "buyer" /\ h.fills = create[o].fills
    BY <1>1 DEF Handlers
  <2> HIDE DEF h
  <2>3. /\ Alone(o) /\ create'[o] = h /\ KeepsHolds(o) /\ KeepsOrders(o) /\ KeepsTrades(o)
    BY <1>1, <2>1, SettleEffect DEF KeepsHolds, KeepsOrders, KeepsTrades
  <2> QED
    BY <2>1, <2>2, <2>3 DEF Effect, Moves
<1>4. CASE ReduceBuyerHold(o)
  <2> DEFINE amount == reserveAmount(Buyer(o), NextFill(o).quantity)
             t == reduceHold(tx[o], o, Buyer(o), amount)
             h == [create[o] EXCEPT !.pc = "seller", !.seenHold = HoldSeen(o, Seller(o))]
  <2>1. Settle(o, t, h) /\ create[o].pc = "buyer"
    BY <1>4 DEF ReduceBuyerHold
  <2>2. h.pc = "seller" /\ h.fills = create[o].fills
    BY <1>1 DEF Handlers
  <2>3. amount \in Nat
    BY <1>1, <1>2, <2>1, ReserveType
  <2> HIDE DEF h, amount
  <2>4. /\ t \in Tx
        /\ t.rows = tx[o].rows /\ t.order = tx[o].order /\ t.trades = tx[o].trades
        /\ \A y \in Orders \ {Buyer(o)} : t.hold[y] = tx[o].hold[y]
        /\ \/ t.hold[Buyer(o)] = tx[o].hold[Buyer(o)]
           \/ t.hold[Buyer(o)].status \in {"CONSUMED", HoldSeen(o, Buyer(o)).status}
    BY <1>2, <2>1, <2>3, ReduceHoldEffect
  <2> HIDE DEF t
  <2>5. /\ Alone(o) /\ create'[o] = h
        /\ tx'[o].hold = t.hold /\ tx'[o].order = t.order /\ tx'[o].trades = t.trades
    BY <2>1, <2>4, SettleEffect
  <2>6. WritesHold(o, Buyer(o)) /\ KeepsOrders(o) /\ KeepsTrades(o)
    BY <2>4, <2>5 DEF WritesHold, KeepsOrders, KeepsTrades
  <2> QED
    BY <2>1, <2>2, <2>5, <2>6 DEF Effect, Moves
<1>5. CASE PostFill(o)
  <2> DEFINE r == reduceHold(tx[o], o, Seller(o), NextFill(o).quantity)
             t == FillTx(o)
             h == [create[o] EXCEPT !.pc = "maker",
                                    !.seenOrder = OrderSeen(o, NextFill(o).maker)]
  <2>1. Settle(o, t, h) /\ create[o].pc = "seller"
    BY <1>5 DEF PostFill
  <2>2. /\ h.pc = "maker" /\ h.fills = create[o].fills
        /\ h.seenOrder = OrderSeen(o, NextFill(o).maker)
    BY <1>1 DEF Handlers
  <2> HIDE DEF h
  <2>3. /\ r \in Tx
        /\ r.rows = tx[o].rows /\ r.order = tx[o].order /\ r.trades = tx[o].trades
        /\ \A y \in Orders \ {Seller(o)} : r.hold[y] = tx[o].hold[y]
        /\ \/ r.hold[Seller(o)] = tx[o].hold[Seller(o)]
           \/ r.hold[Seller(o)].status \in {"CONSUMED", HoldSeen(o, Seller(o)).status}
    BY <1>2, <2>1, ReduceHoldEffect
  <2>4. /\ t.rows = r.rows /\ t.order = r.order /\ t.hold = r.hold
        /\ t.trades = r.trades \cup {TradeOf(o, NextFill(o))}
    <3> HIDE DEF r
    <3>1. t = [r EXCEPT !.trades = @ \cup {TradeOf(o, NextFill(o))},
                        !.delta = [a \in Accounts |->
                            [r.delta[a] EXCEPT !.available = @ + Legs(o)[a]]]]
      BY DEF FillTx, r
    <3> QED
      BY <2>3, <3>1 DEF Tx
  <2>5. t \in Tx
    BY <2>1, FillTxType DEF Inv
  <2> HIDE DEF r, t
  <2>6. /\ Alone(o) /\ create'[o] = h
        /\ tx'[o].hold = t.hold /\ tx'[o].order = t.order /\ tx'[o].trades = t.trades
    BY <2>1, <2>3, <2>4, <2>5, SettleEffect
  <2>7. /\ WritesHold(o, Seller(o)) /\ KeepsOrders(o)
        /\ tx'[o].trades = tx[o].trades \cup {TradeOf(o, NextFill(o))}
    BY <2>3, <2>4, <2>6 DEF WritesHold, KeepsOrders
  <2> QED
    BY <2>1, <2>2, <2>6, <2>7 DEF Effect, Moves
<1>6. CASE FillMaker(o)
  <2> DEFINE m == NextFill(o).maker
             t == [tx[o] EXCEPT !.order[m] = Filled(o)]
             h == [create[o] EXCEPT !.pc = "taker", !.seenOrder = OrderSeen(o, o)]
  <2>1. Settle(o, t, h) /\ create[o].pc = "maker"
    BY <1>6 DEF FillMaker, Filled
  <2>2. h.pc = "taker" /\ h.fills = create[o].fills /\ h.seenOrder = OrderSeen(o, o)
    BY <1>1 DEF Handlers
  <2> HIDE DEF h
  <2>3. Filled(o) \in OrderRow /\ m \in Orders
    BY <1>1, <1>2, <2>1, AppliedType DEF Filled
  <2> HIDE DEF m
  <2>4. t \in Tx
    BY <1>1, <2>3, OrderWriteType
  <2>5. /\ t.rows = tx[o].rows /\ t.hold = tx[o].hold /\ t.trades = tx[o].trades
        /\ t.order = [tx[o].order EXCEPT ![m] = Filled(o)]
    BY <1>1 DEF Tx
  <2> HIDE DEF t
  <2>6. /\ Alone(o) /\ create'[o] = h
        /\ tx'[o].hold = t.hold /\ tx'[o].order = t.order /\ tx'[o].trades = t.trades
    BY <2>1, <2>4, <2>5, SettleEffect
  <2>7. KeepsHolds(o) /\ WritesOrder(o, NextFill(o).maker, Filled(o)) /\ KeepsTrades(o)
    BY <2>5, <2>6 DEF KeepsHolds, WritesOrder, KeepsTrades, m
  <2> QED
    BY <2>1, <2>2, <2>6, <2>7 DEF Effect, Moves
<1>7. CASE FillTaker(o)
  <2> DEFINE t == [tx[o] EXCEPT !.order[o] = Filled(o)]
             h == [create[o] EXCEPT !.pc = "fill", !.fills = @ \ {NextFill(o)},
                                    !.seenHold = NoHold, !.seenOrder = NoOrder]
  <2>1. Settle(o, t, h) /\ create[o].pc = "taker"
    BY <1>7 DEF FillTaker, Filled
  <2>2. h.pc = "fill" /\ h.fills = create[o].fills \ {NextFill(o)}
    BY <1>1 DEF Handlers
  <2> HIDE DEF h
  <2>3. Filled(o) \in OrderRow
    BY <1>1, <1>2, <2>1, AppliedType DEF Filled
  <2>4. t \in Tx
    BY <1>1, <2>3, OrderWriteType
  <2>5. /\ t.rows = tx[o].rows /\ t.hold = tx[o].hold /\ t.trades = tx[o].trades
        /\ t.order = [tx[o].order EXCEPT ![o] = Filled(o)]
    BY <1>1 DEF Tx
  <2> HIDE DEF t
  <2>6. /\ Alone(o) /\ create'[o] = h
        /\ tx'[o].hold = t.hold /\ tx'[o].order = t.order /\ tx'[o].trades = t.trades
    BY <2>1, <2>4, <2>5, SettleEffect
  <2>7. KeepsHolds(o) /\ WritesOrder(o, o, Filled(o)) /\ KeepsTrades(o)
    BY <2>5, <2>6 DEF KeepsHolds, WritesOrder, KeepsTrades
  <2> QED
    BY <2>1, <2>2, <2>6, <2>7 DEF Effect
<1>8. CASE ReadRemainderHold(o)
  <2> DEFINE h == [create[o] EXCEPT !.pc = "remainder", !.seenHold = HoldSeen(o, o)]
  <2>1. Settle(o, tx[o], h) /\ create[o].pc = "fill"
    BY <1>8 DEF ReadRemainderHold
  <2>2. h.pc = "remainder" /\ h.fills = create[o].fills
    BY <1>1 DEF Handlers
  <2> HIDE DEF h
  <2>3. Alone(o) /\ create'[o] = h /\ KeepsHolds(o) /\ KeepsOrders(o) /\ KeepsTrades(o)
    BY <1>1, <2>1, SettleEffect DEF KeepsHolds, KeepsOrders, KeepsTrades
  <2> QED
    BY <2>1, <2>2, <2>3 DEF Effect, Moves
<1>9. CASE CancelRemainder(o)
  <2> DEFINE amount == reserveAmount(o, create[o].left)
             r == reduceHold(tx[o], o, o, amount)
             row == [OrderSeen(o, o) EXCEPT !.status = "CANCELLED"]
             t == [r EXCEPT !.order[o] = row]
             h == [create[o] EXCEPT !.pc = "fill", !.cancelRest = FALSE, !.seenHold = NoHold]
  <2>1. Settle(o, t, h) /\ create[o].pc = "remainder"
    BY <1>9 DEF CancelRemainder
  <2>2. h.pc = "fill" /\ h.fills = create[o].fills
    BY <1>1 DEF Handlers
  <2>3. amount \in Nat
    BY <1>1, ReserveType
  <2>4. row \in OrderRow
    BY <1>1 DEF OrderRow, OrderStatuses
  <2> HIDE DEF h, amount
  <2>5. /\ r \in Tx
        /\ r.rows = tx[o].rows /\ r.order = tx[o].order /\ r.trades = tx[o].trades
        /\ \A y \in Orders \ {o} : r.hold[y] = tx[o].hold[y]
        /\ \/ r.hold[o] = tx[o].hold[o]
           \/ r.hold[o].status \in {"CONSUMED", HoldSeen(o, o).status}
    BY <2>3, ReduceHoldEffect
  <2> HIDE DEF r, row
  <2>6. t \in Tx
    BY <2>4, <2>5, OrderWriteType
  <2>7. /\ t.rows = r.rows /\ t.hold = r.hold /\ t.trades = r.trades
        /\ t.order = [r.order EXCEPT ![o] = row]
    BY <2>5 DEF Tx
  <2> HIDE DEF t
  <2>8. /\ Alone(o) /\ create'[o] = h
        /\ tx'[o].hold = t.hold /\ tx'[o].order = t.order /\ tx'[o].trades = t.trades
    BY <2>1, <2>5, <2>6, <2>7, SettleEffect
  <2>9. WritesHold(o, o) /\ KeepsTrades(o) /\ WritesOrder(o, o, row)
    BY <2>5, <2>7, <2>8 DEF WritesHold, WritesOrder, KeepsTrades
  <2> QED
    BY <2>1, <2>2, <2>8, <2>9 DEF Effect, Moves, row
<1> QED
  BY <1>3, <1>4, <1>5, <1>6, <1>7, <1>8, <1>9 DEF Block
-----------------------------------------------------------------------------
(* Cancellations and settlements keep out of each other's way *)

\* The fill that o settles next writes the row of x after its hold.
Pending(o, x) ==
    \/ create[o].pc \in {"seller", "maker"} /\ x \in {o, NextFill(o).maker}
    \/ create[o].pc = "taker" /\ x = o

OrdersLocked ==
    \A p \in Calls, x \in Orders : tx[p].order[x] # NoOrder => <<"order", x>> \in tx[p].rows

\* A settlement writes no hold without writing the row of its order, sooner or later.
HoldsFollowed ==
    \A o, x \in Orders :
        tx[o].hold[x] # NoHold => <<"order", x>> \in tx[o].rows \/ Pending(o, x)

\* A cancellation has the row of its order from the moment it reads the hold.
CancelsGuarded ==
    \A c \in CancelCalls :
        /\ cancel[c].pc \in {"marked", "released"} => <<"order", target[c]>> \in tx[c].rows
        /\ \A x \in Orders : tx[c].hold[x] # NoHold => x = target[c] /\ cancel[c].pc = "released"
        /\ cancel[c].pc = "marked" => cancel[c].seenHold = hold[target[c]]

\* What it releases is what the hold has.
ReleasesExact ==
    \A c \in CancelCalls : tx[c].hold[target[c]] # NoHold =>
        tx[c].delta[HoldAccount(target[c])].locked = - hold[target[c]].amount

\* A settlement releases nothing that is not released.
SettlementsReleaseNone ==
    \A o, x \in Orders : tx[o].hold[x].status = "RELEASED" => hold[x].status = "RELEASED"

GuardInv ==
    OrdersLocked /\ HoldsFollowed /\ CancelsGuarded /\ ReleasesExact /\ SettlementsReleaseNone

LEMMA BlockGuards ==
    ASSUME Inv, GuardInv, NEW o \in Orders, Block(o)
    PROVE  GuardInv'
<1>1. Alone(o) /\ Effect(o)
  BY Blocks
<1>2. /\ o \in Calls /\ o \notin CancelCalls /\ \A q \in Orders : q \in Calls
      /\ \A c \in CancelCalls : c \in Calls /\ c # o
      /\ tx[o] \in Tx
  BY ExchangeAssumption DEF Calls, Inv, TypeInv, TypeOK
<1>3. /\ \A q \in Calls \ {o} : tx'[q] = tx[q]
      /\ \A q \in Orders \ {o} : create'[q] = create[q]
      /\ tx'[o].rows = tx[o].rows \cup Needs(o)
      /\ UNCHANGED <<hold, order, request, target, cancel>>
  BY <1>1 DEF Alone, db, inputs
<1>4. ASSUME create[o].pc \in {"buyer", "seller", "maker", "taker"}
      PROVE  NextFill(o).maker \in Orders /\ Buyer(o) \in {o, NextFill(o).maker}
             /\ Seller(o) \in {o, NextFill(o).maker}
  BY <1>4, NextFillType DEF Inv, TypeInv, AtFill, Buyer, Seller
<1>5. create'[o].fills = create[o].fills => NextFill(o)' = NextFill(o)
  BY DEF NextFill
<1>6. OrdersLocked'
  <2>1. ASSUME NEW x \in Orders, tx'[o].order[x] # NoOrder
        PROVE  <<"order", x>> \in tx'[o].rows
    <3>1. tx'[o].order[x] = tx[o].order[x] \/ <<"order", x>> \in Needs(o)
      BY <1>1, <1>2, <1>4 DEF Effect, Moves, KeepsOrders, WritesOrder, Needs, CreateNeeds, Tx
    <3> QED
      BY <1>2, <1>3, <2>1, <3>1 DEF GuardInv, OrdersLocked
  <2> QED
    BY <1>2, <1>3, <2>1 DEF GuardInv, OrdersLocked
<1>7. HoldsFollowed'
  <2>1. ASSUME NEW x \in Orders, tx'[o].hold[x] # NoHold
        PROVE  <<"order", x>> \in tx'[o].rows \/ Pending(o, x)'
    <3>0. tx[o].hold[x] # NoHold => <<"order", x>> \in tx[o].rows \/ Pending(o, x)
      BY DEF GuardInv, HoldsFollowed
    <3>1. CASE Moves(o, "fill", "buyer") \/ Moves(o, "fill", "remainder")
      BY <1>1, <1>3, <2>1, <3>0, <3>1 DEF Effect, Moves, KeepsHolds, Pending
    <3>2. CASE Moves(o, "buyer", "seller")
      BY <1>1, <1>3, <1>4, <1>5, <2>1, <3>0, <3>2 DEF Effect, Moves, WritesHold, Pending
    <3>3. CASE Moves(o, "seller", "maker")
      BY <1>1, <1>3, <1>4, <1>5, <2>1, <3>0, <3>3 DEF Effect, Moves, WritesHold, Pending
    <3>4. CASE Moves(o, "maker", "taker")
      BY <1>1, <1>2, <1>3, <2>1, <3>0, <3>4
         DEF Effect, Moves, KeepsHolds, Pending, Needs, CreateNeeds
    <3>5. CASE create[o].pc = "taker" /\ create'[o].pc = "fill"
      BY <1>1, <1>2, <1>3, <2>1, <3>0, <3>5
         DEF Effect, Moves, KeepsHolds, Pending, Needs, CreateNeeds
    <3>6. CASE Moves(o, "remainder", "fill")
      BY <1>1, <1>2, <1>3, <2>1, <3>0, <3>6
         DEF Effect, Moves, WritesHold, Pending, Needs, CreateNeeds
    <3> QED
      BY <1>1, <3>1, <3>2, <3>3, <3>4, <3>5, <3>6 DEF Effect
  <2>2. ASSUME NEW q \in Orders, q # o, NEW x \in Orders, tx'[q].hold[x] # NoHold
        PROVE  <<"order", x>> \in tx'[q].rows \/ Pending(q, x)'
    <3>1. tx'[q] = tx[q] /\ create'[q] = create[q] /\ NextFill(q)' = NextFill(q)
      BY <1>2, <1>3, <2>2 DEF NextFill
    <3> QED
      BY <2>2, <3>1 DEF GuardInv, HoldsFollowed, Pending
  <2> QED
    BY <2>1, <2>2 DEF HoldsFollowed
<1>8. CancelsGuarded' /\ ReleasesExact'
  BY <1>2, <1>3 DEF GuardInv, CancelsGuarded, ReleasesExact, HoldAccount
<1>9. SettlementsReleaseNone'
  <2>1. ASSUME NEW x \in Orders, tx'[o].hold[x].status = "RELEASED"
        PROVE  hold[x].status = "RELEASED"
    <3>1. HoldSeen(o, x).status = "RELEASED" => hold[x].status = "RELEASED"
      BY DEF GuardInv, SettlementsReleaseNone, HoldSeen
    <3>2. tx'[o].hold[x] = tx[o].hold[x] \/ tx'[o].hold[x].status \in {"CONSUMED", HoldSeen(o, x).status}
      BY <1>1 DEF Effect, KeepsHolds, WritesHold
    <3> QED
      BY <2>1, <3>1, <3>2 DEF GuardInv, SettlementsReleaseNone
  <2> QED
    BY <1>2, <1>3, <2>1 DEF GuardInv, SettlementsReleaseNone
<1> QED
  BY <1>6, <1>7, <1>8, <1>9 DEF GuardInv

\* A step that ends calls, or starts them, and writes nothing.
LEMMA RestGuards ==
    ASSUME Inv, GuardInv, UNCHANGED <<hold, request, target>>,
           \A p \in Calls : tx'[p] \in {tx[p], NoTx},
           \A o \in Orders : create'[o] = create[o] \/ tx'[o] = NoTx,
           \A c \in CancelCalls :
              \/ cancel'[c] = cancel[c] /\ tx'[c] = tx[c]
              \/ cancel'[c].pc \notin {"marked", "released"} /\ tx'[c] = NoTx
    PROVE  GuardInv'
<1>1. /\ \A q \in Orders : q \in Calls
      /\ \A c \in CancelCalls : c \in Calls
      /\ \A x \in Orders : NoTx.hold[x] = NoHold /\ NoTx.order[x] = NoOrder
      /\ NoHold.status # "RELEASED"
      /\ \A c \in CancelCalls : target[c] \in Orders
  BY NoTxFields DEF Calls, NoHold, Inv, TypeInv, TypeOK
<1>2. OrdersLocked'
  BY <1>1 DEF GuardInv, OrdersLocked
<1>3. HoldsFollowed'
  <2>1. ASSUME NEW o \in Orders, NEW x \in Orders, tx'[o].hold[x] # NoHold
        PROVE  <<"order", x>> \in tx'[o].rows \/ Pending(o, x)'
    <3>1. tx'[o] = tx[o] /\ create'[o] = create[o] /\ NextFill(o)' = NextFill(o)
      BY <1>1, <2>1 DEF NextFill
    <3> QED
      BY <2>1, <3>1 DEF GuardInv, HoldsFollowed, Pending
  <2> QED
    BY <2>1 DEF HoldsFollowed
<1>4. CancelsGuarded'
  <2>1. ASSUME NEW c \in CancelCalls, cancel'[c] = cancel[c], tx'[c] = tx[c]
        PROVE  /\ cancel'[c].pc \in {"marked", "released"} => <<"order", target[c]>> \in tx'[c].rows
               /\ \A x \in Orders : tx'[c].hold[x] # NoHold => x = target[c] /\ cancel'[c].pc = "released"
               /\ cancel'[c].pc = "marked" => cancel'[c].seenHold = hold[target[c]]
    BY <2>1 DEF GuardInv, CancelsGuarded
  <2>2. ASSUME NEW c \in CancelCalls, cancel'[c].pc \notin {"marked", "released"}, tx'[c] = NoTx
        PROVE  /\ cancel'[c].pc \in {"marked", "released"} => <<"order", target[c]>> \in tx'[c].rows
               /\ \A x \in Orders : tx'[c].hold[x] # NoHold => x = target[c] /\ cancel'[c].pc = "released"
               /\ cancel'[c].pc = "marked" => cancel'[c].seenHold = hold[target[c]]
    BY <1>1, <2>2
  <2> QED
    BY <2>1, <2>2 DEF CancelsGuarded
<1>5. ReleasesExact'
  BY <1>1 DEF GuardInv, ReleasesExact, HoldAccount
<1>6. SettlementsReleaseNone'
  BY <1>1 DEF GuardInv, SettlementsReleaseNone
<1> QED
  BY <1>2, <1>3, <1>4, <1>5, <1>6 DEF GuardInv

\* A step of a cancellation that writes its own transaction.
LEMMA CancellerGuards ==
    ASSUME Inv, GuardInv, NEW c \in CancelCalls,
           UNCHANGED <<hold, request, target, create>>,
           \A q \in Calls \ {c} : tx'[q] = tx[q],
           \A d \in CancelCalls \ {c} : cancel'[d] = cancel[d],
           \A x \in Orders : tx'[c].order[x] # NoOrder => <<"order", x>> \in tx'[c].rows,
           <<"order", target[c]>> \in tx'[c].rows,
           \A x \in Orders : tx'[c].hold[x] # NoHold => x = target[c] /\ cancel'[c].pc = "released",
           cancel'[c].pc = "marked" => cancel'[c].seenHold = hold[target[c]],
           tx'[c].hold[target[c]] # NoHold =>
              tx'[c].delta[HoldAccount(target[c])].locked = - hold[target[c]].amount
    PROVE  GuardInv'
<1>1. /\ \A q \in Orders : q \in Calls /\ q # c
      /\ \A d \in CancelCalls : d \in Calls
      /\ \A o \in Orders : tx'[o] = tx[o]
      /\ \A d \in CancelCalls \ {c} : tx'[d] = tx[d]
  BY ExchangeAssumption DEF Calls
<1>2. OrdersLocked'
  BY <1>1 DEF GuardInv, OrdersLocked
<1>3. HoldsFollowed'
  BY <1>1 DEF GuardInv, HoldsFollowed, Pending, NextFill
<1>4. CancelsGuarded'
  BY <1>1 DEF GuardInv, CancelsGuarded
<1>5. ReleasesExact'
  BY <1>1 DEF GuardInv, ReleasesExact, HoldAccount
<1>6. SettlementsReleaseNone'
  BY <1>1 DEF GuardInv, SettlementsReleaseNone
<1> QED
  BY <1>2, <1>3, <1>4, <1>5, <1>6 DEF GuardInv

LEMMA MarkGuards ==
    ASSUME Inv, GuardInv, NEW c \in CancelCalls, MarkCancelled(c)
    PROVE  GuardInv'
<1> DEFINE x == target[c]
           row == [order[target[c]] EXCEPT !.status = "CANCELLED"]
<1>1. /\ c \in Calls /\ c \notin Orders /\ x \in Orders /\ tx[c] \in Tx
      /\ tx \in [Calls -> Tx] /\ cancel \in [CancelCalls -> Cancellers]
  BY ExchangeAssumption DEF Inv, TypeInv, TypeOK, Calls
<1>2. /\ cancel[c].pc = "checked" /\ UNCHANGED <<hold, request, target, create>>
      /\ tx' = [tx EXCEPT ![c].order[x] = row, ![c].rows = Needs(c)]
      /\ cancel' = [cancel EXCEPT ![c] = [pc |-> "marked", seenHold |-> hold[x]]]
  BY DEF MarkCancelled, db, inputs
<1>3. tx[c] = NoTx
  BY <1>2 DEF Inv, IdleInv
<1>4. Needs(c) = {<<"order", x>>}
  BY <1>1, <1>2 DEF Needs, CancelNeeds
<1>5. /\ tx'[c].rows = {<<"order", x>>} /\ tx'[c].hold = NoTx.hold
      /\ \A y \in Orders \ {x} : tx'[c].order[y] = NoTx.order[y]
      /\ \A q \in Calls \ {c} : tx'[q] = tx[q]
  BY <1>1, <1>2, <1>3, <1>4 DEF Tx
<1>6. /\ \A y \in Orders : tx'[c].hold[y] = NoHold
      /\ \A y \in Orders : tx'[c].order[y] # NoOrder => <<"order", y>> \in tx'[c].rows
      /\ <<"order", x>> \in tx'[c].rows
  BY <1>5, NoTxFields
<1>7. /\ cancel'[c].seenHold = hold[x]
      /\ \A d \in CancelCalls \ {c} : cancel'[d] = cancel[d]
  BY <1>1, <1>2
<1> QED
  BY <1>1, <1>2, <1>5, <1>6, <1>7, CancellerGuards

LEMMA ReleaseGuards ==
    ASSUME Inv, GuardInv, NEW c \in CancelCalls, ReleaseHold(c)
    PROVE  GuardInv'
<1> DEFINE x == target[c]
           t == releaseHold(c)
<1>1. /\ c \in Calls /\ c \notin Orders /\ x \in Orders /\ tx[c] \in Tx
      /\ tx \in [Calls -> Tx] /\ cancel \in [CancelCalls -> Cancellers]
      /\ HoldAccount(x) \in Accounts
  BY ExchangeAssumption, ReserveType DEF Inv, TypeInv, TypeOK, Calls
<1>2. /\ cancel[c].pc = "marked" /\ UNCHANGED <<hold, request, target, create>>
      /\ \/ tx' = [tx EXCEPT ![c] = [t EXCEPT !.rows = t.rows \cup Needs(c)]]
         \/ UNCHANGED tx
      /\ cancel' = [cancel EXCEPT ![c] = Canceller("released")]
  BY DEF ReleaseHold, db, inputs
<1>3. /\ cancel[c].seenHold = hold[x] /\ <<"order", x>> \in tx[c].rows
      /\ \A y \in Orders : tx[c].hold[y] = NoHold
      /\ \A y \in Orders : tx[c].order[y] # NoOrder => <<"order", y>> \in tx[c].rows
  BY <1>1, <1>2 DEF GuardInv, CancelsGuarded, OrdersLocked
<1>4. cancel'[c].pc = "released" /\ \A d \in CancelCalls \ {c} : cancel'[d] = cancel[d]
  BY <1>1, <1>2 DEF Canceller
<1>5. CASE UNCHANGED tx
  BY <1>1, <1>2, <1>3, <1>4, <1>5, CancellerGuards
<1>6. CASE tx' = [tx EXCEPT ![c] = [t EXCEPT !.rows = t.rows \cup Needs(c)]]
  <2>1. t \in Tx
    BY ReleaseHoldType DEF Inv, TypeInv
  <2>2. /\ t.rows = tx[c].rows /\ t.order = tx[c].order
        /\ \A y \in Orders \ {x} : t.hold[y] = tx[c].hold[y]
        /\ t.delta[HoldAccount(x)].locked = - hold[x].amount
    BY <1>1, <1>3 DEF releaseHold, Tx
  <2> HIDE DEF t
  <2>3. /\ tx'[c].rows = tx[c].rows \cup Needs(c) /\ tx'[c].order = tx[c].order
        /\ tx'[c].hold = t.hold /\ tx'[c].delta = t.delta
        /\ \A q \in Calls \ {c} : tx'[q] = tx[q]
    BY <1>1, <1>6, <2>1, <2>2 DEF Tx
  <2>4. /\ \A y \in Orders : tx'[c].order[y] # NoOrder => <<"order", y>> \in tx'[c].rows
        /\ <<"order", x>> \in tx'[c].rows
        /\ \A y \in Orders : tx'[c].hold[y] # NoHold => y = x
        /\ tx'[c].delta[HoldAccount(x)].locked = - hold[x].amount
    BY <1>3, <2>2, <2>3
  <2> QED
    BY <1>1, <1>2, <1>4, <2>3, <2>4, CancellerGuards
<1> QED
  BY <1>2, <1>5, <1>6

\* A commit leaves the hold that a cancellation is about to release.
LEMMA CommitGuards ==
    ASSUME Inv, GuardInv, NEW p \in Calls, Commit(p), UNCHANGED <<request, target>>,
           p \in Orders => create[p].pc = "fill" /\ cancel' = cancel
                           /\ \A o \in Orders \ {p} : create'[o] = create[o],
           p \in CancelCalls => create' = create /\ cancel'[p].pc = "done"
                           /\ \A c \in CancelCalls \ {p} : cancel'[c] = cancel[c]
    PROVE  GuardInv'
<1>1. /\ tx \in [Calls -> Tx] /\ tx'[p] = NoTx /\ \A q \in Calls \ {p} : tx'[q] = tx[q]
      /\ \A x \in Orders : hold'[x] = HoldSeen(p, x)
  BY DEF Inv, TypeInv, TypeOK, Commit
<1>2. /\ \A q \in Orders : q \in Calls /\ q \notin CancelCalls
      /\ \A c \in CancelCalls : c \in Calls /\ c \notin Orders /\ target[c] \in Orders
      /\ \A x \in Orders : NoTx.hold[x] = NoHold /\ NoTx.order[x] = NoOrder
      /\ NoHold.status # "RELEASED"
  BY ExchangeAssumption, NoTxFields DEF Calls, NoHold, Inv, TypeInv, TypeOK
<1>3. ASSUME NEW x \in Orders, tx[p].hold[x] # NoHold
      PROVE  <<"order", x>> \in tx[p].rows
  <2>1. CASE p \in Orders
    BY <1>3, <2>1 DEF GuardInv, HoldsFollowed, Pending
  <2>2. CASE p \in CancelCalls
    BY <1>3, <2>2 DEF GuardInv, CancelsGuarded
  <2> QED
    BY <2>1, <2>2 DEF Calls
<1>4. ASSUME NEW c \in CancelCalls, c # p, <<"order", target[c]>> \in tx[c].rows
      PROVE  hold'[target[c]] = hold[target[c]]
  BY <1>1, <1>2, <1>3, <1>4 DEF Inv, LocksInv, HoldSeen
<1>5. OrdersLocked'
  BY <1>1, <1>2 DEF GuardInv, OrdersLocked
<1>6. HoldsFollowed'
  <2>1. ASSUME NEW o \in Orders, NEW x \in Orders, tx'[o].hold[x] # NoHold
        PROVE  <<"order", x>> \in tx'[o].rows \/ Pending(o, x)'
    <3>1. tx'[o] = tx[o] /\ create'[o] = create[o] /\ NextFill(o)' = NextFill(o)
      BY <1>1, <1>2, <2>1 DEF NextFill, Calls
    <3> QED
      BY <2>1, <3>1 DEF GuardInv, HoldsFollowed, Pending
  <2> QED
    BY <2>1 DEF HoldsFollowed
<1>7. \A c \in CancelCalls :
        \/ c # p /\ cancel'[c] = cancel[c] /\ tx'[c] = tx[c]
        \/ c = p /\ cancel'[c].pc = "done" /\ tx'[c] = NoTx
  BY <1>1, <1>2 DEF Calls
<1>8. CancelsGuarded'
  BY <1>2, <1>4, <1>7 DEF GuardInv, CancelsGuarded
<1>9. ReleasesExact'
  <2>1. ASSUME NEW c \in CancelCalls, tx'[c].hold[target[c]] # NoHold
        PROVE  tx'[c].delta[HoldAccount(target[c])].locked = - hold'[target[c]].amount
    <3>1. c # p /\ tx'[c] = tx[c]
      BY <1>2, <1>7, <2>1
    <3>2. <<"order", target[c]>> \in tx[c].rows
      BY <1>2, <2>1, <3>1 DEF GuardInv, CancelsGuarded
    <3>3. hold'[target[c]] = hold[target[c]]
      BY <1>4, <3>1, <3>2
    <3> QED
      BY <2>1, <3>1, <3>3 DEF GuardInv, ReleasesExact
  <2> QED
    BY <1>2, <2>1 DEF ReleasesExact, HoldAccount
<1>10. SettlementsReleaseNone'
  <2>1. ASSUME NEW o \in Orders, NEW x \in Orders, tx'[o].hold[x].status = "RELEASED"
        PROVE  hold'[x].status = "RELEASED"
    <3>1. o # p /\ tx[o].hold[x].status = "RELEASED" /\ tx[o].hold[x] # NoHold
      BY <1>1, <1>2, <2>1
    <3>2. hold[x].status = "RELEASED" /\ <<"hold", x>> \in tx[o].rows
      BY <1>2, <3>1 DEF GuardInv, SettlementsReleaseNone, Inv, LocksInv
    <3>3. tx[p].hold[x] = NoHold
      BY <1>2, <3>1, <3>2 DEF Inv, LocksInv
    <3> QED
      BY <1>1, <3>2, <3>3 DEF HoldSeen
  <2> QED
    BY <2>1 DEF SettlementsReleaseNone
<1> QED
  BY <1>5, <1>6, <1>8, <1>9, <1>10 DEF GuardInv
LEMMA CreateGuards ==
    ASSUME Inv, FreshInv, GuardInv, NEW o \in Orders, ReceiveOrder(o) \/ CreateStep(o)
    PROVE  GuardInv'
<1>1. /\ o \in Calls /\ o \notin CancelCalls
      /\ create \in [Orders -> Handlers] /\ tx \in [Calls -> Tx]
      /\ \A x \in Orders : x \in Calls
      /\ \A c \in CancelCalls : c \in Calls /\ c # o /\ target[c] \in Orders
  BY ExchangeAssumption DEF Calls, Inv, TypeInv, TypeOK
<1>2. CASE ReceiveOrder(o) \/ SubmitOrder(o) \/ SettlementShort(o)
  <2>1. /\ UNCHANGED <<hold, request, target, cancel>>
        /\ tx' = tx \/ tx' = [tx EXCEPT ![o] = NoTx]
        /\ \A x \in Orders \ {o} : create'[x] = create[x]
    BY <1>1, <1>2 DEF ReceiveOrder, SubmitOrder, SettlementShort, db, inputs
  <2>2. tx'[o] = NoTx
    BY <1>1, <1>2, <2>1 DEF ReceiveOrder, SubmitOrder, SettlementShort, SettlingPcs, Inv, IdleInv
  <2>3. \A p \in Calls : tx'[p] \in {tx[p], NoTx}
    BY <1>1, <2>1
  <2>4. \A x \in Orders : create'[x] = create[x] \/ tx'[x] = NoTx
    BY <2>1, <2>2
  <2>5. \A c \in CancelCalls : cancel'[c] = cancel[c] /\ tx'[c] = tx[c]
    BY <1>1, <2>1
  <2> QED
    BY <2>1, <2>3, <2>4, <2>5, RestGuards
<1>3. CASE PlaceOrder(o)
  <2>1. /\ UNCHANGED <<request, target, cancel, tx>> /\ create[o].pc = "placing"
        /\ \A x \in Orders \ {o} : hold'[x] = hold[x]
        /\ \A x \in Orders \ {o} : create'[x] = create[x]
    BY <1>1, <1>3 DEF PlaceOrder, inputs, Inv, TypeInv, TypeOK
  <2>2. /\ tx[o] = NoTx
        /\ \A p \in Calls : tx[p].hold[o] = NoHold
        /\ \A c \in CancelCalls : target[c] = o => cancel[c].pc \notin CancellingPcs
    BY <2>1 DEF SettlingPcs, Inv, IdleInv, FreshInv, Fresh, NoRow, NoUse
  <2>3. OrdersLocked'
    BY <2>1 DEF GuardInv, OrdersLocked
  <2>4. HoldsFollowed'
    <3>1. ASSUME NEW y \in Orders, NEW x \in Orders, tx'[y].hold[x] # NoHold
          PROVE  <<"order", x>> \in tx'[y].rows \/ Pending(y, x)'
      <4>1. y # o /\ create'[y] = create[y] /\ NextFill(y)' = NextFill(y)
        BY <2>1, <2>2, <3>1, NoTxFields DEF NextFill
      <4> QED
        BY <2>1, <3>1, <4>1 DEF GuardInv, HoldsFollowed, Pending
    <3> QED
      BY <3>1 DEF HoldsFollowed
  <2>5. CancelsGuarded'
    BY <1>1, <2>1, <2>2 DEF GuardInv, CancelsGuarded, CancellingPcs
  <2>6. ReleasesExact'
    <3>1. ASSUME NEW c \in CancelCalls, tx[c].hold[target[c]] # NoHold
          PROVE  tx'[c].delta[HoldAccount(target[c])].locked = - hold'[target[c]].amount
      <4>1. hold'[target[c]] = hold[target[c]]
        BY <1>1, <2>1, <2>2, <3>1
      <4> QED
        BY <2>1, <3>1, <4>1 DEF GuardInv, ReleasesExact
    <3> QED
      BY <2>1, <3>1 DEF ReleasesExact, HoldAccount
  <2>7. SettlementsReleaseNone'
    BY <1>1, <2>1, <2>2 DEF GuardInv, SettlementsReleaseNone, NoHold
  <2> QED
    BY <2>3, <2>4, <2>5, <2>6, <2>7 DEF GuardInv
<1>4. CASE CommitSettlement(o)
  <2>1. /\ Commit(o) /\ UNCHANGED <<request, target, cancel>> /\ create[o].pc = "fill"
        /\ \A x \in Orders \ {o} : create'[x] = create[x]
    BY <1>1, <1>4 DEF CommitSettlement, inputs
  <2> QED
    BY <1>1, <2>1, CommitGuards
<1> QED
  BY <1>2, <1>3, <1>4, BlockGuards DEF CreateStep, Block

LEMMA CancelGuards ==
    ASSUME Inv, GuardInv, NEW c \in CancelCalls, ReceiveCancel(c) \/ CancelStep(c)
    PROVE  GuardInv'
<1>1. /\ c \in Calls /\ c \notin Orders
      /\ cancel \in [CancelCalls -> Cancellers] /\ tx \in [Calls -> Tx]
  BY ExchangeAssumption DEF Calls, Inv, TypeInv, TypeOK
<1>2. CASE ReceiveCancel(c)
  <2>1. /\ UNCHANGED <<hold, request, target, create, tx>> /\ cancel[c].pc = "new"
        /\ cancel'[c].pc \in {"checked", "refused"}
        /\ \A d \in CancelCalls \ {c} : cancel'[d] = cancel[d]
    BY <1>1, <1>2 DEF ReceiveCancel, Canceller, db, inputs
  <2>2. tx[c] = NoTx
    BY <2>1 DEF Inv, IdleInv
  <2>3. \A d \in CancelCalls :
          \/ cancel'[d] = cancel[d] /\ tx'[d] = tx[d]
          \/ cancel'[d].pc \notin {"marked", "released"} /\ tx'[d] = NoTx
    BY <2>1, <2>2
  <2> QED
    BY <2>1, <2>3, RestGuards
<1>3. CASE CommitCancel(c)
  <2>1. /\ Commit(c) /\ UNCHANGED <<request, target, create>>
        /\ cancel'[c].pc = "done"
        /\ \A d \in CancelCalls \ {c} : cancel'[d] = cancel[d]
    BY <1>1, <1>3 DEF CommitCancel, Canceller, inputs
  <2> QED
    BY <1>1, <2>1, CommitGuards
<1> QED
  BY <1>2, <1>3, MarkGuards, ReleaseGuards DEF CancelStep

LEMMA EndGuards ==
    ASSUME Inv, GuardInv, Restart \/ \E p \in Calls : FailTransaction(p)
    PROVE  GuardInv'
<1>1. /\ create \in [Orders -> Handlers] /\ tx \in [Calls -> Tx]
      /\ cancel \in [CancelCalls -> Cancellers]
      /\ \A x \in Orders : x \in Calls
      /\ \A c \in CancelCalls : c \in Calls /\ c \notin Orders
  BY ExchangeAssumption DEF Calls, Inv, TypeInv, TypeOK
<1>2. CASE Restart
  <2>1. /\ UNCHANGED <<hold, request, target>> /\ \A p \in Calls : tx'[p] = NoTx
    BY <1>2 DEF Restart, db, inputs
  <2>2. \A c \in CancelCalls : cancel'[c].pc \notin {"marked", "released"}
    BY <1>1, <1>2 DEF Restart, InFlight, Canceller, CancelEnds
  <2> QED
    BY <1>1, <2>1, <2>2, RestGuards
<1>3. ASSUME NEW p \in Calls, FailTransaction(p) PROVE GuardInv'
  <2>1. /\ UNCHANGED <<hold, request, target>> /\ tx' = [tx EXCEPT ![p] = NoTx]
        /\ \A x \in Orders \ {p} : create'[x] = create[x]
        /\ \A c \in CancelCalls \ {p} : cancel'[c] = cancel[c]
        /\ p \in CancelCalls => cancel'[p].pc = "failed"
    BY <1>1, <1>3 DEF FailTransaction, Canceller, db, inputs
  <2>2. tx'[p] = NoTx /\ \A q \in Calls \ {p} : tx'[q] = tx[q]
    BY <1>1, <2>1
  <2>3. /\ \A q \in Calls : tx'[q] \in {tx[q], NoTx}
        /\ \A x \in Orders : create'[x] = create[x] \/ tx'[x] = NoTx
        /\ \A c \in CancelCalls :
              \/ cancel'[c] = cancel[c] /\ tx'[c] = tx[c]
              \/ cancel'[c].pc \notin {"marked", "released"} /\ tx'[c] = NoTx
    BY <1>1, <2>1, <2>2
  <2> QED
    BY <2>1, <2>3, RestGuards
<1> QED
  BY <1>2, <1>3

LEMMA InitGuards ==
    ASSUME Init
    PROVE  GuardInv
<1>1. /\ \A p \in Calls : tx[p] = NoTx
      /\ \A c \in CancelCalls : cancel[c].pc = "new" /\ target[c] \in Orders /\ c \in Calls
      /\ \A o \in Orders : o \in Calls
  BY DEF Init, Canceller, Calls
<1>2. \A x \in Orders : NoTx.hold[x] = NoHold /\ NoTx.order[x] = NoOrder
                        /\ NoHold.status # "RELEASED"
  BY NoTxFields DEF NoHold
<1> QED
  BY <1>1, <1>2 DEF GuardInv, OrdersLocked, HoldsFollowed, CancelsGuarded,
     ReleasesExact, SettlementsReleaseNone

LEMMA StepGuards ==
    ASSUME Inv, FreshInv, GuardInv, [Next]_vars
    PROVE  GuardInv'
<1>1. CASE UNCHANGED vars
  BY <1>1 DEF vars, db, inputs, GuardInv, OrdersLocked, HoldsFollowed, CancelsGuarded,
     ReleasesExact, SettlementsReleaseNone, Pending, NextFill, HoldAccount
<1> QED
  BY <1>1, CreateGuards, CancelGuards, EndGuards DEF Next

\* The hold of an order is released by a cancellation of that order only.
LEMMA StepReleases ==
    ASSUME Inv, FreshInv, GuardInv, [Next]_vars, NEW x \in Orders,
           hold[x].status = "ACTIVE", hold'[x].status = "RELEASED"
    PROVE  account'[HoldAccount(x)].locked = account[HoldAccount(x)].locked - hold[x].amount
<1>1. \/ \E o \in Orders : Commit(o)
      \/ \E c \in CancelCalls : Commit(c)
      \/ \E o \in Orders : PlaceOrder(o)
  <2>1. UNCHANGED hold => FALSE
    OBVIOUS
  <2>2. UNCHANGED vars \/ Restart => UNCHANGED hold
    BY DEF vars, Restart, db
  <2>3. ASSUME NEW p \in Calls, FailTransaction(p) PROVE UNCHANGED hold
    BY <2>3 DEF FailTransaction, db
  <2>4. ASSUME NEW o \in Orders, ReceiveOrder(o) \/ CreateStep(o)
        PROVE  UNCHANGED hold \/ Commit(o) \/ PlaceOrder(o)
    BY <2>4 DEF ReceiveOrder, CreateStep, SubmitOrder, ReadBuyerHold, ReduceBuyerHold,
       PostFill, SettlementShort, FillMaker, FillTaker, ReadRemainderHold,
       CancelRemainder, CommitSettlement, Settle, db
  <2>5. ASSUME NEW c \in CancelCalls, ReceiveCancel(c) \/ CancelStep(c)
        PROVE  UNCHANGED hold \/ Commit(c)
    BY <2>5 DEF ReceiveCancel, CancelStep, MarkCancelled, ReleaseHold, CommitCancel, db
  <2> QED
    BY <2>1, <2>2, <2>3, <2>4, <2>5 DEF Next
<1>2. ASSUME NEW o \in Orders, PlaceOrder(o) PROVE FALSE
  BY <1>2 DEF PlaceOrder, Inv, TypeInv, TypeOK
<1>3. ASSUME NEW o \in Orders, Commit(o) PROVE FALSE
  BY <1>3 DEF Commit, HoldSeen, GuardInv, SettlementsReleaseNone
<1>4. PICK c \in CancelCalls : Commit(c)
  BY <1>1, <1>2, <1>3
<1>5. /\ c \in Calls /\ tx[c].hold[x] # NoHold
      /\ account'[HoldAccount(x)].locked
            = account[HoldAccount(x)].locked + tx[c].delta[HoldAccount(x)].locked
  BY <1>4, ReserveType DEF Commit, HoldSeen, Calls, Inv, TypeInv
<1>6. x = target[c]
  BY <1>5 DEF GuardInv, CancelsGuarded
<1>7. tx[c].delta[HoldAccount(x)].locked = - hold[x].amount
  BY <1>5, <1>6 DEF GuardInv, ReleasesExact
<1>8. /\ account[HoldAccount(x)].locked \in Int /\ hold[x].amount \in Int
  BY ReserveType DEF Inv, TypeInv, TypeOK, Balance, HoldRow
<1> QED
  BY <1>5, <1>7, <1>8

\* Whatever settles, fails or restarts meanwhile, a cancellation takes from the
\* locked funds exactly what the hold it releases still has
\* (orders.service.ts 168-169: it "releases only what is still held").
THEOREM ReleasesWhatIsHeld == Spec => ReleasesOnlyWhatIsHeld
<1>1. Init => Inv /\ FreshInv /\ GuardInv
  BY InitInv, InitFresh, InitGuards
<1>2. Inv /\ FreshInv /\ GuardInv /\ [Next]_vars => Inv' /\ FreshInv' /\ GuardInv'
  BY StepInv, StepFresh, StepGuards
<1>3. Inv /\ FreshInv /\ GuardInv /\ [Next]_vars =>
        [\A o \in Orders :
          hold[o].status = "ACTIVE" /\ hold'[o].status = "RELEASED" =>
            account'[HoldAccount(o)].locked
                = account[HoldAccount(o)].locked - hold[o].amount]_vars
  BY StepReleases
<1> QED
  BY <1>1, <1>2, <1>3, PTL DEF Spec, ReleasesOnlyWhatIsHeld
-----------------------------------------------------------------------------
(* Fills *)

\* What the trades in S have of x.
VolumeOf(x, S) == Volume(TradesOf(x, S))

\* The orders on bk with the identifier x offer this.
OfferIn(bk, x) == NatSum([e \in bk |-> e.remaining], {e \in bk : e.id = x})

\* All trades that were matched and are not committed.
Matching == UNION {Unsettled(q) : q \in Orders}

Working(o) == create[o].pc \in {"maker", "taker"}

\* Order rows: numbered in the order of their creation, and balanced.
RowsOK ==
    /\ \A x \in Placed :
          /\ order[x].created <= Cardinality(Placed)
          /\ \A y \in Placed : order[x].created = order[y].created => x = y
          /\ order[x].filled + order[x].remaining = request[x].quantity
          /\ price[x] > 0
    /\ \A x \in Orders \ Placed : order[x] = NoOrder
    /\ \A o \in Orders : create[o].pc \in {"placed"} \cup SettlingPcs => o \in Placed
    /\ \A o \in Orders : create[o].pc = "placing" => price[o] > 0

\* A row that a transaction wrote is that of a placed order, and keeps its place.
WritesOK ==
    /\ \A p \in Calls, x \in Orders : tx[p].order[x] # NoOrder =>
          /\ x \in Placed /\ tx[p].order[x].status # "NONE"
          /\ tx[p].order[x].created = order[x].created
    /\ \A c \in CancelCalls :
          /\ tx[c].trades = {}
          /\ \A x \in Orders : tx[c].order[x] # NoOrder =>
                /\ tx[c].order[x].filled = order[x].filled
                /\ tx[c].order[x].remaining = order[x].remaining

\* The order of a cancellation was read from its row.
CancelsPlaced == \A c \in CancelCalls : cancel[c].pc \in CancellingPcs => target[c] \in Placed

\* The fills of a settlement: other users' orders, each of them once.
FillsOf(o) ==
    /\ IsFiniteSet(create[o].fills) /\ IsFiniteSet(tx[o].trades)
    /\ create[o].pc \notin SettlingPcs => create[o].fills = {}
    /\ \A f \in create[o].fills :
          /\ f.maker \in Placed /\ f.price > 0
          /\ request[f.maker].user # request[o].user
          /\ request[f.maker].side # request[o].side
          /\ \A g \in create[o].fills : g.maker = f.maker => g = f

\* Its trades: their accounts are locked, and none is still to be done.
TradesOfCall(o) ==
    /\ \A t \in tx[o].trades :
          /\ t.taker = o /\ t.maker # o
          /\ <<"account", HoldAccount(o)>> \in tx[o].rows
          /\ <<"account", HoldAccount(t.maker)>> \in tx[o].rows
          /\ \A f \in create[o].fills :
                t.maker = f.maker => Working(o) /\ t = TradeOf(o, NextFill(o))
    /\ Working(o) => TradeOf(o, NextFill(o)) \in tx[o].trades

\* The trade is there, and the row of x is to follow.
Pend(o, x) ==
    IF \/ create[o].pc = "maker" /\ x \in {o, NextFill(o).maker}
       \/ create[o].pc = "taker" /\ x = o
    THEN NextFill(o).quantity ELSE 0

\* What a settlement makes of the row of x, against its trades.
Follows(o, x) ==
    /\ OrderSeen(o, x).filled + Pend(o, x) = order[x].filled + VolumeOf(x, tx[o].trades)
    /\ OrderSeen(o, x).filled + OrderSeen(o, x).remaining = order[x].filled + order[x].remaining

\* The row that was read is what is written, but for its status.
Agrees(o, x) ==
    /\ create[o].seenOrder.filled = OrderSeen(o, x).filled
    /\ create[o].seenOrder.remaining = OrderSeen(o, x).remaining
    /\ create[o].seenOrder.created = OrderSeen(o, x).created

SeenOK(o) ==
    /\ create[o].pc = "maker" => Agrees(o, NextFill(o).maker)
    /\ create[o].pc = "taker" => Agrees(o, o)

SettlementsOK ==
    \A o \in Orders :
        FillsOf(o) /\ TradesOfCall(o) /\ SeenOK(o) /\ \A x \in Orders : Follows(o, x)

\* The book: placed orders, each of them once, in the order of their arrival.
EntryOf(e) ==
    /\ e.user = request[e.id].user /\ e.side = request[e.id].side
    /\ e.id \in Placed /\ e.price > 0 /\ e.remaining >= 0 /\ e.sequence <= arrivals

BookOK ==
    /\ \A e \in book : EntryOf(e)
    /\ \A d, e \in book : d.id = e.id \/ d.sequence = e.sequence => d = e

\* The committed trades are those of settlements that are done.
HistoryOK ==
    /\ IsFiniteSet(trades)
    /\ \A t \in trades : create[t.taker].pc = "done"
    /\ \A x \in Orders : order[x].filled = VolumeOf(x, trades)

\* The engine does not know an order before it is submitted.
UnsubmittedOK ==
    \A x \in Orders : create[x].pc \in {"new", "placing", "placed"} =>
        /\ \A e \in book : e.id # x
        /\ \A t \in Matching : t.maker # x /\ t.taker # x
        /\ create[x].pc = "placed" => order[x].remaining = request[x].quantity

FillsInv ==
    /\ RowsOK /\ WritesOK /\ CancelsPlaced /\ SettlementsOK /\ BookOK /\ HistoryOK
    /\ UnsubmittedOK /\ EngineWithinOrders
-----------------------------------------------------------------------------
(* Volumes *)

LEMMA VolumeType ==
    ASSUME NEW S, IsFiniteSet(S), S \subseteq Trade, NEW x
    PROVE  /\ IsFiniteSet(TradesOf(x, S)) /\ TradesOf(x, S) \subseteq Trade
           /\ [t \in TradesOf(x, S) |-> t.quantity] \in [TradesOf(x, S) -> Int]
           /\ VolumeOf(x, S) \in Nat
<1>1. TradesOf(x, S) \in SUBSET S
  BY DEF TradesOf
<1>2. IsFiniteSet(TradesOf(x, S)) /\ TradesOf(x, S) \subseteq Trade
  BY <1>1, FS_Subset
<1>3. [t \in TradesOf(x, S) |-> t.quantity] \in [TradesOf(x, S) -> Int]
  BY <1>2 DEF Trade
<1> QED
  BY <1>2, <1>3, NatSumType DEF VolumeOf, Volume

LEMMA VolumeUnion ==
    ASSUME NEW S, IsFiniteSet(S), S \subseteq Trade,
           NEW T, IsFiniteSet(T), T \subseteq Trade, S \cap T = {}, NEW x
    PROVE  VolumeOf(x, S \cup T) = VolumeOf(x, S) + VolumeOf(x, T)
<1> DEFINE A == TradesOf(x, S)
           B == TradesOf(x, T)
           f == [t \in A |-> t.quantity]
           g == [t \in B |-> t.quantity]
           h == [t \in A \cup B |-> t.quantity]
<1>1. TradesOf(x, S \cup T) = A \cup B /\ A \cap B = {}
  BY DEF TradesOf
<1>2. IsFiniteSet(A) /\ IsFiniteSet(B) /\ A \subseteq Trade /\ B \subseteq Trade
      /\ f \in [A -> Int] /\ g \in [B -> Int]
  BY VolumeType
<1>3. VolumeOf(x, S) = NatSum(f, A) /\ VolumeOf(x, T) = NatSum(g, B)
  BY DEF VolumeOf, Volume
<1>4. VolumeOf(x, S \cup T) = NatSum(h, A \cup B)
  BY <1>1 DEF VolumeOf, Volume
<1> HIDE DEF A, B
<1>5. /\ h \in [A \cup B -> Int]
      /\ \A t \in A : h[t] = f[t]
      /\ \A t \in B : h[t] = g[t]
  BY <1>2 DEF Trade
<1> HIDE DEF f, g, h
<1>6. NatSum(h, A \cup B) = NatSum(f, A) + NatSum(g, B)
  BY <1>1, <1>2, <1>5, NatSumDisjoint
<1> QED
  BY <1>3, <1>4, <1>6

\* What one trade has of x.
Share(x, t) == IF x \in {t.maker, t.taker} THEN t.quantity ELSE 0

LEMMA VolumeNone ==
    ASSUME NEW x, NEW S, \A t \in S : t.maker # x /\ t.taker # x
    PROVE  VolumeOf(x, S) = 0
<1>1. TradesOf(x, S) = {}
  BY DEF TradesOf
<1>2. Tokens([t \in {} |-> t.quantity], {}) = {}
  BY DEF Tokens
<1> QED
  BY <1>1, <1>2, FS_EmptySet DEF VolumeOf, Volume, NatSum

LEMMA VolumeOne ==
    ASSUME NEW x, NEW t \in Trade
    PROVE  VolumeOf(x, {t}) = Share(x, t) /\ IsFiniteSet({t}) /\ {t} \subseteq Trade
<1>1. IsFiniteSet({t})
  BY FS_Singleton
<1>2. CASE x \in {t.maker, t.taker}
  <2>1. TradesOf(x, {t}) = {t}
    BY <1>2 DEF TradesOf
  <2> DEFINE f == [u \in {t} |-> u.quantity]
  <2>2. f \in [{t} -> Nat] /\ f[t] = t.quantity /\ \A u \in {t} : u # t => f[u] = 0
    BY DEF Trade
  <2> HIDE DEF f
  <2>3. NatSum(f, {t}) = f[t]
    BY <1>1, <2>2, NatSumSingle
  <2> QED
    BY <1>1, <1>2, <2>1, <2>2, <2>3 DEF VolumeOf, Volume, Share, f
<1>3. CASE x \notin {t.maker, t.taker}
  BY <1>1, <1>3, VolumeNone DEF Share
<1> QED
  BY <1>2, <1>3

LEMMA VolumeAdd ==
    ASSUME NEW S, IsFiniteSet(S), S \subseteq Trade, NEW t \in Trade, t \notin S, NEW x
    PROVE  VolumeOf(x, S \cup {t}) = VolumeOf(x, S) + Share(x, t)
<1>1. VolumeOf(x, {t}) = Share(x, t) /\ IsFiniteSet({t}) /\ {t} \subseteq Trade /\ S \cap {t} = {}
  BY VolumeOne
<1> QED
  BY <1>1, VolumeUnion

LEMMA VolumeLess ==
    ASSUME NEW T, IsFiniteSet(T), T \subseteq Trade, NEW S \in SUBSET T, NEW x
    PROVE  VolumeOf(x, S) <= VolumeOf(x, T)
<1>1. IsFiniteSet(S) /\ S \subseteq Trade /\ IsFiniteSet(T \ S) /\ T \ S \subseteq Trade
  BY FS_Subset, FS_Difference
<1>2. S \cap (T \ S) = {} /\ T = S \cup (T \ S)
  OBVIOUS
<1>3. VolumeOf(x, T) = VolumeOf(x, S) + VolumeOf(x, T \ S)
  BY <1>1, <1>2, VolumeUnion
<1>4. VolumeOf(x, S) \in Nat /\ VolumeOf(x, T \ S) \in Nat
  BY <1>1, VolumeType
<1> QED
  BY <1>3, <1>4
-----------------------------------------------------------------------------
(* What the book offers of an order *)

LEMMA OfferNone ==
    ASSUME NEW bk, NEW x, \A e \in bk : e.id # x
    PROVE  OfferIn(bk, x) = 0
<1>1. {e \in bk : e.id = x} = {}
  OBVIOUS
<1>2. Tokens([e \in bk |-> e.remaining], {}) = {}
  BY DEF Tokens
<1> QED
  BY <1>1, <1>2, FS_EmptySet DEF OfferIn, NatSum

LEMMA OfferOne ==
    ASSUME NEW bk, NEW e \in bk, e.remaining \in Nat, NEW x, e.id = x,
           \A d \in bk : d.id = x => d = e
    PROVE  OfferIn(bk, x) = e.remaining
<1> DEFINE f == [d \in {e} |-> d.remaining]
<1>1. {d \in bk : d.id = x} = {e}
  OBVIOUS
<1>2. Tokens([d \in bk |-> d.remaining], {e}) = Tokens(f, {e})
  BY DEF Tokens
<1>3. f \in [{e} -> Nat] /\ f[e] = e.remaining /\ \A d \in {e} : d # e => f[d] = 0
  OBVIOUS
<1> HIDE DEF f
<1>4. IsFiniteSet({e})
  BY FS_Singleton
<1>5. NatSum(f, {e}) = f[e]
  BY <1>3, <1>4, NatSumSingle
<1>6. OfferIn(bk, x) = NatSum(f, {e})
  BY <1>1, <1>2 DEF OfferIn, NatSum
<1> QED
  BY <1>3, <1>5, <1>6

LEMMA OfferType ==
    ASSUME NEW bk, IsFiniteSet(bk), bk \subseteq BookEntry, NEW x
    PROVE  OfferIn(bk, x) \in Nat
<1> DEFINE S == {e \in bk : e.id = x}
           f == [e \in S |-> e.remaining]
<1>1. IsFiniteSet(S) /\ f \in [S -> Int]
  BY FS_Subset DEF BookEntry
<1>2. Tokens([e \in bk |-> e.remaining], S) = Tokens(f, S)
  BY DEF Tokens
<1> HIDE DEF S, f
<1>3. NatSum(f, S) \in Nat
  BY <1>1, NatSumType
<1> QED
  BY <1>2, <1>3 DEF OfferIn, NatSum, S
-----------------------------------------------------------------------------
(* What a taker takes *)

\* Each order is on the book once, and no two arrived at once.
Distinct(bk) ==
    /\ IsFiniteSet(bk) /\ bk \subseteq BookEntry
    /\ \A e \in bk : e.remaining >= 0
    /\ \A d, e \in bk : d.id = e.id \/ d.sequence = e.sequence => d = e

\* Price-time priority is a strict total order on the makers of a taker.
LEMMA BeforeOrder ==
    ASSUME NEW bk, Distinct(bk), NEW taker \in BookEntry
    PROVE  LET makers == Makers(bk, taker) IN
           /\ \A e \in makers : ~Before(e, e)
           /\ \A d, e \in makers : d # e => Before(d, e) \/ Before(e, d)
           /\ \A c, d, e \in makers : Before(c, d) /\ Before(d, e) => Before(c, e)
<1>1. \A e \in Makers(bk, taker) : e \in bk /\ e \in BookEntry /\ e.side # taker.side
  BY DEF Makers, Reachable, Distinct
<1>2. \A e \in Makers(bk, taker) : e.price \in Nat /\ e.sequence \in Nat /\ e.side \in {"BUY", "SELL"}
  BY <1>1 DEF BookEntry, Sides
<1>3. taker.side \in {"BUY", "SELL"}
  BY DEF BookEntry, Sides
<1>4. \A d, e \in Makers(bk, taker) : d.side = e.side /\ (d # e => d.sequence # e.sequence)
  BY <1>1, <1>2, <1>3 DEF Distinct
<1> DEFINE makers == Makers(bk, taker)
<1> HIDE DEF makers
<1>5. \A e \in makers : ~Before(e, e)
  BY <1>2 DEF Before, makers
<1>6. ASSUME NEW d \in makers, NEW e \in makers, d # e PROVE Before(d, e) \/ Before(e, d)
  BY <1>2, <1>4, <1>6 DEF Before, makers
<1>7. ASSUME NEW c \in makers, NEW d \in makers, NEW e \in makers, Before(c, d), Before(d, e)
      PROVE  Before(c, e)
  BY <1>2, <1>4, <1>7 DEF Before, makers
<1> QED
  BY <1>5, <1>6, <1>7 DEF makers

\* What stands before an order includes what stands before those before it.
LEMMA AheadGrows ==
    ASSUME NEW bk, Distinct(bk), NEW taker \in BookEntry,
           NEW d \in Makers(bk, taker), NEW e \in Makers(bk, taker), Before(d, e)
    PROVE  Ahead(Makers(bk, taker), d) + d.remaining <= Ahead(Makers(bk, taker), e)
<1> DEFINE makers == Makers(bk, taker)
           D == {f \in makers : Before(f, d)}
           E == {f \in makers : Before(f, e)}
           offer(S) == [f \in S |-> f.remaining]
<1>1. makers \subseteq BookEntry /\ IsFiniteSet(makers) /\ \A f \in makers : f.remaining \in Nat
  BY MakersType DEF Distinct, BookEntry
<1>2. d \notin D /\ D \cup {d} \subseteq E
  BY BeforeOrder
<1>3. IsFiniteSet(D) /\ IsFiniteSet(E)
  BY <1>1, FS_Subset
<1>4. /\ offer(D) \in [D -> Nat] /\ offer(D \cup {d}) \in [D \cup {d} -> Nat]
      /\ offer(E) \in [E -> Nat]
      /\ \A f \in D : offer(D \cup {d})[f] = offer(D)[f]
      /\ \A f \in D \cup {d} : offer(D \cup {d})[f] = offer(E)[f]
      /\ offer(D \cup {d})[d] = d.remaining
  BY <1>1, <1>2
<1>5. /\ Ahead(makers, d) = NatSum(offer(D), D)
      /\ Ahead(makers, e) = NatSum(offer(E), E)
  BY DEF Ahead, Offered
<1> HIDE DEF makers, D, E
<1>6. PICK fD, fA, fE : fD = offer(D) /\ fA = offer(D \cup {d}) /\ fE = offer(E)
  OBVIOUS
<1> HIDE DEF offer
<1>7. NatSum(fA, D \cup {d}) = NatSum(fD, D) + fA[d]
  <2>1. /\ d \notin D /\ fD \in [D -> Nat] /\ fA \in [D \cup {d} -> Nat]
        /\ \A f \in D : fA[f] = fD[f]
    BY <1>2, <1>4, <1>6
  <2> QED
    BY <1>3, <2>1, NatSumInsert
<1>8. D \cup {d} \in SUBSET E /\ fE \in [E -> Int] /\ fA \in [D \cup {d} -> Int]
  BY <1>2, <1>4, <1>6
<1>9. NatSum(fA, D \cup {d}) <= NatSum(fE, E)
  BY <1>3, <1>4, <1>6, <1>8, NatSumSubset
<1> QED
  BY <1>4, <1>5, <1>6, <1>7, <1>9 DEF makers

\* The trades of a submit.
TradesWith(bk, taker) == {TradeOf(taker.id, f) : f \in Fills(bk, taker)}

\* Each is with one maker.
TradeWith(bk, taker, e, t) ==
    /\ e \in Makers(bk, taker) /\ Taken(Makers(bk, taker), taker.remaining, e) > 0
    /\ t = [maker |-> e.id, taker |-> taker.id, price |-> e.price,
            quantity |-> Taken(Makers(bk, taker), taker.remaining, e)]

LEMMA TradesWithMakers ==
    ASSUME NEW bk, Distinct(bk), NEW taker \in BookEntry, taker.remaining \in Nat
    PROVE  /\ \A t \in TradesWith(bk, taker) : \E e : TradeWith(bk, taker, e, t)
           /\ \A e, t : TradeWith(bk, taker, e, t) => t \in TradesWith(bk, taker)
           /\ TradesWith(bk, taker) \subseteq Trade /\ IsFiniteSet(TradesWith(bk, taker))
           /\ IsFiniteSet(Fills(bk, taker))
<1> DEFINE makers == Makers(bk, taker)
           q == taker.remaining
           T == TradesWith(bk, taker)
           F == Fills(bk, taker)
<1>1. makers \subseteq BookEntry /\ IsFiniteSet(makers)
  BY MakersType DEF Distinct
<1>2. \A e : TradeOf(taker.id, FillOf(makers, q, e))
                = [maker |-> e.id, taker |-> taker.id, price |-> e.price,
                   quantity |-> Taken(makers, q, e)]
  BY DEF TradeOf, FillOf
<1>3. \A f : f \in F <=> \E e \in makers : Taken(makers, q, e) > 0 /\ f = FillOf(makers, q, e)
  BY DEF Fills
<1>4. \A t : t \in T <=> \E f \in F : t = TradeOf(taker.id, f)
  BY DEF TradesWith
<1> HIDE DEF T, F
<1>5. \A t \in T : \E e : TradeWith(bk, taker, e, t)
  <2>1. ASSUME NEW t \in T PROVE \E e : TradeWith(bk, taker, e, t)
    <3>1. PICK f \in F : t = TradeOf(taker.id, f)
      BY <1>4, <2>1
    <3>2. PICK e \in makers : Taken(makers, q, e) > 0 /\ f = FillOf(makers, q, e)
      BY <1>3, <3>1
    <3> QED
      BY <1>2, <3>1, <3>2 DEF TradeWith
  <2> QED
    BY <2>1
<1>6. ASSUME NEW e, NEW t, TradeWith(bk, taker, e, t) PROVE t \in T
  BY <1>2, <1>3, <1>4, <1>6 DEF TradeWith
<1>7. T \subseteq Trade
  <2>1. ASSUME NEW t \in T PROVE t \in Trade
    <3>1. PICK e : TradeWith(bk, taker, e, t)
      BY <1>5, <2>1
    <3>2. e \in BookEntry /\ Taken(makers, q, e) \in Int /\ Taken(makers, q, e) > 0
      BY <1>1, <3>1, TakenType DEF TradeWith
    <3>3. Taken(makers, q, e) \in Nat \ {0}
      BY <3>2
    <3>4. e.id \in Orders /\ e.price \in Nat /\ taker.id \in Orders
      BY <3>2 DEF BookEntry
    <3> QED
      BY <3>1, <3>3, <3>4 DEF TradeWith, Trade
  <2> QED
    BY <2>1
<1>8. IsFiniteSet(F)
  <2> DEFINE g == [e \in makers |-> FillOf(makers, q, e)]
  <2>1. \A y \in F : \E e \in makers : y = g[e]
    BY <1>3
  <2>2. DOMAIN g = makers
    OBVIOUS
  <2> HIDE DEF g, makers
  <2> QED
    BY <1>1, <2>1, <2>2, ImageCount
<1>9. IsFiniteSet(T)
  <2> DEFINE g == [f \in F |-> TradeOf(taker.id, f)]
  <2>1. \A y \in T : \E f \in F : y = g[f]
    BY <1>4
  <2>2. DOMAIN g = F
    OBVIOUS
  <2> HIDE DEF g
  <2> QED
    BY <1>8, <2>1, <2>2, ImageCount
<1> QED
  BY <1>5, <1>6, <1>7, <1>8, <1>9 DEF T, F

LEMMA TakenBound ==
    ASSUME NEW bk, Distinct(bk), NEW taker \in BookEntry, taker.remaining \in Nat,
           NEW e \in Makers(bk, taker), Taken(Makers(bk, taker), taker.remaining, e) > 0
    PROVE  /\ Ahead(Makers(bk, taker), e) \in Nat /\ e.remaining \in Nat \ {0}
           /\ Taken(Makers(bk, taker), taker.remaining, e) \in Nat
           /\ Taken(Makers(bk, taker), taker.remaining, e) <= e.remaining
           /\ Ahead(Makers(bk, taker), e)
                + Taken(Makers(bk, taker), taker.remaining, e) <= taker.remaining
<1>1. e \in BookEntry /\ IsFiniteSet(Makers(bk, taker)) /\ Makers(bk, taker) \subseteq BookEntry
      /\ e \in bk
  BY MakersType DEF Distinct
<1>2. e.remaining \in Nat /\ Ahead(Makers(bk, taker), e) \in Nat
  BY <1>1, TakenType DEF Distinct, BookEntry
<1> QED
  BY <1>2 DEF Taken, Least

\* A taker takes no more than it wants: those that stand before the last maker
\* it reaches offer no more than was filled before that one.
LEMMA TakesWhatItWants ==
    ASSUME NEW bk, Distinct(bk), NEW taker \in BookEntry, taker.remaining \in Nat
    PROVE  /\ Volume(TradesWith(bk, taker)) + Left(bk, taker) <= taker.remaining
           /\ Volume(TradesWith(bk, taker)) \in Nat /\ Left(bk, taker) \in Nat
<1> DEFINE makers == Makers(bk, taker)
           q == taker.remaining
           taken(e) == Taken(makers, q, e)
           T == TradesWith(bk, taker)
           size(S) == [t \in S |-> t.quantity]
           offer(S) == [e \in S |-> e.remaining]
<1>1. makers \subseteq BookEntry /\ IsFiniteSet(makers) /\ \A e \in makers : e.remaining \in Nat
  BY MakersType DEF Distinct, BookEntry
<1>2. T \subseteq Trade /\ IsFiniteSet(T)
  BY TradesWithMakers
<1>3. PICK m : m = [t \in T |-> CHOOSE e : TradeWith(bk, taker, e, t)]
  OBVIOUS
<1>4. \A t \in T : TradeWith(bk, taker, m[t], t)
  BY <1>3, TradesWithMakers
<1>5. /\ m \in [T -> makers]
      /\ \A t, u \in T : m[t] = m[u] => t = u
      /\ \A t \in T : taken(m[t]) > 0 /\ t.quantity = taken(m[t])
  BY <1>3, <1>4 DEF TradeWith
<1>6. ASSUME NEW t \in T
      PROVE  /\ Ahead(makers, m[t]) \in Nat /\ m[t].remaining \in Nat \ {0}
             /\ t.quantity \in Nat
             /\ t.quantity <= m[t].remaining
             /\ Ahead(makers, m[t]) + t.quantity <= q
  <2>1. m[t] \in makers /\ taken(m[t]) > 0 /\ t.quantity = taken(m[t])
    BY <1>5
  <2> QED
    BY <2>1, TakenBound
<1> HIDE DEF T, makers, taken
<1>7. Volume(T) \in Nat /\ Volume(T) = NatSum(size(T), T) /\ size(T) \in [T -> Int]
  <2>1. size(T) \in [T -> Int]
    BY <1>2 DEF Trade
  <2> QED
    BY <1>2, <2>1, NatSumType DEF Volume
<1>8. Volume(T) <= Offered(makers)
  <2>1. PICK f, g : f = size(T) /\ g = offer(makers)
    OBVIOUS
  <2>2. f \in [T -> Int] /\ g \in [makers -> Int] /\ \A t \in T : f[t] <= g[m[t]]
    BY <1>1, <1>5, <1>6, <1>7, <2>1
  <2>3. NatSum(f, T) <= NatSum(g, makers)
    BY <1>1, <1>5, <2>2, NatSumInjection
  <2> QED
    BY <1>7, <2>1, <2>3 DEF Offered
<1>9. Volume(T) <= q
  <2>1. CASE T = {}
    <3>1. Tokens(size({}), {}) = {}
      BY DEF Tokens
    <3>2. Volume(T) = 0
      BY <2>1, <3>1, FS_EmptySet DEF Volume, NatSum
    <3> QED
      BY <3>2
  <2>2. CASE T # {}
    <3>1. PICK a : a = [t \in T |-> Ahead(makers, m[t])]
      OBVIOUS
    <3>2. a \in [T -> Nat]
      BY <1>6, <3>1
    <3>3. PICK z \in T : \A t \in T : a[t] <= a[z]
      BY <1>2, <2>2, <3>2, FiniteMaximum
    <3> DEFINE R == T \ {z}
               P == {e \in makers : Before(e, m[z])}
    <3>4. ASSUME NEW t \in R PROVE m[t] \in P
      <4>1. m[t] # m[z] /\ m[t] \in makers /\ m[z] \in makers
        BY <1>5, <3>4
      <4>2. Before(m[t], m[z]) \/ Before(m[z], m[t])
        BY <4>1, BeforeOrder DEF makers
      <4>3. CASE Before(m[z], m[t])
        <5>1. Ahead(makers, m[z]) + m[z].remaining <= Ahead(makers, m[t])
          BY <4>1, <4>3, AheadGrows DEF makers
        <5>2. Ahead(makers, m[t]) <= Ahead(makers, m[z])
          BY <3>1, <3>3, <3>4
        <5>3. Ahead(makers, m[t]) \in Nat /\ Ahead(makers, m[z]) \in Nat
              /\ m[z].remaining \in Nat \ {0}
          BY <1>6, <3>4
        <5> QED
          BY <5>1, <5>2, <5>3
      <4> QED
        BY <4>1, <4>2, <4>3
    <3>5. PICK f, g, n : f = size(R) /\ g = offer(P) /\ n = [t \in R |-> m[t]]
      OBVIOUS
    <3>6. /\ IsFiniteSet(P) /\ P \subseteq makers
      BY <1>1, FS_Subset
    <3>7. /\ f \in [R -> Int] /\ g \in [P -> Int] /\ n \in [R -> P]
          /\ \A t, u \in R : n[t] = n[u] => t = u
          /\ \A t \in R : f[t] <= g[n[t]]
      <4>1. n \in [R -> P]
        BY <3>4, <3>5
      <4>2. f \in [R -> Int] /\ g \in [P -> Int]
        BY <1>1, <1>6, <3>5, <3>6
      <4>3. \A t, u \in R : n[t] = n[u] => t = u
        BY <1>5, <3>5
      <4>4. \A t \in R : f[t] <= g[n[t]]
        BY <1>6, <3>4, <3>5
      <4> QED
        BY <4>1, <4>2, <4>3, <4>4
    <3>8. NatSum(f, R) <= NatSum(g, P)
      <4> HIDE DEF R, P
      <4> QED
        BY <3>6, <3>7, NatSumInjection
    <3>9. NatSum(g, P) = Ahead(makers, m[z])
      BY <3>5 DEF Ahead, Offered
    <3>10. Volume(T) = NatSum(f, R) + z.quantity
      <4>1. T = R \cup {z} /\ z \notin R /\ IsFiniteSet(R)
        BY <1>2, <3>3, FS_RemoveElement
      <4>2. PICK h : h = size(R \cup {z})
        OBVIOUS
      <4>3. f \in [R -> Nat] /\ h \in [R \cup {z} -> Nat] /\ h[z] = z.quantity
            /\ \A t \in R : h[t] = f[t]
        BY <1>6, <3>3, <3>5, <4>1, <4>2
      <4> HIDE DEF R
      <4>4. NatSum(h, R \cup {z}) = NatSum(f, R) + h[z]
        BY <4>1, <4>3, NatSumInsert
      <4> QED
        BY <1>7, <4>1, <4>2, <4>3, <4>4
    <3>11. /\ Ahead(makers, m[z]) \in Nat /\ z.quantity \in Nat
           /\ Ahead(makers, m[z]) + z.quantity <= q
      BY <1>6, <3>3
    <3>12. NatSum(f, R) \in Nat
      BY <1>2, <3>7, FS_RemoveElement, NatSumType
    <3> QED
      BY <3>8, <3>9, <3>10, <3>11, <3>12
  <2> QED
    BY <2>1, <2>2
<1>10. Left(bk, taker) = q - Least(q, Offered(makers)) /\ Offered(makers) \in Nat
  BY <1>1, OfferedType DEF Left, makers
<1> HIDE DEF q
<1> QED
  BY <1>7, <1>8, <1>9, <1>10 DEF Least, T, q
-----------------------------------------------------------------------------
(* What a submit makes of the book *)

\* An order that rests after a submit did so before, or is the taker's rest.
Remains(bk, taker, d, e) ==
    /\ d \in bk /\ e.id = d.id /\ e.user = d.user /\ e.side = d.side
    /\ e.price = d.price /\ e.sequence = d.sequence /\ e.remaining \in Nat
    /\ d \notin Makers(bk, taker) => e.remaining = d.remaining
    /\ d \in Makers(bk, taker) =>
          e.remaining = d.remaining - Taken(Makers(bk, taker), taker.remaining, d)

Rest(bk, taker, e) ==
    /\ e.id = taker.id /\ e.user = taker.user /\ e.side = taker.side
    /\ e.price = taker.price /\ e.sequence = taker.sequence
    /\ e.remaining = Left(bk, taker)

LEMMA MatchedEntries ==
    ASSUME NEW bk, Distinct(bk), NEW taker \in BookEntry, taker.remaining \in Nat
    PROVE  \A e \in Matched(bk, taker) :
              (\E d : Remains(bk, taker, d, e)) \/ Rest(bk, taker, e)
<1> DEFINE makers == Makers(bk, taker)
           taken(e) == Taken(makers, taker.remaining, e)
           left == Left(bk, taker)
<1>1. makers \subseteq bk /\ IsFiniteSet(makers) /\ makers \subseteq BookEntry
  BY MakersType DEF Distinct
<1>2. ASSUME NEW e \in Matched(bk, taker)
      PROVE  (\E d : Remains(bk, taker, d, e)) \/ Rest(bk, taker, e)
  <2>1. \/ e \in bk \ makers
        \/ \E d \in makers : /\ taken(d) < d.remaining
                             /\ e = [d EXCEPT !.remaining = d.remaining - taken(d)]
        \/ e = [taker EXCEPT !.remaining = left]
    BY <1>2 DEF Matched, AfterFills
  <2>2. CASE e \in bk \ makers
    <3>1. Remains(bk, taker, e, e)
      BY <2>2 DEF Remains, Distinct, BookEntry
    <3> QED
      BY <3>1
  <2>3. ASSUME NEW d \in makers, taken(d) < d.remaining,
               e = [d EXCEPT !.remaining = d.remaining - taken(d)]
        PROVE  Remains(bk, taker, d, e)
    <3>1. d \in BookEntry /\ taken(d) \in Int /\ d.remaining \in Int /\ d \in bk
      BY <1>1, TakenType DEF BookEntry
    <3>2. d.remaining - taken(d) \in Nat
      BY <2>3, <3>1
    <3>3. /\ e.id = d.id /\ e.user = d.user /\ e.side = d.side
          /\ e.price = d.price /\ e.sequence = d.sequence
          /\ e.remaining = d.remaining - taken(d)
      BY <2>3, <3>1 DEF BookEntry
    <3> QED
      BY <3>1, <3>2, <3>3 DEF Remains
  <2>4. CASE e = [taker EXCEPT !.remaining = left]
    BY <2>4 DEF Rest, BookEntry
  <2> HIDE DEF makers, taken, left
  <2> QED
    BY <2>1, <2>2, <2>3, <2>4
<1> QED
  BY <1>2

\* The taker comes last, and is new.
Newcomer(bk, taker) ==
    /\ taker \in BookEntry /\ taker.remaining \in Nat
    /\ \A e \in bk : e.id # taker.id /\ e.sequence < taker.sequence

LEMMA MatchedDistinct ==
    ASSUME NEW bk, Distinct(bk), NEW taker, Newcomer(bk, taker)
    PROVE  Distinct(Matched(bk, taker))
<1> DEFINE makers == Makers(bk, taker)
           taken(e) == Taken(makers, taker.remaining, e)
           reduced(d) == [d EXCEPT !.remaining = d.remaining - taken(d)]
           rest == [taker EXCEPT !.remaining = Left(bk, taker)]
           M == Matched(bk, taker)
<1>1. taker \in BookEntry /\ taker.remaining \in Nat
  BY DEF Newcomer
<1>2. M \subseteq BookEntry /\ IsFiniteSet(M)
  BY <1>1, MatchedType DEF Distinct
<1>3. \A e \in M : (\E d : Remains(bk, taker, d, e)) \/ Rest(bk, taker, e)
  BY <1>1, MatchedEntries
<1>4. Left(bk, taker) \in Nat
  BY <1>1, TakesWhatItWants
<1>5. \A e \in M : e.remaining >= 0
  BY <1>3, <1>4 DEF Remains, Rest
<1>6. \A e \in M : e \in bk \ makers \/ (\E d \in makers : e = reduced(d)) \/ e = rest
  BY DEF Matched, AfterFills
<1>7. makers \subseteq bk /\ bk \subseteq BookEntry
  BY DEF Makers, Reachable, Distinct
<1>8. ASSUME NEW e \in M
      PROVE  \/ e \in bk \ makers
             \/ \E d \in makers : e = reduced(d) /\ e.id = d.id /\ e.sequence = d.sequence
             \/ e = rest /\ e.id = taker.id /\ e.sequence = taker.sequence
  <2>1. CASE e \in bk \ makers
    BY <2>1
  <2>2. ASSUME NEW d \in makers, e = reduced(d)
        PROVE  e.id = d.id /\ e.sequence = d.sequence
    BY <1>7, <2>2 DEF BookEntry
  <2>3. CASE e = rest
    BY <1>1, <2>3 DEF BookEntry
  <2> HIDE DEF makers, reduced, rest
  <2> QED
    BY <1>6, <2>1, <2>2, <2>3
<1>9. \A d \in bk : d.id # taker.id /\ d.sequence # taker.sequence
  BY <1>1, <1>7 DEF Newcomer, BookEntry
<1>10. \A d, e \in bk : d.id = e.id \/ d.sequence = e.sequence => d = e
  BY DEF Distinct
<1> HIDE DEF makers, reduced, rest, M
<1>11. ASSUME NEW d \in M, NEW e \in M, d.id = e.id \/ d.sequence = e.sequence
       PROVE  d = e
  <2>1. CASE d \in bk \ makers
    BY <1>7, <1>8, <1>9, <1>10, <1>11, <2>1
  <2>2. ASSUME NEW c \in makers, d = reduced(c), d.id = c.id, d.sequence = c.sequence
        PROVE  d = e
    BY <1>7, <1>8, <1>9, <1>10, <1>11, <2>2
  <2>3. CASE d = rest /\ d.id = taker.id /\ d.sequence = taker.sequence
    BY <1>7, <1>8, <1>9, <1>10, <1>11, <2>3
  <2> QED
    BY <1>8, <2>1, <2>2, <2>3
<1> QED
  BY <1>2, <1>5, <1>11 DEF Distinct, M

\* What a maker gives is what the book offers less of it.
LEMMA MakerGives ==
    ASSUME NEW bk, Distinct(bk), NEW taker, Newcomer(bk, taker), NEW x, x # taker.id
    PROVE  OfferIn(Matched(bk, taker), x) + VolumeOf(x, TradesWith(bk, taker))
              <= OfferIn(bk, x)
<1> DEFINE makers == Makers(bk, taker)
           taken(e) == Taken(makers, taker.remaining, e)
           T == TradesWith(bk, taker)
           M == Matched(bk, taker)
<1>1. taker \in BookEntry /\ taker.remaining \in Nat /\ makers \subseteq bk
      /\ IsFiniteSet(makers) /\ makers \subseteq BookEntry
  BY MakersType DEF Newcomer, Distinct
<1>2. \A e \in M : (\E d : Remains(bk, taker, d, e)) \/ Rest(bk, taker, e)
  BY <1>1, MatchedEntries
<1>3. \A t \in T : t.taker = taker.id /\ \E e : TradeWith(bk, taker, e, t) /\ t.maker = e.id
  BY <1>1, TradesWithMakers DEF TradeWith
<1>4. T \subseteq Trade
  BY <1>1, TradesWithMakers
<1>5. Distinct(M)
  BY MatchedDistinct
<1>6. \A e \in M : e.id = x => \E d : Remains(bk, taker, d, e)
  BY <1>2 DEF Rest
<1>7. CASE \A d \in bk : d.id # x
  <2>1. \A e \in M : e.id # x
    BY <1>6, <1>7 DEF Remains
  <2>2. \A t \in T : t.maker # x /\ t.taker # x
    BY <1>1, <1>3, <1>7 DEF TradeWith
  <2>3. OfferIn(bk, x) = 0 /\ OfferIn(M, x) = 0 /\ VolumeOf(x, T) = 0
    BY <1>7, <2>1, <2>2, OfferNone, VolumeNone
  <2> QED
    BY <2>3
<1>8. ASSUME NEW d \in bk, d.id = x
      PROVE  OfferIn(M, x) + VolumeOf(x, T) <= OfferIn(bk, x)
  <2>1. d.remaining \in Nat /\ \A e \in bk : e.id = x => e = d
    BY <1>8 DEF Distinct, BookEntry
  <2>2. OfferIn(bk, x) = d.remaining
    BY <1>8, <2>1, OfferOne
  <2>3. \A e \in M : e.id = x => Remains(bk, taker, d, e)
    BY <1>6, <2>1 DEF Remains
  <2>4. OfferIn(M, x) = 0 \/ \E e : Remains(bk, taker, d, e) /\ OfferIn(M, x) = e.remaining
    <3>1. CASE \A e \in M : e.id # x
      BY <3>1, OfferNone
    <3>2. ASSUME NEW e \in M, e.id = x
          PROVE  Remains(bk, taker, d, e) /\ OfferIn(M, x) = e.remaining
      <4>1. Remains(bk, taker, d, e)
        BY <2>3, <3>2
      <4>2. e.remaining \in Nat /\ \A f \in M : f.id = x => f = e
        BY <1>5, <3>2, <4>1 DEF Remains, Distinct
      <4> QED
        BY <3>2, <4>1, <4>2, OfferOne
    <3> QED
      BY <3>1, <3>2
  <2>5. CASE d \notin makers \/ ~(taken(d) > 0)
    <3>1. \A t \in T : t.maker # x /\ t.taker # x
      BY <1>1, <1>3, <2>1, <2>5 DEF TradeWith
    <3>2. VolumeOf(x, T) = 0
      BY <3>1, VolumeNone
    <3>3. d \in makers => taken(d) >= 0
      <4>1. ASSUME d \in makers PROVE taken(d) >= 0
        <5>1. Ahead(makers, d) \in Nat
          BY <1>1, <4>1, TakenType
        <5> QED
          BY <1>1, <2>1, <5>1 DEF Taken, Least
      <4> QED
        BY <4>1
    <3>4. \A e : Remains(bk, taker, d, e) => e.remaining <= d.remaining
      <4>1. ASSUME NEW e, Remains(bk, taker, d, e) PROVE e.remaining <= d.remaining
        <5>1. CASE d \in makers
          <6>1. taken(d) \in Int /\ taken(d) >= 0 /\ e.remaining = d.remaining - taken(d)
            BY <1>1, <3>3, <4>1, <5>1, TakenType DEF Remains
          <6> QED
            BY <2>1, <6>1
        <5>2. CASE d \notin makers
          BY <2>1, <4>1, <5>2 DEF Remains
        <5> QED
          BY <5>1, <5>2
      <4> QED
        BY <4>1
    <3>5. OfferIn(M, x) <= d.remaining /\ OfferIn(M, x) \in Nat
      BY <2>1, <2>4, <3>4 DEF Remains
    <3> QED
      BY <2>1, <2>2, <3>2, <3>5
  <2>6. CASE d \in makers /\ taken(d) > 0
    <3>1. taken(d) \in Nat /\ taken(d) <= d.remaining
      BY <1>1, <2>6, TakenBound
    <3>2. PICK t : t = [maker |-> d.id, taker |-> taker.id, price |-> d.price,
                        quantity |-> taken(d)]
      OBVIOUS
    <3>3. t.maker = x /\ t.quantity = taken(d)
      BY <1>8, <3>2
    <3>4. TradeWith(bk, taker, d, t)
      BY <2>6, <3>2 DEF TradeWith
    <3>5. t \in T
      BY <1>1, <3>4, TradesWithMakers
    <3>6. \A u \in T : u.maker = x => u = t
      BY <1>1, <1>3, <2>1, <3>4 DEF TradeWith
    <3>7. TradesOf(x, T) = TradesOf(x, {t})
      BY <1>3, <3>3, <3>5, <3>6 DEF TradesOf
    <3>8. VolumeOf(x, T) = VolumeOf(x, {t}) /\ t \in Trade
      BY <1>4, <3>5, <3>7 DEF VolumeOf
    <3>9. VolumeOf(x, T) = taken(d)
      BY <3>3, <3>8, VolumeOne DEF Share
    <3>10. OfferIn(M, x) = 0 \/ OfferIn(M, x) = d.remaining - taken(d)
      BY <2>4, <2>6 DEF Remains
    <3> HIDE DEF taken, T, M
    <3> QED
      BY <2>1, <2>2, <3>1, <3>9, <3>10
  <2> QED
    BY <2>5, <2>6
<1> QED
  BY <1>7, <1>8

\* What the taker has of its trades, and leaves on the book, is what it wanted.
LEMMA TakerGets ==
    ASSUME NEW bk, Distinct(bk), NEW taker, Newcomer(bk, taker)
    PROVE  OfferIn(Matched(bk, taker), taker.id) + VolumeOf(taker.id, TradesWith(bk, taker))
              <= taker.remaining
<1> DEFINE x == taker.id
           T == TradesWith(bk, taker)
           M == Matched(bk, taker)
<1>1. taker \in BookEntry /\ taker.remaining \in Nat
  BY DEF Newcomer
<1>2. \A t \in T : t.taker = x
  BY <1>1, TradesWithMakers DEF TradeWith
<1>3. TradesOf(x, T) = T
  BY <1>2 DEF TradesOf
<1>4. VolumeOf(x, T) + Left(bk, taker) <= taker.remaining
      /\ VolumeOf(x, T) \in Nat /\ Left(bk, taker) \in Nat
  BY <1>1, <1>3, TakesWhatItWants DEF VolumeOf
<1>5. \A e \in M : e.id = x => e.remaining = Left(bk, taker)
  <2>1. \A e \in M : (\E d : Remains(bk, taker, d, e)) \/ Rest(bk, taker, e)
    BY <1>1, MatchedEntries
  <2> QED
    BY <2>1 DEF Remains, Rest, Newcomer
<1>6. Distinct(M)
  BY MatchedDistinct
<1>7. OfferIn(M, x) = 0 \/ OfferIn(M, x) = Left(bk, taker)
  <2>1. CASE \A e \in M : e.id # x
    BY <2>1, OfferNone
  <2>2. ASSUME NEW e \in M, e.id = x PROVE OfferIn(M, x) = Left(bk, taker)
    <3>1. e.remaining = Left(bk, taker) /\ e.remaining \in Nat
          /\ \A f \in M : f.id = x => f = e
      BY <1>4, <1>5, <1>6, <2>2 DEF Distinct
    <3> HIDE DEF M, x
    <3>2. OfferIn(M, x) = e.remaining
      BY <2>2, <3>1, OfferOne
    <3> QED
      BY <3>1, <3>2
  <2> QED
    BY <2>1, <2>2
<1> HIDE DEF T, M
<1> QED
  BY <1>1, <1>4, <1>7 DEF T, M
-----------------------------------------------------------------------------
(* A settlement and its fills *)

LEMMA CallTypes ==
    ASSUME Inv, NEW o \in Orders
    PROVE  /\ o \in Calls /\ o \notin CancelCalls
           /\ tx[o] \in Tx /\ create[o] \in Handlers /\ order[o] \in OrderRow
           /\ tx[o].trades \subseteq Trade /\ create[o].fills \subseteq Fill
           /\ \A x \in Orders : tx[o].order[x] \in OrderRow /\ OrderSeen(o, x) \in OrderRow
           /\ create[o].seenOrder \in OrderRow
<1>1. o \in Calls /\ o \notin CancelCalls
  BY ExchangeAssumption DEF Calls
<1>2. tx[o] \in Tx /\ create[o] \in Handlers /\ order[o] \in OrderRow
  BY <1>1 DEF Inv, TypeInv, TypeOK
<1>3. \A x \in Orders : OrderSeen(o, x) \in OrderRow
  BY <1>1, SeenType DEF Inv, TypeInv
<1>4. tx[o].trades \subseteq Trade /\ \A x \in Orders : tx[o].order[x] \in OrderRow
  BY <1>2 DEF Tx
<1>5. create[o].fills \subseteq Fill /\ create[o].seenOrder \in OrderRow
  BY <1>2 DEF Handlers
<1> QED
  BY <1>1, <1>2, <1>3, <1>4, <1>5

LEMMA FirstFill ==
    ASSUME Inv, FillsInv, NEW o \in Orders,
           create[o].pc \in {"buyer", "seller", "maker", "taker"}
    PROVE  /\ NextFill(o) \in create[o].fills
           /\ NextFill(o).maker \in Orders /\ NextFill(o).maker # o
           /\ NextFill(o).maker \in Placed /\ o \in Placed
           /\ NextFill(o).price \in Nat \ {0} /\ NextFill(o).quantity \in Nat \ {0}
           /\ TradeOf(o, NextFill(o)) \in Trade
           /\ \A f \in create[o].fills : f.maker = NextFill(o).maker => f = NextFill(o)
<1>1. create[o].fills # {} /\ TypeOK
  BY DEF Inv, TypeInv, AtFill
<1>2. /\ NextFill(o) \in create[o].fills /\ NextFill(o).maker \in Orders
      /\ NextFill(o).price \in Nat /\ NextFill(o).quantity \in Nat \ {0}
  BY <1>1, NextFillType
<1>3. FillsOf(o)
  BY DEF FillsInv, SettlementsOK
<1>4. /\ NextFill(o).maker # o /\ NextFill(o).maker \in Placed /\ NextFill(o).price > 0
      /\ \A f \in create[o].fills : f.maker = NextFill(o).maker => f = NextFill(o)
  BY <1>2, <1>3 DEF FillsOf
<1>5. TradeOf(o, NextFill(o)) \in Trade
  BY <1>2 DEF TradeOf, Trade
<1>6. o \in Placed
  BY DEF FillsInv, RowsOK, SettlingPcs
<1> QED
  BY <1>2, <1>4, <1>5, <1>6

\* A TRADE_FILL debits what the two sides reserved, and so locks their accounts.
LEMMA LegLocks ==
    ASSUME Inv, FillsInv, NEW o \in Orders, create[o].pc = "seller"
    PROVE  /\ <<"account", HoldAccount(o)>> \in Needs(o)
           /\ <<"account", HoldAccount(NextFill(o).maker)>> \in Needs(o)
<1> DEFINE f == NextFill(o)
           b == Buyer(o)
           s == Seller(o)
           quote == f.price * f.quantity
           legs == Legs(o)
<1>1. /\ f \in create[o].fills /\ f.maker \in Orders
      /\ f.price \in Nat \ {0} /\ f.quantity \in Nat \ {0}
  BY FirstFill
<1>2. /\ request[f.maker].user # request[o].user
      /\ request[f.maker].side # request[o].side
  BY <1>1 DEF FillsInv, SettlementsOK, FillsOf
<1>3. /\ request[o].user \in Users /\ request[f.maker].user \in Users
      /\ request[o].side \in Sides /\ request[f.maker].side \in Sides
      /\ FeeRevenue \notin Users
  BY <1>1, RequestType, ExchangeAssumption DEF Inv, TypeInv
<1>4. /\ request[b].side = "BUY" /\ request[s].side = "SELL"
      /\ {b, s} = {o, f.maker} /\ request[b].user # request[s].user
      /\ request[b].user \in Users /\ request[s].user \in Users
      /\ request[b].user # FeeRevenue /\ request[s].user # FeeRevenue
  BY <1>1, <1>2, <1>3 DEF Buyer, Seller, Sides
<1>5. /\ HoldAccount(b) = <<request[b].user, "quote">>
      /\ HoldAccount(s) = <<request[s].user, "base">>
      /\ HoldAccount(b) \in Accounts /\ HoldAccount(s) \in Accounts
  BY <1>4 DEF HoldAccount, Accounts, Assets
<1>6. quote \in Nat \ {0}
  <2>1. \A m, n \in Nat \ {0} : m * n \in Nat \ {0}
    OBVIOUS
  <2> QED
    BY <1>1, <2>1
<1> HIDE DEF b, s, quote, f
<1>7. legs[HoldAccount(b)] # 0
  <2> DEFINE a == HoldAccount(b)
             takerBuys == b = o
             feeBase == FeeOf(f.quantity, IF takerBuys THEN TakerFee ELSE MakerFee)
             feeQuote == FeeOf(quote, IF takerBuys THEN MakerFee ELSE TakerFee)
  <2>1. legs[a] = Leg(a, <<request[b].user, "quote">>, -quote)
            + Leg(a, <<request[s].user, "quote">>, quote - feeQuote)
            + Leg(a, <<FeeRevenue, "quote">>, feeQuote)
            + Leg(a, <<request[s].user, "base">>, -f.quantity)
            + Leg(a, <<request[b].user, "base">>, f.quantity - feeBase)
            + Leg(a, <<FeeRevenue, "base">>, feeBase)
    BY <1>5 DEF Legs, b, s, f, quote
  <2>2. /\ Leg(a, <<request[b].user, "quote">>, -quote) = -quote
        /\ Leg(a, <<request[s].user, "quote">>, quote - feeQuote) = 0
        /\ Leg(a, <<FeeRevenue, "quote">>, feeQuote) = 0
        /\ Leg(a, <<request[s].user, "base">>, -f.quantity) = 0
        /\ Leg(a, <<request[b].user, "base">>, f.quantity - feeBase) = 0
        /\ Leg(a, <<FeeRevenue, "base">>, feeBase) = 0
    BY <1>4, <1>5 DEF Leg
  <2> HIDE DEF legs
  <2> QED
    BY <1>6, <2>1, <2>2
<1>8. legs[HoldAccount(s)] # 0
  <2> DEFINE a == HoldAccount(s)
             takerBuys == b = o
             feeBase == FeeOf(f.quantity, IF takerBuys THEN TakerFee ELSE MakerFee)
             feeQuote == FeeOf(quote, IF takerBuys THEN MakerFee ELSE TakerFee)
  <2>1. legs[a] = Leg(a, <<request[b].user, "quote">>, -quote)
            + Leg(a, <<request[s].user, "quote">>, quote - feeQuote)
            + Leg(a, <<FeeRevenue, "quote">>, feeQuote)
            + Leg(a, <<request[s].user, "base">>, -f.quantity)
            + Leg(a, <<request[b].user, "base">>, f.quantity - feeBase)
            + Leg(a, <<FeeRevenue, "base">>, feeBase)
    BY <1>5 DEF Legs, b, s, f, quote
  <2>2. /\ Leg(a, <<request[b].user, "quote">>, -quote) = 0
        /\ Leg(a, <<request[s].user, "quote">>, quote - feeQuote) = 0
        /\ Leg(a, <<FeeRevenue, "quote">>, feeQuote) = 0
        /\ Leg(a, <<request[s].user, "base">>, -f.quantity) = -f.quantity
        /\ Leg(a, <<request[b].user, "base">>, f.quantity - feeBase) = 0
        /\ Leg(a, <<FeeRevenue, "base">>, feeBase) = 0
    BY <1>4, <1>5 DEF Leg
  <2>3. f.quantity \in Nat \ {0}
    BY <1>1 DEF f
  <2> HIDE DEF legs
  <2> QED
    BY <2>1, <2>2, <2>3
<1>9. HoldAccount(b) \in LegAccounts(o) /\ HoldAccount(s) \in LegAccounts(o)
  BY <1>5, <1>7, <1>8 DEF LegAccounts
<1>10. \A a \in LegAccounts(o) : <<"account", a>> \in Needs(o)
  BY DEF Needs, CreateNeeds
<1>11. {HoldAccount(b), HoldAccount(s)} = {HoldAccount(o), HoldAccount(f.maker)}
  BY <1>4
<1> QED
  BY <1>9, <1>10, <1>11 DEF f
-----------------------------------------------------------------------------
(* The trades that are matched and not committed *)

LEMMA UnsettledType ==
    ASSUME Inv, FillsInv, NEW o \in Orders
    PROVE  /\ IsFiniteSet(Unsettled(o)) /\ Unsettled(o) \subseteq Trade
           /\ \A t \in Unsettled(o) : t.taker = o
<1>1. /\ IsFiniteSet(create[o].fills) /\ IsFiniteSet(tx[o].trades)
      /\ \A t \in tx[o].trades : t.taker = o
  BY DEF FillsInv, SettlementsOK, FillsOf, TradesOfCall
<1>2. create[o].fills \subseteq Fill /\ tx[o].trades \subseteq Trade
  BY CallTypes
<1> DEFINE F == {TradeOf(o, f) : f \in create[o].fills}
<1>3. IsFiniteSet(F)
  <2> DEFINE g == [f \in create[o].fills |-> TradeOf(o, f)]
  <2>1. DOMAIN g = create[o].fills /\ \A y \in F : \E f \in create[o].fills : y = g[f]
    OBVIOUS
  <2> HIDE DEF g, F
  <2> QED
    BY <1>1, <2>1, ImageCount
<1>4. F \subseteq Trade /\ \A t \in F : t.taker = o
  BY <1>2 DEF TradeOf, Trade, Fill
<1> HIDE DEF F
<1>5. Unsettled(o) = F \cup tx[o].trades
  BY DEF Unsettled, F
<1>6. IsFiniteSet(F \cup tx[o].trades)
  BY <1>1, <1>3, FS_Union
<1> QED
  BY <1>1, <1>2, <1>4, <1>5, <1>6

LEMMA MatchingType ==
    ASSUME Inv, FillsInv
    PROVE  IsFiniteSet(Matching) /\ Matching \subseteq Trade
<1> DEFINE all == {Unsettled(q) : q \in Orders}
           g == [q \in Orders |-> Unsettled(q)]
<1>1. DOMAIN g = Orders /\ \A y \in all : \E q \in Orders : y = g[q]
  OBVIOUS
<1>2. \A S \in all : IsFiniteSet(S)
  BY UnsettledType
<1>3. Matching = UNION all
  BY DEF Matching
<1>4. Matching \subseteq Trade
  BY UnsettledType DEF Matching
<1> HIDE DEF all, g
<1>5. IsFiniteSet(all)
  BY <1>1, ExchangeAssumption, ImageCount
<1> QED
  BY <1>2, <1>3, <1>4, <1>5, FS_UNION

\* What transactions and settlements do not lose is not matched anew.
LEMMA MatchingShrinks ==
    ASSUME \A o \in Orders : /\ create'[o].fills \subseteq create[o].fills
                             /\ tx'[o].trades \subseteq Unsettled(o)
    PROVE  Matching' \subseteq Matching
BY DEF Matching, Unsettled, TradeOf
-----------------------------------------------------------------------------
(* The engine's side of a step that submits no order and fills none *)

\* The calls that have not reached the engine.
Unsubmitted == {"new", "placing", "placed"}

LEMMA EngineShrinks ==
    ASSUME Inv, FillsInv, UNCHANGED <<request, arrivals>>, book' \subseteq book,
           Matching' \subseteq Matching, \A x \in Placed : x \in Placed',
           \A x \in Orders : order'[x].remaining \in Int
                             /\ order'[x].remaining >= order[x].remaining,
           \A x \in Orders : create'[x].pc \in Unsubmitted => create[x].pc \in Unsubmitted,
           \A x \in Orders : create'[x].pc = "placed" =>
                                order'[x].remaining = request[x].quantity
    PROVE  BookOK' /\ UnsubmittedOK' /\ EngineWithinOrders'
<1>1. BookOK'
  BY DEF FillsInv, BookOK, EntryOf
<1>2. UnsubmittedOK'
  BY DEF FillsInv, UnsubmittedOK, Unsubmitted
<1>3. ASSUME NEW x \in Orders PROVE InEngine(x)' <= order'[x].remaining
  <2>1. VolumeOf(x, Matching') <= VolumeOf(x, Matching)
    BY MatchingType, VolumeLess
  <2>2. OfferIn(book', x) <= OfferIn(book, x)
    <3>1. CASE \A e \in book' : e.id # x
      <4>1. OfferIn(book', x) = 0
        BY <3>1, OfferNone
      <4>2. OfferIn(book, x) \in Nat
        BY OfferType DEF Inv, TypeInv, TypeOK
      <4> QED
        BY <4>1, <4>2
    <3>2. ASSUME NEW e \in book', e.id = x PROVE OfferIn(book', x) <= OfferIn(book, x)
      <4>1. e \in book /\ e.remaining \in Nat /\ \A d \in book : d.id = x => d = e
        BY <3>2 DEF FillsInv, BookOK, EntryOf, Inv, TypeInv, TypeOK, BookEntry
      <4>2. OfferIn(book, x) = e.remaining /\ OfferIn(book', x) = e.remaining
        BY <3>2, <4>1, OfferOne
      <4> QED
        BY <4>1, <4>2
    <3> QED
      BY <3>1, <3>2
  <2>3. OfferIn(book, x) + VolumeOf(x, Matching) <= order[x].remaining
    BY DEF FillsInv, EngineWithinOrders, InEngine, OfferIn, VolumeOf, Matching
  <2>4. /\ OfferIn(book, x) \in Nat /\ OfferIn(book', x) \in Nat
        /\ VolumeOf(x, Matching) \in Nat /\ VolumeOf(x, Matching') \in Nat
        /\ order[x].remaining \in Int
    <3>1. IsFiniteSet(Matching') /\ Matching' \subseteq Trade
      BY MatchingType, FS_Subset
    <3>2. IsFiniteSet(book') /\ book' \subseteq BookEntry
      BY FS_Subset DEF Inv, TypeInv, TypeOK
    <3> QED
      BY <3>1, <3>2, OfferType, MatchingType, VolumeType DEF Inv, TypeInv, TypeOK, OrderRow
  <2>5. InEngine(x)' = OfferIn(book', x) + VolumeOf(x, Matching')
    BY DEF InEngine, OfferIn, VolumeOf, Matching
  <2> QED
    <3>1. order'[x].remaining \in Int /\ order'[x].remaining >= order[x].remaining
      OBVIOUS
    <3> QED
      BY <2>1, <2>2, <2>3, <2>4, <2>5, <3>1
<1> QED
  BY <1>1, <1>2, <1>3 DEF EngineWithinOrders
-----------------------------------------------------------------------------
(* A block of a settlement *)

LEMMA BlockFills ==
    ASSUME Inv, FillsInv, NEW o \in Orders, Block(o)
    PROVE  FillsOf(o)' /\ TradesOfCall(o)' /\ create'[o].pc \in SettlingPcs
           /\ create[o].pc \in SettlingPcs
           /\ create'[o].fills \subseteq create[o].fills
           /\ tx'[o].trades \subseteq Unsettled(o)
<1>1. Alone(o) /\ Effect(o)
  BY Blocks
<1>2. UNCHANGED <<order, request>> /\ tx'[o].rows = tx[o].rows \cup Needs(o)
  BY <1>1 DEF Alone, db, inputs
<1>3. FillsOf(o) /\ TradesOfCall(o)
  BY DEF FillsInv, SettlementsOK
<1>4. create[o].pc \in {"seller", "maker", "taker"} => NextFill(o) \in create[o].fills
  BY FirstFill
<1>5. /\ create'[o].fills \subseteq create[o].fills /\ create'[o].pc \in SettlingPcs
      /\ create[o].pc \in SettlingPcs
  BY <1>1 DEF Effect, Moves, SettlingPcs
<1>6. tx'[o].trades \in {tx[o].trades, tx[o].trades \cup {TradeOf(o, NextFill(o))}}
  BY <1>1 DEF Effect, KeepsTrades
<1>7. tx'[o].trades \subseteq Unsettled(o)
  BY <1>1, <1>4 DEF Effect, Moves, KeepsTrades, Unsettled
<1>8. IsFiniteSet(create'[o].fills) /\ IsFiniteSet(tx'[o].trades)
  BY <1>3, <1>5, <1>6, FS_Subset, FS_AddElement DEF FillsOf
<1>9. FillsOf(o)'
  BY <1>2, <1>3, <1>5, <1>8 DEF FillsOf, Placed
<1>10. create'[o].fills = create[o].fills => NextFill(o)' = NextFill(o)
  BY DEF NextFill
<1>11. \A t \in tx[o].trades :
          /\ t.taker = o /\ t.maker # o
          /\ <<"account", HoldAccount(o)>> \in tx'[o].rows
          /\ <<"account", HoldAccount(t.maker)>> \in tx'[o].rows
  BY <1>2, <1>3 DEF TradesOfCall
<1>12. \A f : TradeOf(o, f)' = TradeOf(o, f)
  BY DEF TradeOf
<1>13. \A x : HoldAccount(x)' = HoldAccount(x)
  BY <1>2 DEF HoldAccount
<1>14. TradesOfCall(o)'
  <2>1. CASE Moves(o, "seller", "maker")
    <3>1. /\ tx'[o].trades = tx[o].trades \cup {TradeOf(o, NextFill(o))}
          /\ create'[o].fills = create[o].fills /\ create'[o].pc = "maker"
          /\ create[o].pc = "seller"
      BY <1>1, <2>1 DEF Effect, Moves
    <3>2. /\ NextFill(o).maker # o
          /\ \A f \in create[o].fills : f.maker = NextFill(o).maker => f = NextFill(o)
          /\ NextFill(o)' = NextFill(o)
      BY <1>10, <3>1, FirstFill
    <3>3. /\ <<"account", HoldAccount(o)>> \in tx'[o].rows
          /\ <<"account", HoldAccount(NextFill(o).maker)>> \in tx'[o].rows
      BY <1>2, <3>1, LegLocks
    <3>4. \A t \in tx[o].trades : \A f \in create[o].fills : t.maker # f.maker
      BY <1>3, <3>1 DEF TradesOfCall, Working
    <3>5. Working(o)'
      BY <3>1 DEF Working
    <3>6. TradeOf(o, NextFill(o)).taker = o
          /\ TradeOf(o, NextFill(o)).maker = NextFill(o).maker
      BY DEF TradeOf
    <3> QED
      BY <1>11, <1>12, <1>13, <3>1, <3>2, <3>3, <3>4, <3>5, <3>6 DEF TradesOfCall
  <2>2. CASE Moves(o, "maker", "taker")
    <3>1. /\ tx'[o].trades = tx[o].trades /\ create'[o].fills = create[o].fills
          /\ NextFill(o)' = NextFill(o) /\ Working(o) /\ Working(o)'
      BY <1>1, <1>10, <2>2 DEF Effect, Moves, KeepsTrades, Working
    <3> QED
      BY <1>3, <1>11, <1>12, <1>13, <3>1 DEF TradesOfCall
  <2>3. CASE create[o].pc = "taker" /\ create'[o].pc = "fill"
    <3>1. /\ tx'[o].trades = tx[o].trades
          /\ create'[o].fills = create[o].fills \ {NextFill(o)} /\ ~Working(o)'
      BY <1>1, <2>3 DEF Effect, Moves, KeepsTrades, Working
    <3>2. \A f \in create[o].fills : f.maker = NextFill(o).maker => f = NextFill(o)
      BY <2>3, FirstFill
    <3>3. ASSUME NEW t \in tx[o].trades, NEW f \in create'[o].fills, t.maker = f.maker
          PROVE  FALSE
      <4>1. t = TradeOf(o, NextFill(o)) /\ f \in create[o].fills
        BY <1>3, <3>1, <3>3 DEF TradesOfCall
      <4>2. TradeOf(o, NextFill(o)).maker = NextFill(o).maker
        BY DEF TradeOf
      <4>3. f.maker = NextFill(o).maker
        BY <3>3, <4>1, <4>2
      <4> QED
        BY <3>1, <3>2, <4>1, <4>3
    <3> QED
      BY <1>11, <1>13, <3>1, <3>3 DEF TradesOfCall
  <2>4. CASE /\ create[o].pc \notin {"maker", "taker"} /\ create'[o].pc \notin {"maker", "taker"}
             /\ tx'[o].trades = tx[o].trades /\ create'[o].fills = create[o].fills
    BY <1>3, <1>11, <1>13, <2>4 DEF TradesOfCall, Working
  <2> QED
    BY <1>1, <2>1, <2>2, <2>3, <2>4 DEF Effect, Moves, KeepsTrades
<1> QED
  BY <1>5, <1>7, <1>9, <1>14

\* A row that a transaction sees was created when the committed row was.
LEMMA SeenCreated ==
    ASSUME WritesOK, NEW p \in Calls, NEW x \in Orders
    PROVE  OrderSeen(p, x).created = order[x].created
BY DEF WritesOK, OrderSeen

\* What applyFillToOrder writes.
LEMMA FilledRow ==
    ASSUME Inv, FillsInv, NEW o \in Orders, NEW x \in Orders, Agrees(o, x),
           create[o].pc \in {"maker", "taker"}
    PROVE  /\ Filled(o) \in OrderRow /\ Filled(o) # NoOrder /\ Filled(o).status # "NONE"
           /\ Filled(o).filled = OrderSeen(o, x).filled + NextFill(o).quantity
           /\ Filled(o).remaining = OrderSeen(o, x).remaining - NextFill(o).quantity
           /\ Filled(o).created = order[x].created
<1>1. create[o].seenOrder \in OrderRow /\ NextFill(o).quantity \in Nat /\ o \in Calls
  BY CallTypes, FirstFill
<1>2. Filled(o) \in OrderRow
  BY <1>1, AppliedType DEF Filled
<1>3. Filled(o).status # "NONE"
  BY <1>1 DEF Filled, Applied, OrderRow
<1>4. Filled(o) # NoOrder
  BY <1>3 DEF NoOrder
<1>5. /\ Filled(o).filled = create[o].seenOrder.filled + NextFill(o).quantity
      /\ Filled(o).remaining = create[o].seenOrder.remaining - NextFill(o).quantity
      /\ Filled(o).created = create[o].seenOrder.created
  BY <1>1 DEF Filled, Applied, OrderRow
<1>6. OrderSeen(o, x).created = order[x].created
  BY <1>1, SeenCreated DEF FillsInv
<1> QED
  BY <1>2, <1>3, <1>4, <1>5, <1>6 DEF Agrees

\* How the row of x, the trades and the fill to be applied to x move together.
LEMMA FollowsStep ==
    ASSUME Inv, FillsInv, NEW o \in Orders, NEW x \in Orders, order'[x] = order[x],
           NEW applied \in Int, NEW traded \in Int,
           /\ OrderSeen(o, x)'.filled = OrderSeen(o, x).filled + applied
           /\ OrderSeen(o, x)'.remaining = OrderSeen(o, x).remaining - applied,
           VolumeOf(x, tx'[o].trades) = VolumeOf(x, tx[o].trades) + traded,
           Pend(o, x)' = Pend(o, x) + traded - applied,
           Pend(o, x) \in Int
    PROVE  Follows(o, x)'
<1>1. /\ OrderSeen(o, x).filled + Pend(o, x) = order[x].filled + VolumeOf(x, tx[o].trades)
      /\ OrderSeen(o, x).filled + OrderSeen(o, x).remaining
            = order[x].filled + order[x].remaining
  BY DEF FillsInv, SettlementsOK, Follows
<1>2. /\ OrderSeen(o, x).filled \in Int /\ OrderSeen(o, x).remaining \in Int
      /\ order[x].filled \in Int /\ order[x].remaining \in Int
  BY CallTypes DEF OrderRow
<1>3. IsFiniteSet(tx[o].trades) /\ tx[o].trades \subseteq Trade
  BY CallTypes DEF FillsInv, SettlementsOK, FillsOf
<1>4. VolumeOf(x, tx[o].trades) \in Int
  BY <1>3, VolumeType
<1>5. Follows(o, x)' <=>
        /\ OrderSeen(o, x)'.filled + Pend(o, x)' = order[x].filled + VolumeOf(x, tx'[o].trades)
        /\ OrderSeen(o, x)'.filled + OrderSeen(o, x)'.remaining
              = order[x].filled + order[x].remaining
  BY DEF Follows, VolumeOf, Volume, TradesOf
<1>6. PICK v, p, w, p2, f, r, f2, r2 :
        /\ v = VolumeOf(x, tx[o].trades) /\ w = VolumeOf(x, tx'[o].trades)
        /\ p = Pend(o, x) /\ p2 = Pend(o, x)'
        /\ f = OrderSeen(o, x).filled /\ r = OrderSeen(o, x).remaining
        /\ f2 = OrderSeen(o, x)'.filled /\ r2 = OrderSeen(o, x)'.remaining
  OBVIOUS
<1>7. /\ f + p = order[x].filled + v /\ f + r = order[x].filled + order[x].remaining
      /\ f2 = f + applied /\ r2 = r - applied /\ w = v + traded /\ p2 = p + traded - applied
      /\ f \in Int /\ r \in Int /\ v \in Int /\ p \in Int
  BY <1>1, <1>2, <1>4, <1>6
<1>8. /\ f2 + p2 = order[x].filled + w
      /\ f2 + r2 = order[x].filled + order[x].remaining
  BY <1>2, <1>7
<1> QED
  BY <1>5, <1>6, <1>8

LEMMA BlockRows ==
    ASSUME Inv, FillsInv, NEW o \in Orders, Block(o)
    PROVE  /\ SeenOK(o)'
           /\ \A x \in Orders : Follows(o, x)'
           /\ \A x \in Orders : tx'[o].order[x] # NoOrder =>
                /\ x \in Placed /\ tx'[o].order[x].status # "NONE"
                /\ tx'[o].order[x].created = order[x].created
<1>1. Alone(o) /\ Effect(o)
  BY Blocks
<1>2. UNCHANGED <<order, request>> /\ o \in Calls
  BY <1>1 DEF Alone, db, inputs, Calls
<1>3. /\ tx[o] \in Tx /\ create[o] \in Handlers
      /\ \A x \in Orders : OrderSeen(o, x) \in OrderRow
      /\ tx[o].order \in [Orders -> OrderRow]
  BY CallTypes DEF Tx
<1>4. \A x \in Orders : tx[o].order[x] # NoOrder =>
                /\ x \in Placed /\ tx[o].order[x].status # "NONE"
                /\ tx[o].order[x].created = order[x].created
  BY <1>2 DEF FillsInv, WritesOK
<1>5. \A x \in Orders : \/ tx'[o].order[x] # NoOrder /\ OrderSeen(o, x)' = tx'[o].order[x]
                        \/ tx'[o].order[x] = NoOrder /\ OrderSeen(o, x)' = order[x]
  BY <1>2 DEF OrderSeen
<1>6. \A x \in Orders : tx'[o].order[x] = tx[o].order[x] => OrderSeen(o, x)' = OrderSeen(o, x)
  BY <1>2 DEF OrderSeen
<1>7. create[o].pc \in {"maker", "taker", "seller"} =>
        /\ NextFill(o).quantity \in Int /\ NextFill(o).maker \in Orders
        /\ NextFill(o).maker # o
        /\ NextFill(o).maker \in Placed /\ o \in Placed
  BY FirstFill
<1>8. create'[o].fills = create[o].fills => NextFill(o)' = NextFill(o)
  BY DEF NextFill
<1>9. SeenOK(o)
  BY DEF FillsInv, SettlementsOK
<1>10. \A x \in Orders : Pend(o, x) \in Int
  BY <1>7 DEF Pend
<1>11. CASE /\ create[o].pc \notin {"maker", "taker"} /\ create'[o].pc \notin {"maker", "taker"}
            /\ KeepsOrders(o) /\ KeepsTrades(o)
  <2>1. SeenOK(o)'
    BY <1>11 DEF SeenOK
  <2>2. ASSUME NEW x \in Orders PROVE Follows(o, x)'
    <3>1. /\ OrderSeen(o, x)'.filled = OrderSeen(o, x).filled + 0
          /\ OrderSeen(o, x)'.remaining = OrderSeen(o, x).remaining - 0
      BY <1>3, <1>6, <1>11 DEF KeepsOrders, OrderRow
    <3>2. VolumeOf(x, tx[o].trades) \in Int
      BY CallTypes, VolumeType DEF FillsInv, SettlementsOK, FillsOf
    <3>3. VolumeOf(x, tx'[o].trades) = VolumeOf(x, tx[o].trades) + 0
      BY <1>11, <3>2 DEF KeepsTrades
    <3>4. Pend(o, x)' = Pend(o, x) + 0 - 0
      BY <1>11 DEF Pend
    <3> QED
      BY <1>2, <1>10, <3>1, <3>3, <3>4, FollowsStep
  <2> QED
    BY <1>4, <1>11, <2>1, <2>2 DEF KeepsOrders
<1>12. CASE /\ Moves(o, "seller", "maker") /\ KeepsOrders(o)
            /\ tx'[o].trades = tx[o].trades \cup {TradeOf(o, NextFill(o))}
            /\ create'[o].seenOrder = OrderSeen(o, NextFill(o).maker)
  <2>1. NextFill(o)' = NextFill(o) /\ create[o].pc = "seller" /\ create'[o].pc = "maker"
    BY <1>8, <1>12 DEF Moves
  <2>2. SeenOK(o)'
    BY <1>6, <1>7, <1>12, <2>1 DEF SeenOK, Agrees, KeepsOrders
  <2>3. ASSUME NEW x \in Orders PROVE Follows(o, x)'
    <3> DEFINE T == TradeOf(o, NextFill(o))
    <3>1. /\ OrderSeen(o, x)'.filled = OrderSeen(o, x).filled + 0
          /\ OrderSeen(o, x)'.remaining = OrderSeen(o, x).remaining - 0
      BY <1>3, <1>6, <1>12 DEF KeepsOrders, OrderRow
    <3>2. IsFiniteSet(tx[o].trades) /\ tx[o].trades \subseteq Trade /\ TradesOfCall(o)
      BY CallTypes DEF FillsInv, SettlementsOK, FillsOf
    <3>3. T \in Trade /\ T.maker = NextFill(o).maker /\ T.taker = o
          /\ T.quantity = NextFill(o).quantity /\ NextFill(o) \in create[o].fills
      BY <2>1, FirstFill DEF TradeOf
    <3>4. T \notin tx[o].trades
      BY <2>1, <3>2, <3>3 DEF TradesOfCall, Working
    <3> HIDE DEF T
    <3>5. VolumeOf(x, tx[o].trades \cup {T}) = VolumeOf(x, tx[o].trades) + Share(x, T)
      BY <3>2, <3>3, <3>4, VolumeAdd
    <3>6. VolumeOf(x, tx'[o].trades) = VolumeOf(x, tx[o].trades) + Share(x, T)
      BY <1>12, <3>5 DEF T
    <3>7. Share(x, T) \in Int /\ Pend(o, x)' = Pend(o, x) + Share(x, T) - 0
      BY <1>7, <2>1, <3>3 DEF Pend, Share
    <3> QED
      BY <1>2, <1>10, <3>1, <3>6, <3>7, FollowsStep
  <2> QED
    BY <1>4, <1>12, <2>2, <2>3 DEF KeepsOrders
<1>13. ASSUME NEW m \in Orders, create[o].pc \in {"maker", "taker"},
              create[o].pc = "maker" => m = NextFill(o).maker /\ create'[o].pc = "taker"
                                        /\ create'[o].fills = create[o].fills,
              create[o].pc = "taker" => m = o /\ create'[o].pc = "fill",
              WritesOrder(o, m, Filled(o)), KeepsTrades(o)
       PROVE  /\ \A x \in Orders : Follows(o, x)'
              /\ \A x \in Orders : tx'[o].order[x] # NoOrder =>
                /\ x \in Placed /\ tx'[o].order[x].status # "NONE"
                /\ tx'[o].order[x].created = order[x].created
  <2>1. Agrees(o, m) /\ m \in Placed
    BY <1>7, <1>9, <1>13 DEF SeenOK
  <2>2. /\ Filled(o) \in OrderRow /\ Filled(o) # NoOrder /\ Filled(o).status # "NONE"
        /\ Filled(o).filled = OrderSeen(o, m).filled + NextFill(o).quantity
        /\ Filled(o).remaining = OrderSeen(o, m).remaining - NextFill(o).quantity
        /\ Filled(o).created = order[m].created
    BY <1>13, <2>1, FilledRow
  <2>3. /\ tx'[o].order[m] = Filled(o)
        /\ \A x \in Orders \ {m} : tx'[o].order[x] = tx[o].order[x]
    BY <1>3, <1>13 DEF WritesOrder
  <2>4. ASSUME NEW x \in Orders PROVE Follows(o, x)'
    <3>1. VolumeOf(x, tx[o].trades) \in Int
      BY CallTypes, VolumeType DEF FillsInv, SettlementsOK, FillsOf
    <3>2. VolumeOf(x, tx'[o].trades) = VolumeOf(x, tx[o].trades) + 0
      BY <1>13, <3>1 DEF KeepsTrades
    <3>3. CASE x = m
      <4>1. OrderSeen(o, x)' = Filled(o)
        BY <1>5, <2>2, <2>3, <3>3
      <4>2. Pend(o, x)' = Pend(o, x) + 0 - NextFill(o).quantity
        BY <1>7, <1>13, <3>3 DEF Pend
      <4>3. /\ OrderSeen(o, x)'.filled = OrderSeen(o, x).filled + NextFill(o).quantity
            /\ OrderSeen(o, x)'.remaining = OrderSeen(o, x).remaining - NextFill(o).quantity
        BY <2>2, <3>3, <4>1
      <4> QED
        BY <1>2, <1>7, <1>10, <1>13, <3>2, <4>2, <4>3, FollowsStep
    <3>4. CASE x # m
      <4>1. OrderSeen(o, x)' = OrderSeen(o, x)
        BY <1>6, <2>3, <3>4
      <4>2. Pend(o, x)' = Pend(o, x) + 0 - 0
        BY <1>7, <1>8, <1>13, <3>4 DEF Pend
      <4>3. /\ OrderSeen(o, x)'.filled = OrderSeen(o, x).filled + 0
            /\ OrderSeen(o, x)'.remaining = OrderSeen(o, x).remaining - 0
        BY <1>3, <4>1 DEF OrderRow
      <4> QED
        BY <1>2, <1>10, <3>2, <4>2, <4>3, FollowsStep
    <3> QED
      BY <3>3, <3>4
  <2>5. ASSUME NEW x \in Orders, tx'[o].order[x] # NoOrder
        PROVE /\ x \in Placed /\ tx'[o].order[x].status # "NONE"
              /\ tx'[o].order[x].created = order[x].created
    BY <1>4, <2>1, <2>2, <2>3, <2>5
  <2> QED
    BY <2>4, <2>5
<1>14. CASE /\ Moves(o, "maker", "taker")
            /\ WritesOrder(o, NextFill(o).maker, Filled(o)) /\ KeepsTrades(o)
            /\ create'[o].seenOrder = OrderSeen(o, o)
  <2>1. create[o].pc = "maker" /\ create'[o].pc = "taker" /\ create'[o].fills = create[o].fills
    BY <1>14 DEF Moves
  <2>2. tx'[o].order[o] = tx[o].order[o]
    BY <1>3, <1>7, <1>14, <2>1 DEF WritesOrder
  <2>3. SeenOK(o)'
    BY <1>6, <1>14, <2>1, <2>2 DEF SeenOK, Agrees
  <2> QED
    BY <1>7, <1>13, <1>14, <2>1, <2>3
<1>15. CASE /\ create[o].pc = "taker" /\ create'[o].pc = "fill"
            /\ WritesOrder(o, o, Filled(o)) /\ KeepsTrades(o)
  <2>1. SeenOK(o)'
    BY <1>15 DEF SeenOK
  <2> QED
    BY <1>13, <1>15, <2>1
<1>16. CASE /\ Moves(o, "remainder", "fill") /\ KeepsTrades(o)
            /\ WritesOrder(o, o, [OrderSeen(o, o) EXCEPT !.status = "CANCELLED"])
  <2> DEFINE row == [OrderSeen(o, o) EXCEPT !.status = "CANCELLED"]
  <2>1. create[o].pc = "remainder" /\ create'[o].pc = "fill"
    BY <1>16 DEF Moves
  <2>2. SeenOK(o)' /\ o \in Placed
    BY <2>1 DEF SeenOK, FillsInv, RowsOK, SettlingPcs
  <2>3. /\ row.filled = OrderSeen(o, o).filled /\ row.remaining = OrderSeen(o, o).remaining
        /\ row.created = OrderSeen(o, o).created /\ row.status = "CANCELLED"
        /\ row # NoOrder
    BY <1>3 DEF OrderRow, NoOrder
  <2>4. /\ tx'[o].order[o] = row
        /\ \A x \in Orders \ {o} : tx'[o].order[x] = tx[o].order[x]
    BY <1>3, <1>16 DEF WritesOrder
  <2> HIDE DEF row
  <2>5. OrderSeen(o, o)' = row /\ \A x \in Orders \ {o} : OrderSeen(o, x)' = OrderSeen(o, x)
    BY <1>5, <1>6, <2>3, <2>4
  <2>6. ASSUME NEW x \in Orders PROVE Follows(o, x)'
    <3>1. /\ OrderSeen(o, x)'.filled = OrderSeen(o, x).filled + 0
          /\ OrderSeen(o, x)'.remaining = OrderSeen(o, x).remaining - 0
      BY <1>3, <2>3, <2>5 DEF OrderRow
    <3>2. VolumeOf(x, tx[o].trades) \in Int
      BY CallTypes, VolumeType DEF FillsInv, SettlementsOK, FillsOf
    <3>3. VolumeOf(x, tx'[o].trades) = VolumeOf(x, tx[o].trades) + 0
      BY <1>16, <3>2 DEF KeepsTrades
    <3>4. Pend(o, x)' = Pend(o, x) + 0 - 0
      BY <2>1 DEF Pend
    <3> QED
      BY <1>2, <1>10, <3>1, <3>3, <3>4, FollowsStep
  <2>7. OrderSeen(o, o).created = order[o].created
    BY <1>2, SeenCreated DEF FillsInv
  <2>8. ASSUME NEW x \in Orders, tx'[o].order[x] # NoOrder
        PROVE /\ x \in Placed /\ tx'[o].order[x].status # "NONE"
              /\ tx'[o].order[x].created = order[x].created
    BY <1>4, <2>2, <2>3, <2>4, <2>7, <2>8
  <2> QED
    BY <2>2, <2>6, <2>8
<1> QED
  BY <1>1, <1>11, <1>12, <1>14, <1>15, <1>16 DEF Effect, Moves
-----------------------------------------------------------------------------
(* Settlements that stay, end or go on *)

SettlementOK(o) ==
    FillsOf(o) /\ TradesOfCall(o) /\ SeenOK(o) /\ \A x \in Orders : Follows(o, x)

\* The settlement of o is about to write the row of x that it has read.
About(o, x) ==
    \/ create[o].pc = "maker" /\ x = NextFill(o).maker
    \/ create[o].pc = "taker" /\ x = o

SameFills(x) ==
    /\ order'[x].filled = order[x].filled /\ order'[x].remaining = order[x].remaining
    /\ order'[x].created = order[x].created

LEMMA SumCancels == \A a, b, c \in Int : a + b = a + c => b = c
OBVIOUS

\* A row that changes is none that the settlement has written or has read.
LEMMA SettlementSame ==
    ASSUME Inv, FillsInv, NEW o \in Orders, tx'[o] = tx[o], create'[o] = create[o],
           UNCHANGED request, \A x \in Placed : x \in Placed',
           \A x \in Orders : order'[x] \in OrderRow,
           \A x \in Orders : order'[x] = order[x] \/ tx[o].order[x] = NoOrder,
           \A x \in Orders : About(o, x) => SameFills(x)
    PROVE  SettlementOK(o)'
<1>1. FillsOf(o) /\ TradesOfCall(o) /\ SeenOK(o) /\ \A x \in Orders : Follows(o, x)
  BY DEF FillsInv, SettlementsOK
<1>2. NextFill(o)' = NextFill(o)
  BY DEF NextFill
<1>3. FillsOf(o)'
  BY <1>1 DEF FillsOf
<1>4. \A x : HoldAccount(x)' = HoldAccount(x)
  BY DEF HoldAccount
<1>5. TradesOfCall(o)'
  BY <1>1, <1>2, <1>4 DEF TradesOfCall, Working, TradeOf
<1>6. ASSUME NEW x \in Orders, About(o, x), Agrees(o, x) PROVE Agrees(o, x)'
  <2>1. SameFills(x)
    BY <1>6
  <2> QED
    BY <1>6, <2>1 DEF Agrees, OrderSeen, SameFills
<1>7. SeenOK(o)'
  <2>1. create[o].pc = "maker" => NextFill(o).maker \in Orders
    BY FirstFill
  <2> QED
    BY <1>1, <1>2, <1>6, <2>1 DEF SeenOK, About
<1>8. ASSUME NEW x \in Orders PROVE Follows(o, x)'
  <2>1. Follows(o, x) /\ Pend(o, x)' = Pend(o, x)
    BY <1>1, <1>2 DEF Pend
  <2>2. VolumeOf(x, tx'[o].trades) = VolumeOf(x, tx[o].trades)
    OBVIOUS
  <2>3. CASE order'[x] = order[x]
    <3>1. OrderSeen(o, x)' = OrderSeen(o, x)
      BY <2>3 DEF OrderSeen
    <3> QED
      BY <2>1, <2>2, <2>3, <3>1 DEF Follows, VolumeOf, Volume, TradesOf
  <2>4. CASE tx[o].order[x] = NoOrder
    <3>1. OrderSeen(o, x) = order[x] /\ OrderSeen(o, x)' = order'[x]
      BY <2>4 DEF OrderSeen
    <3>2. /\ order[x].filled \in Int /\ order'[x].filled \in Int
          /\ order'[x].remaining \in Int
      BY DEF Inv, TypeInv, TypeOK, OrderRow
    <3>3. VolumeOf(x, tx[o].trades) \in Int
      BY CallTypes, VolumeType, <1>1 DEF FillsOf
    <3>4. Pend(o, x) \in Int
      BY FirstFill DEF Pend
    <3>5. Pend(o, x) = VolumeOf(x, tx[o].trades)
      <4>1. order[x].filled + Pend(o, x) = order[x].filled + VolumeOf(x, tx[o].trades)
        BY <2>1, <3>1 DEF Follows
      <4> QED
        BY <3>2, <3>3, <3>4, <4>1, SumCancels
    <3>6. /\ OrderSeen(o, x)'.filled + Pend(o, x)'
                = order'[x].filled + VolumeOf(x, tx'[o].trades)
          /\ OrderSeen(o, x)'.filled + OrderSeen(o, x)'.remaining
                = order'[x].filled + order'[x].remaining
      BY <2>1, <2>2, <3>1, <3>5
    <3> QED
      BY <3>6 DEF Follows, VolumeOf, Volume, TradesOf
  <2> QED
    BY <2>3, <2>4
<1> QED
  BY <1>3, <1>5, <1>7, <1>8 DEF SettlementOK

LEMMA NoTrades ==
    /\ NoTx.trades = {} /\ IsFiniteSet({}) /\ \A x : VolumeOf(x, {}) = 0
BY VolumeNone, FS_EmptySet DEF NoTx

LEMMA SettlementEnds ==
    ASSUME NEW o \in Orders, tx'[o] = NoTx, create'[o].fills = {},
           create'[o].pc \notin SettlingPcs, \A x \in Orders : order'[x] \in OrderRow
    PROVE  SettlementOK(o)'
<1>1. FillsOf(o)' /\ TradesOfCall(o)' /\ SeenOK(o)'
  BY NoTrades DEF FillsOf, TradesOfCall, SeenOK, Working, SettlingPcs
<1>2. ASSUME NEW x \in Orders PROVE Follows(o, x)'
  <2>1. OrderSeen(o, x)' = order'[x] /\ Pend(o, x)' = 0
    BY NoTxFields DEF OrderSeen, Pend, SettlingPcs
  <2>2. VolumeOf(x, tx'[o].trades) = 0
    BY NoTrades
  <2>3. order'[x].filled \in Int
    BY DEF OrderRow
  <2> QED
    BY <2>1, <2>2, <2>3 DEF Follows, VolumeOf, Volume, TradesOf
<1> QED
  BY <1>1, <1>2 DEF SettlementOK

Stays(o) == tx'[o] = tx[o] /\ create'[o] = create[o]

Ends(o) ==
    /\ tx'[o] = NoTx /\ create'[o].fills = {} /\ create[o].pc # "done"
    /\ create'[o].pc \notin SettlingPcs \cup {"new", "placed"}
    /\ create'[o].pc = "placing" => create[o].pc = "new" /\ price'[o] > 0

GoesOn(o) ==
    /\ SettlementOK(o)'
    /\ create[o].pc \in SettlingPcs /\ create'[o].pc \in SettlingPcs
    /\ create'[o].fills \subseteq create[o].fills
    /\ tx'[o].trades \subseteq Unsettled(o)

\* Steps that commit nothing.
Uncommitted ==
    /\ UNCHANGED <<order, trades, request>>
    /\ \A x \in Orders : price'[x] = price[x] \/ price'[x] > 0
    /\ \A o \in Orders : Stays(o) \/ Ends(o) \/ GoesOn(o)

LEMMA UncommittedRows ==
    ASSUME Inv, FillsInv, Uncommitted
    PROVE  RowsOK' /\ SettlementsOK' /\ HistoryOK'
<1>1. /\ UNCHANGED <<order, trades, request>> /\ Placed' = Placed
      /\ \A x \in Orders : price'[x] = price[x] \/ price'[x] > 0
      /\ \A o \in Orders : Stays(o) \/ Ends(o) \/ GoesOn(o)
  BY DEF Uncommitted, Placed
<1>2. RowsOK'
  <2>1. ASSUME NEW o \in Orders, create'[o].pc \in {"placed"} \cup SettlingPcs PROVE o \in Placed
    BY <1>1, <2>1 DEF Stays, Ends, GoesOn, FillsInv, RowsOK
  <2>2. ASSUME NEW o \in Orders, create'[o].pc = "placing" PROVE price'[o] > 0
    BY <1>1, <2>2 DEF Stays, Ends, GoesOn, FillsInv, RowsOK, SettlingPcs
  <2>3. \A x \in Placed : x \in Orders
    BY DEF Placed
  <2>4. \A x \in Placed :
          /\ order[x].created <= Cardinality(Placed)
          /\ \A y \in Placed : order[x].created = order[y].created => x = y
          /\ order[x].filled + order[x].remaining = request[x].quantity
          /\ price'[x] > 0
    BY <1>1, <2>3 DEF FillsInv, RowsOK
  <2>5. \A x \in Orders \ Placed : order[x] = NoOrder
    BY DEF FillsInv, RowsOK
  <2> QED
    BY <1>1, <2>1, <2>2, <2>4, <2>5 DEF RowsOK
<1>3. SettlementsOK'
  <2>1. \A x \in Orders : order'[x] \in OrderRow
    BY <1>1 DEF Inv, TypeInv, TypeOK
  <2>2. \A x \in Orders : SameFills(x)
    BY <1>1 DEF SameFills
  <2>3. ASSUME NEW o \in Orders PROVE SettlementOK(o)'
    <3>1. CASE Stays(o)
      BY <1>1, <2>1, <2>2, <3>1, SettlementSame DEF Stays
    <3>2. CASE Ends(o)
      BY <2>1, <3>2, SettlementEnds DEF Ends
    <3>3. CASE GoesOn(o)
      BY <3>3 DEF GoesOn
    <3> QED
      BY <1>1, <3>1, <3>2, <3>3
  <2> QED
    BY <2>3 DEF SettlementsOK, SettlementOK
<1>4. HistoryOK'
  <2>1. \A t \in trades : t.taker \in Orders
    BY DEF Inv, TypeInv, TypeOK, Trade
  <2>2. \A o \in Orders : create[o].pc = "done" => create'[o].pc = "done"
    BY <1>1 DEF Stays, Ends, GoesOn, SettlingPcs
  <2>3. \A x \in Orders : order'[x].filled = VolumeOf(x, trades)
    BY <1>1 DEF FillsInv, HistoryOK
  <2> QED
    BY <1>1, <2>1, <2>2, <2>3 DEF FillsInv, HistoryOK, VolumeOf, Volume, TradesOf
<1> QED
  BY <1>2, <1>3, <1>4

LEMMA UncommittedKeeps ==
    ASSUME Inv, FillsInv, Uncommitted, UNCHANGED arrivals, book' \subseteq book,
           WritesOK', CancelsPlaced'
    PROVE  FillsInv'
<1>1. /\ UNCHANGED <<order, request>>
      /\ \A o \in Orders : Stays(o) \/ Ends(o) \/ GoesOn(o)
  BY DEF Uncommitted
<1>2. \A o \in Orders : /\ create'[o].fills \subseteq create[o].fills
                        /\ tx'[o].trades \subseteq Unsettled(o)
  BY <1>1, NoTrades DEF Stays, Ends, GoesOn, Unsettled
<1>3. Matching' \subseteq Matching
  BY <1>2, MatchingShrinks
<1>4. \A x \in Orders :
          /\ create'[x].pc \in Unsubmitted => create[x].pc \in Unsubmitted
          /\ create'[x].pc = "placed" => create[x].pc = "placed"
  BY <1>1 DEF Stays, Ends, GoesOn, SettlingPcs, Unsubmitted
<1>5. \A x \in Orders : /\ order'[x].remaining \in Int
                        /\ order'[x].remaining >= order[x].remaining
  BY <1>1 DEF Inv, TypeInv, TypeOK, OrderRow
<1>6. \A x \in Orders : create'[x].pc = "placed" => order'[x].remaining = request[x].quantity
  BY <1>1, <1>4 DEF FillsInv, UnsubmittedOK
<1>7. Placed' = Placed
  BY <1>1 DEF Placed
<1>8. BookOK' /\ UnsubmittedOK' /\ EngineWithinOrders'
  BY <1>1, <1>3, <1>4, <1>5, <1>6, <1>7, EngineShrinks
<1> QED
  BY <1>8, UncommittedRows DEF FillsInv

LEMMA CancelsStayPlaced ==
    ASSUME FillsInv, UNCHANGED target, \A x \in Placed : x \in Placed',
           \A c \in CancelCalls : cancel'[c].pc \in CancellingPcs =>
                cancel[c].pc \in CancellingPcs \/ target[c] \in Placed
    PROVE  CancelsPlaced'
BY DEF FillsInv, CancelsPlaced

LEMMA BlockFollows ==
    ASSUME Inv, FillsInv, NEW o \in Orders, Block(o)
    PROVE  FillsInv'
<1>1. Alone(o)
  BY Blocks
<1>2. /\ UNCHANGED <<order, trades, request, target, price, book, arrivals, cancel>>
      /\ \A q \in Calls \ {o} : tx'[q] = tx[q]
      /\ \A q \in Orders \ {o} : create'[q] = create[q]
  BY <1>1 DEF Alone, db, engine, inputs
<1>3. \A q \in Orders : q \in Calls
  BY DEF Calls
<1>4. GoesOn(o)
  BY BlockFills, BlockRows DEF GoesOn, SettlementOK
<1>5. Uncommitted
  BY <1>2, <1>3, <1>4 DEF Uncommitted, Stays
<1>6. Placed' = Placed
  BY <1>2 DEF Placed
<1>7. WritesOK'
  <2>1. \A c \in CancelCalls : c \in Calls /\ c # o
    BY ExchangeAssumption DEF Calls
  <2>2. \A x \in Orders : tx'[o].order[x] # NoOrder =>
                /\ x \in Placed /\ tx'[o].order[x].status # "NONE"
                /\ tx'[o].order[x].created = order[x].created
    BY BlockRows
  <2> QED
    BY <1>2, <1>6, <2>1, <2>2 DEF FillsInv, WritesOK
<1>8. CancelsPlaced'
  BY <1>2, <1>6, CancelsStayPlaced
<1> QED
  BY <1>2, <1>5, <1>7, <1>8, UncommittedKeeps
-----------------------------------------------------------------------------
(* Steps that commit nothing *)

LEMMA Quotient ==
    ASSUME NEW p \in Nat \ {0}, NEW n \in Nat, NEW d \in Nat \ {0}, n >= d
    PROVE  (p * n) \div d > 0
<1>1. \A a, b \in Nat : a \in Nat \ {0} => a * b >= b /\ a * b \in Nat
  <2>1. ASSUME NEW a \in Nat \ {0}, NEW b \in Nat PROVE a * b >= b /\ a * b \in Nat
    <3>1. a - 1 \in Nat
      OBVIOUS
    <3>2. PICK c \in Nat : c = a - 1
      BY <3>1
    <3>3. c * b \in Nat /\ a * b = c * b + b
      BY <3>2
    <3> QED
      BY <3>3
  <2> QED
    BY <2>1
<1>2. PICK m : m = p * n
  OBVIOUS
<1>3. m \in Nat /\ m >= d
  BY <1>1, <1>2
<1>4. m \div d > 0
  BY <1>3
<1> QED
  BY <1>2, <1>4

\* A call resolves no price of nothing: limits, and what rests, are positive.
LEMMA ResolvedPositive ==
    ASSUME Inv, FillsInv, NEW o \in Orders, NEW p \in ResolvedPrice(request[o])
    PROVE  p > 0
<1>1. request[o].price \in Nat \ {0}
  BY ExchangeAssumption DEF Inv, TypeInv, TypeOK
<1>2. \A side : \A q \in BestPrice(side) : q \in Nat \ {0}
  BY DEF BestPrice, Opposing, FillsInv, BookOK, EntryOf, Inv, TypeInv, TypeOK, BookEntry
<1>3. ASSUME NEW q \in BestPrice("BUY") PROVE (q * SlipNum) \div SlipDen > 0
  BY <1>2, ExchangeAssumption, Quotient
<1> QED
  BY <1>1, <1>2, <1>3 DEF ResolvedPrice

\* Cancellations that write no row of an order.
LEMMA WritesSame ==
    ASSUME FillsInv, UNCHANGED order,
           \A p \in Calls : tx'[p].order = tx[p].order \/ tx'[p] = NoTx,
           \A c \in CancelCalls : tx'[c].trades = tx[c].trades \/ tx'[c] = NoTx
    PROVE  WritesOK'
<1>1. \A x \in Orders : NoTx.order[x] = NoOrder /\ NoTx.trades = {}
  BY NoTxFields, NoTrades
<1>2. Placed' = Placed
  BY DEF Placed
<1>3. \A p \in Calls, x \in Orders :
          tx'[p].order[x] # NoOrder => tx'[p].order[x] = tx[p].order[x]
  BY <1>1
<1>4. \A c \in CancelCalls : c \in Calls /\ tx'[c].trades = {}
  BY NoTrades DEF Calls, FillsInv, WritesOK
<1> QED
  BY <1>2, <1>3, <1>4 DEF FillsInv, WritesOK

LEMMA ReceiveFollows ==
    ASSUME Inv, FillsInv, NEW o \in Orders, ReceiveOrder(o) \/ SettlementShort(o)
    PROVE  FillsInv'
<1>1. /\ create \in [Orders -> Handlers] /\ tx \in [Calls -> Tx] /\ o \in Calls
      /\ price \in [Orders -> Nat] /\ \A x \in Orders : x \in Calls
      /\ \A c \in CancelCalls : c \in Calls
  BY DEF Inv, TypeInv, TypeOK, Calls
<1>2. CASE ReceiveOrder(o)
  <2>1. /\ UNCHANGED <<order, trades, request, target, book, arrivals, cancel, tx>>
        /\ create[o].pc = "new"
        /\ \A q \in Orders \ {o} : create'[q] = create[q] /\ price'[q] = price[q]
    BY <1>1, <1>2 DEF ReceiveOrder, db, engine, inputs
  <2>2. tx'[o] = NoTx
    BY <2>1 DEF Inv, IdleInv, SettlingPcs
  <2>3. \/ create'[o] = Handler("rejected") /\ price' = price
        \/ create'[o] = Handler("placing") /\ price'[o] \in ResolvedPrice(request[o])
    BY <1>1, <1>2 DEF ReceiveOrder
  <2>4. /\ create'[o].fills = {} /\ create'[o].pc \in {"rejected", "placing"}
        /\ price'[o] = price[o] \/ price'[o] > 0
        /\ create'[o].pc = "placing" => price'[o] > 0
    BY <2>3, ResolvedPositive DEF Handler
  <2>5. Ends(o)
    BY <2>1, <2>2, <2>4 DEF Ends, SettlingPcs
  <2>6. Uncommitted
    BY <2>1, <2>4, <2>5 DEF Uncommitted, Stays
  <2>7. WritesOK' /\ CancelsPlaced'
    BY <2>1, WritesSame, CancelsStayPlaced DEF Placed
  <2> QED
    BY <2>1, <2>6, <2>7, UncommittedKeeps
<1>3. CASE SettlementShort(o)
  <2>1. /\ UNCHANGED <<order, trades, request, target, price, book, arrivals, cancel>>
        /\ create[o].pc = "seller"
        /\ \A q \in Orders \ {o} : create'[q] = create[q]
        /\ \A q \in Calls \ {o} : tx'[q] = tx[q]
        /\ tx'[o] = NoTx /\ create'[o] = Handler("insufficient")
    BY <1>1, <1>3 DEF SettlementShort, db, engine, inputs
  <2>2. Ends(o)
    BY <2>1 DEF Ends, SettlingPcs, Handler
  <2>3. Uncommitted
    BY <1>1, <2>1, <2>2 DEF Uncommitted, Stays
  <2>4. WritesOK' /\ CancelsPlaced'
    BY <1>1, <2>1, WritesSame, CancelsStayPlaced DEF Placed
  <2> QED
    BY <2>1, <2>3, <2>4, UncommittedKeeps
<1> QED
  BY <1>2, <1>3

\* A cancellation writes the row it finds, but for its status.
LEMMA CancelFollows ==
    ASSUME Inv, FillsInv, NEW c \in CancelCalls,
           ReceiveCancel(c) \/ MarkCancelled(c) \/ ReleaseHold(c)
    PROVE  FillsInv'
<1>1. /\ tx \in [Calls -> Tx] /\ c \in Calls /\ target[c] \in Orders
      /\ tx[c] \in Tx
      /\ order \in [Orders -> OrderRow]
      /\ \A x \in Orders : x \in Calls /\ x # c
      /\ \A d \in CancelCalls : d \in Calls
  BY ExchangeAssumption DEF Inv, TypeInv, TypeOK, Calls
<1>2. /\ UNCHANGED <<order, trades, request, price, arrivals, create>>
      /\ \A q \in Calls \ {c} : tx'[q] = tx[q]
      /\ book' \subseteq book
  BY <1>1 DEF ReceiveCancel, MarkCancelled, ReleaseHold, db, engine, inputs
<1>3. Uncommitted
  BY <1>1, <1>2 DEF Uncommitted, Stays
<1>4. WritesOK'
  <2>1. CASE ReceiveCancel(c) \/ ReleaseHold(c)
    <3>1. tx' = tx => tx'[c].order = tx[c].order /\ tx'[c].trades = tx[c].trades
      OBVIOUS
    <3>2. ASSUME tx' = [tx EXCEPT ![c] = [releaseHold(c) EXCEPT !.rows = @ \cup Needs(c)]]
          PROVE  tx'[c].order = tx[c].order /\ tx'[c].trades = tx[c].trades
      BY <1>1, <3>2 DEF releaseHold, Tx
    <3>3. tx'[c].order = tx[c].order /\ tx'[c].trades = tx[c].trades
      BY <2>1, <3>1, <3>2 DEF ReceiveCancel, ReleaseHold
    <3> QED
      BY <1>1, <1>2, <3>3, WritesSame
  <2>2. CASE MarkCancelled(c)
    <3> DEFINE x == target[c]
               row == [order[x] EXCEPT !.status = "CANCELLED"]
    <3>1. /\ tx'[c].order = [tx[c].order EXCEPT ![x] = row]
          /\ tx'[c].trades = tx[c].trades
      BY <1>1, <2>2 DEF MarkCancelled, Tx
    <3>2. tx'[c].order[x] = row /\ \A y \in Orders \ {x} : tx'[c].order[y] = tx[c].order[y]
      BY <1>1, <3>1 DEF Tx
    <3>3. /\ row.status = "CANCELLED" /\ row.filled = order[x].filled
          /\ row.remaining = order[x].remaining /\ row.created = order[x].created
      BY <1>1 DEF OrderRow
    <3> HIDE DEF row
    <3>4. x \in Placed /\ Placed' = Placed
      BY <1>2, <2>2 DEF MarkCancelled, CancellingPcs, FillsInv, CancelsPlaced, Placed
    <3>5. \A p \in Calls, y \in Orders : tx'[p].order[y] # NoOrder =>
             \/ tx'[p].order[y] = tx[p].order[y]
             \/ p = c /\ y = x /\ tx'[p].order[y] = row
      BY <1>2, <3>2
    <3>6. \A p \in Calls, y \in Orders : tx'[p].order[y] # NoOrder =>
            /\ y \in Placed' /\ tx'[p].order[y].status # "NONE"
            /\ tx'[p].order[y].created = order'[y].created
      <4> HIDE DEF x
      <4> QED
        BY <1>2, <3>3, <3>4, <3>5 DEF FillsInv, WritesOK
    <3>7. \A d \in CancelCalls :
            /\ tx'[d].trades = {}
            /\ \A y \in Orders : tx'[d].order[y] # NoOrder =>
                  /\ tx'[d].order[y].filled = order'[y].filled
                  /\ tx'[d].order[y].remaining = order'[y].remaining
      <4> HIDE DEF x
      <4> QED
        BY <1>1, <1>2, <3>1, <3>3, <3>5 DEF FillsInv, WritesOK
    <3> QED
      BY <3>6, <3>7 DEF WritesOK
  <2> QED
    BY <2>1, <2>2
<1>5. CancelsPlaced'
  <2>1. /\ UNCHANGED <<order, target>> /\ cancel \in [CancelCalls -> Cancellers]
        /\ \E d : cancel' = [cancel EXCEPT ![c] = d]
        /\ ReceiveCancel(c) => target[c] \in Placed
        /\ ~ReceiveCancel(c) => cancel[c].pc \in CancellingPcs
    BY DEF ReceiveCancel, MarkCancelled, ReleaseHold, db, inputs, CancellingPcs,
       Inv, TypeInv, TypeOK
  <2> QED
    BY <2>1, CancelsStayPlaced DEF Placed
<1> QED
  BY <1>2, <1>3, <1>4, <1>5, UncommittedKeeps

LEMMA FailFollows ==
    ASSUME Inv, FillsInv, NEW p \in Calls, FailTransaction(p)
    PROVE  FillsInv'
<1>1. /\ create \in [Orders -> Handlers] /\ tx \in [Calls -> Tx]
      /\ \A x \in Orders : x \in Calls /\ x \notin CancelCalls
      /\ \A c \in CancelCalls : c \in Calls
  BY ExchangeAssumption DEF Inv, TypeInv, TypeOK, Calls
<1>2. /\ UNCHANGED <<order, trades, request, price, book, arrivals>>
      /\ tx'[p] = NoTx /\ \A q \in Calls \ {p} : tx'[q] = tx[q]
      /\ \A o \in Orders \ {p} : create'[o] = create[o]
      /\ p \in Orders => /\ create'[p] = Handler("failed")
                         /\ create[p].pc \in SettlingPcs \cup {"placing"}
  BY <1>1 DEF FailTransaction, db, engine, inputs
<1>3. p \in Orders => Ends(p)
  BY <1>2 DEF Ends, SettlingPcs, Handler
<1>4. Uncommitted
  BY <1>1, <1>2, <1>3 DEF Uncommitted, Stays
<1>5. WritesOK'
  BY <1>1, <1>2, WritesSame
<1>6. CancelsPlaced'
  <2>1. /\ UNCHANGED <<order, target>> /\ cancel \in [CancelCalls -> Cancellers]
        /\ \A c \in CancelCalls : cancel'[c] = cancel[c] \/ cancel'[c].pc = "failed"
    BY DEF FailTransaction, db, inputs, Canceller, Inv, TypeInv, TypeOK
  <2> QED
    BY <2>1, CancelsStayPlaced DEF Placed, CancellingPcs
<1> QED
  BY <1>2, <1>4, <1>5, <1>6, UncommittedKeeps
-----------------------------------------------------------------------------
(* order.create *)

LEMMA PlaceFollows ==
    ASSUME Inv, FillsInv, FreshInv, NEW o \in Orders, PlaceOrder(o)
    PROVE  FillsInv'
<1> DEFINE quantity == request[o].quantity
           row == [status |-> "OPEN", filled |-> 0, remaining |-> quantity,
                   created |-> Cardinality(Placed) + 1]
<1>1. /\ create \in [Orders -> Handlers] /\ o \in Calls
      /\ order \in [Orders -> OrderRow] /\ quantity \in Nat \ {0}
  BY ExchangeAssumption DEF Inv, TypeInv, TypeOK, Calls
<1>2. /\ UNCHANGED <<trades, request, target, price, book, arrivals, cancel, tx>>
      /\ create[o].pc = "placing"
      /\ \A q \in Orders \ {o} : create'[q] = create[q]
  BY <1>1 DEF PlaceOrder, engine, inputs
<1>3. tx[o] = NoTx /\ create[o].fills = {} /\ price[o] > 0
  BY <1>2 DEF Inv, IdleInv, SettlingPcs, FillsInv, SettlementsOK, FillsOf, RowsOK
<1>4. CASE order' = order /\ create'[o] = Handler("rejected")
  <2>1. Ends(o)
    BY <1>2, <1>3, <1>4 DEF Ends, SettlingPcs, Handler
  <2>2. Uncommitted
    BY <1>2, <1>4, <2>1 DEF Uncommitted, Stays
  <2>3. WritesOK' /\ CancelsPlaced'
    BY <1>2, <1>4, WritesSame, CancelsStayPlaced DEF Placed
  <2> QED
    BY <1>2, <2>2, <2>3, UncommittedKeeps
<1>5. CASE order' = [order EXCEPT ![o] = row] /\ create'[o] = Handler("placed")
  <2>1. /\ order'[o] = row /\ \A x \in Orders \ {o} : order'[x] = order[x]
        /\ row \in OrderRow /\ row # NoOrder
        /\ row.status = "OPEN" /\ row.filled = 0 /\ row.remaining = quantity
        /\ row.created = Cardinality(Placed) + 1
        /\ Cardinality(Placed) \in Nat /\ IsFiniteSet(Placed)
    <3>1. IsFiniteSet(Placed)
      BY ExchangeAssumption, FS_Subset DEF Placed
    <3>2. Cardinality(Placed) \in Nat
      BY <3>1, FS_CardinalityType
    <3> QED
      BY <1>1, <1>5, <3>1, <3>2 DEF OrderRow, OrderStatuses, OpenStatuses, NoOrder
  <2> HIDE DEF row
  <2>2. /\ order[o] = NoOrder /\ \A p \in Calls : tx[p].order[o] = NoOrder
        /\ o \notin Placed
    BY <1>2 DEF FreshInv, Fresh, NoRow, Placed, NoOrder
  <2>3. Placed' = Placed \cup {o}
    BY <2>1 DEF Placed
  <2>4. Cardinality(Placed') = Cardinality(Placed) + 1
    BY <2>1, <2>2, <2>3, FS_AddElement
  <2>5. /\ create'[o].pc = "placed" /\ create'[o].fills = {}
        /\ \A x \in Orders : order'[x] \in OrderRow
    BY <1>1, <1>5, <2>1 DEF Handler
  <2>6. RowsOK'
    <3>1. \A x \in Placed : x \in Orders /\ x # o /\ order'[x] = order[x]
      BY <2>1, <2>2 DEF Placed
    <3>2. \A x \in Placed : order[x].created \in Nat /\ order[x].created <= Cardinality(Placed)
      BY <1>1, <3>1 DEF FillsInv, RowsOK, OrderRow
    <3>3. \A x \in Placed' : order'[x].created <= Cardinality(Placed')
      BY <2>1, <2>3, <2>4, <3>1, <3>2
    <3>4. \A x, y \in Placed' : order'[x].created = order'[y].created => x = y
      <4>1. \A x \in Placed : order'[x].created # order'[o].created
        BY <2>1, <3>1, <3>2
      <4> QED
        BY <2>3, <3>1, <4>1 DEF FillsInv, RowsOK
    <3>5. \A x \in Placed' :
             /\ order'[x].filled + order'[x].remaining = request'[x].quantity
             /\ price'[x] > 0
      BY <1>1, <1>2, <1>3, <2>1, <2>3, <3>1 DEF FillsInv, RowsOK
    <3>6. \A x \in Orders \ Placed' : order'[x] = NoOrder
      BY <2>1, <2>3 DEF FillsInv, RowsOK
    <3>7. \A q \in Orders : /\ create'[q].pc \in {"placed"} \cup SettlingPcs => q \in Placed'
                            /\ create'[q].pc = "placing" => price'[q] > 0
      BY <1>2, <1>3, <2>3 DEF FillsInv, RowsOK
    <3> QED
      BY <3>3, <3>4, <3>5, <3>6, <3>7 DEF RowsOK
  <2>7. WritesOK'
    <3>1. \A p \in Calls, x \in Orders : tx[p].order[x] # NoOrder => x # o
      BY <2>2
    <3>2. \A c \in CancelCalls : c \in Calls
      BY DEF Calls
    <3> QED
      BY <1>2, <2>1, <2>3, <3>1, <3>2 DEF FillsInv, WritesOK
  <2>8. CancelsPlaced'
    BY <1>2, <2>3, CancelsStayPlaced
  <2>9. SettlementsOK'
    <3>1. ASSUME NEW q \in Orders PROVE SettlementOK(q)'
      <4>1. CASE q = o
        BY <1>2, <1>3, <2>5, <4>1, SettlementEnds DEF SettlingPcs
      <4>2. CASE q # o
        <5>1. \A x \in Orders : About(q, x) => x # o
          BY <2>2, <4>2, FirstFill DEF About
        <5>2. \A x \in Orders : About(q, x) => SameFills(x)
          BY <2>1, <5>1 DEF SameFills
        <5>3. \A x \in Orders : order'[x] = order[x] \/ tx[q].order[x] = NoOrder
          BY <2>1, <2>2 DEF Calls
        <5>4. tx'[q] = tx[q] /\ create'[q] = create[q] /\ UNCHANGED request
              /\ \A x \in Placed : x \in Placed'
          BY <1>2, <2>3, <4>2
        <5> QED
          BY <2>5, <5>2, <5>3, <5>4, SettlementSame
      <4> QED
        BY <4>1, <4>2
    <3> QED
      BY <3>1 DEF SettlementsOK, SettlementOK
  <2>10. HistoryOK'
    <3>1. \A t \in trades : t.taker \in Orders
      BY DEF Inv, TypeInv, TypeOK, Trade
    <3>2. \A t \in trades : create'[t.taker].pc = "done"
      BY <1>2, <3>1 DEF FillsInv, HistoryOK
    <3>3. \A x \in Orders : order'[x].filled = VolumeOf(x, trades)
      BY <2>1, <2>2 DEF FillsInv, HistoryOK, NoOrder
    <3> QED
      BY <1>2, <3>2, <3>3 DEF FillsInv, HistoryOK, VolumeOf, Volume, TradesOf
  <2>11. BookOK' /\ UnsubmittedOK' /\ EngineWithinOrders'
    <3>1. \A q \in Orders : /\ create'[q].fills \subseteq create[q].fills
                            /\ tx'[q].trades \subseteq Unsettled(q)
      BY <1>2, <2>5 DEF Unsettled
    <3>2. Matching' \subseteq Matching
      BY <3>1, MatchingShrinks
    <3>3. \A x \in Orders : /\ order'[x].remaining \in Int
                            /\ order'[x].remaining >= order[x].remaining
      <4>1. order[o].remaining = 0
        BY <2>2 DEF NoOrder
      <4>2. \A x \in Orders : order[x].remaining \in Int
        BY <1>1 DEF OrderRow
      <4> QED
        BY <1>1, <2>1, <4>1, <4>2
    <3>4. \A x \in Orders : create'[x].pc \in Unsubmitted => create[x].pc \in Unsubmitted
      BY <1>2 DEF Unsubmitted
    <3>5. \A x \in Orders : create'[x].pc = "placed" =>
                                order'[x].remaining = request[x].quantity
      BY <1>2, <2>1 DEF FillsInv, UnsubmittedOK
    <3>6. \A x \in Placed : x \in Placed'
      BY <2>3
    <3> QED
      BY <1>2, <3>2, <3>3, <3>4, <3>5, <3>6, EngineShrinks
  <2> QED
    BY <2>6, <2>7, <2>8, <2>9, <2>10, <2>11 DEF FillsInv
<1> QED
  BY <1>1, <1>4, <1>5 DEF PlaceOrder
-----------------------------------------------------------------------------
(* Commits *)

\* The trades of a transaction that commits are those of the settlement p.
LEMMA CommitTrades ==
    ASSUME Inv, FillsInv, NEW p \in Calls
    PROVE  /\ IsFiniteSet(tx[p].trades) /\ tx[p].trades \subseteq Trade
           /\ \A t \in tx[p].trades : p \in Orders /\ t.taker = p
           /\ tx[p].trades \subseteq Matching
           /\ \A x : VolumeOf(x, tx[p].trades) \in Nat
<1>1. CASE p \in Orders
  <2>1. /\ IsFiniteSet(tx[p].trades) /\ tx[p].trades \subseteq Trade
        /\ \A t \in tx[p].trades : t.taker = p
    BY <1>1, CallTypes DEF FillsInv, SettlementsOK, FillsOf, TradesOfCall
  <2>2. tx[p].trades \subseteq Matching
    BY <1>1 DEF Matching, Unsettled
  <2> QED
    BY <1>1, <2>1, <2>2, VolumeType
<1>2. CASE p \in CancelCalls
  <2>1. tx[p].trades = {}
    BY <1>2 DEF FillsInv, WritesOK
  <2> QED
    BY <2>1, NoTrades
<1> QED
  BY <1>1, <1>2 DEF Calls

\* A commit adds to the row of x what the trades it commits have of x.
LEMMA CommitRows ==
    ASSUME Inv, FillsInv, NEW p \in Calls, Commit(p),
           p \in Orders => create[p].pc = "fill", NEW x \in Orders
    PROVE  /\ order'[x] \in OrderRow
           /\ order'[x].filled = order[x].filled + VolumeOf(x, tx[p].trades)
           /\ order'[x].remaining = order[x].remaining - VolumeOf(x, tx[p].trades)
           /\ order'[x].created = order[x].created
           /\ order'[x] # order[x] => tx[p].order[x] # NoOrder
           /\ x \in Placed' <=> x \in Placed
           /\ x \notin Placed => order'[x] = NoOrder
<1>1. order'[x] = OrderSeen(p, x)
  BY DEF Commit
<1>2. order'[x] \in OrderRow /\ order[x] \in OrderRow
  BY <1>1, SeenType DEF Inv, TypeInv, TypeOK
<1>3. order'[x].created = order[x].created
  BY <1>1, SeenCreated DEF FillsInv
<1>4. order'[x] # order[x] => tx[p].order[x] # NoOrder
  BY <1>1 DEF OrderSeen
<1>5. tx[p].order[x] # NoOrder => x \in Placed /\ order'[x].status # "NONE"
  BY <1>1 DEF FillsInv, WritesOK, OrderSeen
<1>6. x \in Placed' <=> x \in Placed
  BY <1>4, <1>5 DEF Placed
<1>7. x \notin Placed => order'[x] = NoOrder
  BY <1>4, <1>5 DEF FillsInv, RowsOK
<1>8. VolumeOf(x, tx[p].trades) \in Nat
  BY CommitTrades
<1>9. /\ order'[x].filled \in Int /\ order'[x].remaining \in Int
      /\ order[x].filled \in Int /\ order[x].remaining \in Int
  BY <1>2 DEF OrderRow
<1>10. /\ order'[x].filled = order[x].filled + VolumeOf(x, tx[p].trades)
       /\ order'[x].filled + order'[x].remaining = order[x].filled + order[x].remaining
  <2>1. CASE p \in Orders
    <3>1. Follows(p, x) /\ Pend(p, x) = 0
      BY <2>1 DEF FillsInv, SettlementsOK, Pend
    <3>2. order'[x].filled + 0 = order[x].filled + VolumeOf(x, tx[p].trades)
      BY <1>1, <3>1 DEF Follows
    <3>3. order'[x].filled + order'[x].remaining = order[x].filled + order[x].remaining
      BY <1>1, <3>1 DEF Follows
    <3> QED
      BY <1>9, <3>2, <3>3
  <2>2. CASE p \in CancelCalls
    <3>1. tx[p].trades = {}
      BY <2>2 DEF FillsInv, WritesOK
    <3>2. VolumeOf(x, tx[p].trades) = 0
      BY <3>1, NoTrades
    <3>3. order'[x].filled = order[x].filled /\ order'[x].remaining = order[x].remaining
      BY <1>1, <2>2 DEF FillsInv, WritesOK, OrderSeen
    <3> QED
      BY <1>9, <3>2, <3>3
  <2> QED
    BY <2>1, <2>2 DEF Calls
<1>11. \A v \in Nat, f, r, f2, r2 \in Int : f2 = f + v /\ f2 + r2 = f + r => r2 = r - v
  OBVIOUS
<1> QED
  BY <1>2, <1>3, <1>4, <1>6, <1>7, <1>8, <1>9, <1>10, <1>11

\* The row a settlement has read is not filled by another one that commits: the
\* two trades lock the account of its owner.
LEMMA CommitSpares ==
    ASSUME Inv, FillsInv, NEW p \in Calls, Commit(p),
           p \in Orders => create[p].pc = "fill",
           NEW q \in Orders, q # p, NEW x \in Orders, About(q, x)
    PROVE  SameFills(x)
<1>1. Working(q) /\ x \in {q, NextFill(q).maker}
  BY DEF About, Working
<1>2. /\ TradeOf(q, NextFill(q)) \in tx[q].trades
      /\ TradeOf(q, NextFill(q)).maker = NextFill(q).maker
  BY <1>1 DEF FillsInv, SettlementsOK, TradesOfCall, TradeOf
<1>3. <<"account", HoldAccount(x)>> \in tx[q].rows
  <2>1. PICK t \in tx[q].trades : t.maker = NextFill(q).maker
    BY <1>2
  <2>2. /\ <<"account", HoldAccount(q)>> \in tx[q].rows
        /\ <<"account", HoldAccount(t.maker)>> \in tx[q].rows
    BY <2>1 DEF FillsInv, SettlementsOK, TradesOfCall
  <2> QED
    BY <1>1, <2>1, <2>2
<1>4. ASSUME NEW t \in tx[p].trades, t.maker = x \/ t.taker = x PROVE FALSE
  <2>1. p \in Orders /\ t.taker = p
    BY CommitTrades
  <2>2. <<"account", HoldAccount(x)>> \in tx[p].rows
    BY <1>4, <2>1 DEF FillsInv, SettlementsOK, TradesOfCall
  <2>3. tx[p].rows \cap tx[q].rows = {}
    BY DEF Inv, LocksInv, Calls
  <2> QED
    BY <1>3, <2>2, <2>3
<1>5. VolumeOf(x, tx[p].trades) = 0
  BY <1>4, VolumeNone
<1>6. order[x].filled \in Int /\ order[x].remaining \in Int
  BY DEF Inv, TypeInv, TypeOK, OrderRow
<1> QED
  BY <1>5, <1>6, CommitRows DEF SameFills

LEMMA CommitFollows ==
    ASSUME Inv, FillsInv, GuardInv, NEW p \in Calls, Commit(p),
           UNCHANGED <<request, target, price, book, arrivals>>,
           p \in Orders => create[p].pc = "fill" /\ create'[p] = Handler("done"),
           \A o \in Orders \ {p} : create'[o] = create[o],
           \A c \in CancelCalls : cancel'[c] = cancel[c] \/ cancel'[c].pc = "done"
    PROVE  FillsInv'
<1>1. /\ tx \in [Calls -> Tx] /\ trades' = trades \cup tx[p].trades
      /\ tx'[p] = NoTx /\ \A q \in Calls \ {p} : tx'[q] = tx[q]
      /\ \A q \in Orders : q \in Calls
      /\ \A c \in CancelCalls : c \in Calls /\ target[c] \in Orders
  BY DEF Commit, Calls, Inv, TypeInv, TypeOK
<1>2. Placed' = Placed
  <2>1. \A x \in Orders : x \in Placed' <=> x \in Placed
    BY CommitRows
  <2> QED
    BY <2>1 DEF Placed
<1>3. \A x \in Placed : x \in Orders
  BY DEF Placed
<1>4. p \in Orders => create'[p].fills = {} /\ create'[p].pc = "done"
  BY DEF Handler
<1>5. ASSUME NEW q \in Calls, q # p, NEW x \in Orders, tx[q].order[x] # NoOrder
      PROVE  order'[x] = order[x]
  <2>1. <<"order", x>> \in tx[q].rows /\ (tx[p].order[x] # NoOrder => <<"order", x>> \in tx[p].rows)
    BY <1>5 DEF GuardInv, OrdersLocked
  <2>2. tx[p].rows \cap tx[q].rows = {}
    BY <1>5 DEF Inv, LocksInv
  <2>3. tx[p].order[x] = NoOrder
    BY <2>1, <2>2
  <2> QED
    BY <2>3, CommitRows
<1>6. RowsOK'
  <2>1. \A x \in Placed : price[x] > 0 /\ order'[x].created = order[x].created
    BY <1>3, CommitRows DEF FillsInv, RowsOK
  <2>2. ASSUME NEW x \in Placed PROVE order'[x].filled + order'[x].remaining = request[x].quantity
    <3>1. order[x].filled + order[x].remaining = request[x].quantity
      BY DEF FillsInv, RowsOK
    <3>2. order[x].filled \in Int /\ order[x].remaining \in Int
      BY <1>3 DEF Inv, TypeInv, TypeOK, OrderRow
    <3>3. VolumeOf(x, tx[p].trades) \in Nat
      BY CommitTrades
    <3>4. /\ order'[x].filled = order[x].filled + VolumeOf(x, tx[p].trades)
          /\ order'[x].remaining = order[x].remaining - VolumeOf(x, tx[p].trades)
      BY <1>3, CommitRows
    <3>5. \A f, r \in Int, v \in Nat : (f + v) + (r - v) = f + r
      OBVIOUS
    <3> QED
      BY <3>1, <3>2, <3>3, <3>4, <3>5
  <2>3. \A x \in Orders \ Placed : order'[x] = NoOrder
    BY CommitRows
  <2>4. \A o \in Orders : /\ create'[o].pc \in {"placed"} \cup SettlingPcs => o \in Placed
                          /\ create'[o].pc = "placing" => price[o] > 0
    BY <1>4 DEF FillsInv, RowsOK, SettlingPcs
  <2>5. \A x \in Placed :
          /\ order'[x].created <= Cardinality(Placed)
          /\ \A y \in Placed : order'[x].created = order'[y].created => x = y
    BY <2>1 DEF FillsInv, RowsOK
  <2> QED
    BY <1>2, <2>1, <2>2, <2>3, <2>4, <2>5 DEF RowsOK
<1>7. WritesOK'
  <2>1. ASSUME NEW q \in Calls, NEW x \in Orders, tx'[q].order[x] # NoOrder
        PROVE  /\ x \in Placed' /\ tx'[q].order[x].status # "NONE"
               /\ tx'[q].order[x].created = order'[x].created
    <3>1. q # p /\ tx'[q] = tx[q]
      BY <1>1, <2>1, NoTxFields
    <3>2. order'[x] = order[x]
      BY <1>5, <2>1, <3>1
    <3> QED
      BY <1>2, <2>1, <3>1, <3>2 DEF FillsInv, WritesOK
  <2>2. ASSUME NEW c \in CancelCalls
        PROVE  /\ tx'[c].trades = {}
               /\ \A x \in Orders : tx'[c].order[x] # NoOrder =>
                    /\ tx'[c].order[x].filled = order'[x].filled
                    /\ tx'[c].order[x].remaining = order'[x].remaining
    <3>1. CASE c = p
      BY <1>1, <3>1, NoTxFields, NoTrades
    <3>2. CASE c # p
      <4>1. tx'[c] = tx[c] /\ c \in Calls
        BY <1>1, <3>2
      <4>2. \A x \in Orders : tx[c].order[x] # NoOrder => order'[x] = order[x]
        BY <1>5, <3>2, <4>1
      <4> QED
        BY <4>1, <4>2 DEF FillsInv, WritesOK
    <3> QED
      BY <3>1, <3>2
  <2> QED
    BY <2>1, <2>2 DEF WritesOK
<1>8. CancelsPlaced'
  BY <1>2, CancelsStayPlaced DEF CancellingPcs
<1>9. SettlementsOK'
  <2>1. \A x \in Orders : order'[x] \in OrderRow
    BY CommitRows
  <2>2. ASSUME NEW q \in Orders PROVE SettlementOK(q)'
    <3>1. CASE q = p
      BY <1>1, <1>4, <2>1, <3>1, SettlementEnds DEF SettlingPcs
    <3>2. CASE q # p
      <4>1. \A x \in Orders : About(q, x) => SameFills(x)
        BY <3>2, CommitSpares
      <4>2. \A x \in Orders : order'[x] = order[x] \/ tx[q].order[x] = NoOrder
        BY <1>1, <1>5, <3>2
      <4>3. tx'[q] = tx[q] /\ create'[q] = create[q] /\ \A x \in Placed : x \in Placed'
        BY <1>1, <1>2, <3>2
      <4> QED
        BY <2>1, <4>1, <4>2, <4>3, SettlementSame
    <3> QED
      BY <3>1, <3>2
  <2> QED
    BY <2>2 DEF SettlementsOK, SettlementOK
<1>10. HistoryOK'
  <2>1. /\ IsFiniteSet(trades) /\ trades \subseteq Trade
        /\ IsFiniteSet(tx[p].trades) /\ tx[p].trades \subseteq Trade
        /\ \A t \in tx[p].trades : p \in Orders /\ t.taker = p
    BY CommitTrades DEF FillsInv, HistoryOK, Inv, TypeInv, TypeOK
  <2>2. \A t \in trades : t.taker \in Orders /\ create[t.taker].pc = "done" /\ t.taker # p
    BY <2>1 DEF FillsInv, HistoryOK, Trade
  <2>3. \A t \in trades' : create'[t.taker].pc = "done"
    BY <1>1, <1>4, <2>1, <2>2
  <2>4. trades \cap tx[p].trades = {}
    BY <2>1, <2>2
  <2>5. IsFiniteSet(trades')
    BY <1>1, <2>1, FS_Union
  <2>6. ASSUME NEW x \in Orders PROVE order'[x].filled = VolumeOf(x, trades')
    <3>1. VolumeOf(x, trades \cup tx[p].trades)
             = VolumeOf(x, trades) + VolumeOf(x, tx[p].trades)
      BY <2>1, <2>4, VolumeUnion
    <3>2. order[x].filled = VolumeOf(x, trades)
      BY DEF FillsInv, HistoryOK
    <3> QED
      BY <1>1, <3>1, <3>2, CommitRows
  <2> QED
    BY <2>3, <2>5, <2>6 DEF HistoryOK, VolumeOf, Volume, TradesOf
<1>11. \A q \in Orders : /\ create'[q].fills \subseteq create[q].fills
                         /\ tx'[q].trades \subseteq Unsettled(q)
  BY <1>1, <1>4, NoTrades DEF Unsettled
<1>12. Matching' \subseteq Matching
  BY <1>11, MatchingShrinks
<1>13. BookOK'
  BY <1>2 DEF FillsInv, BookOK, EntryOf
<1>14. UnsubmittedOK'
  <2>1. ASSUME NEW x \in Orders, create'[x].pc \in {"new", "placing", "placed"}
        PROVE  /\ \A e \in book : e.id # x
               /\ \A t \in Matching' : t.maker # x /\ t.taker # x
               /\ create'[x].pc = "placed" => order'[x].remaining = request[x].quantity
    <3>1. x # p /\ create'[x] = create[x]
      BY <1>4, <2>1
    <3>2. /\ \A e \in book : e.id # x
          /\ \A t \in Matching : t.maker # x /\ t.taker # x
          /\ create[x].pc = "placed" => order[x].remaining = request[x].quantity
      BY <2>1, <3>1 DEF FillsInv, UnsubmittedOK
    <3>3. \A t \in tx[p].trades : t.maker # x /\ t.taker # x
      BY <3>2, CommitTrades
    <3>4. VolumeOf(x, tx[p].trades) = 0
      BY <3>3, VolumeNone
    <3>5. order[x].remaining \in Int
      BY DEF Inv, TypeInv, TypeOK, OrderRow
    <3>6. order'[x].remaining = order[x].remaining
      BY <3>4, <3>5, CommitRows
    <3> QED
      BY <1>12, <3>1, <3>2, <3>6
  <2> QED
    BY <2>1 DEF UnsubmittedOK
<1>15. EngineWithinOrders'
  <2>1. ASSUME NEW x \in Orders PROVE InEngine(x)' <= order'[x].remaining
    <3> DEFINE T == tx[p].trades
    <3>1. /\ IsFiniteSet(T) /\ T \subseteq Trade /\ T \subseteq Matching
          /\ \A t \in T : t.taker = p /\ p \in Orders
      BY CommitTrades
    <3>2. \A t \in Matching' : t.taker # p
      <4>1. ASSUME NEW q \in Orders, NEW t \in Unsettled(q)' PROVE t.taker # p
        <5>1. CASE q = p
          BY <1>1, <1>4, <4>1, <5>1, NoTrades DEF Unsettled
        <5>2. CASE q # p
          <6>1. tx'[q] = tx[q] /\ create'[q] = create[q]
            BY <1>1, <5>2
          <6>2. t \in Unsettled(q)
            BY <4>1, <6>1 DEF Unsettled, TradeOf
          <6>3. t.taker = q
            BY <6>2, UnsettledType
          <6> QED
            BY <5>2, <6>3
        <5> QED
          BY <5>1, <5>2
      <4> QED
        BY <4>1 DEF Matching
    <3>3. IsFiniteSet(Matching') /\ Matching' \subseteq Trade
      BY <1>12, MatchingType, FS_Subset
    <3>4. Matching' \cap T = {}
      BY <3>1, <3>2
    <3> HIDE DEF T
    <3>5. VolumeOf(x, Matching' \cup T) = VolumeOf(x, Matching') + VolumeOf(x, T)
      BY <3>1, <3>3, <3>4, VolumeUnion
    <3>6. VolumeOf(x, Matching' \cup T) <= VolumeOf(x, Matching)
      <4>1. Matching' \cup T \in SUBSET Matching
        BY <1>12, <3>1
      <4> QED
        BY <4>1, MatchingType, VolumeLess
    <3>7. OfferIn(book, x) + VolumeOf(x, Matching) <= order[x].remaining
      BY DEF FillsInv, EngineWithinOrders, InEngine, OfferIn, VolumeOf, Matching
    <3>8. /\ OfferIn(book, x) \in Nat /\ VolumeOf(x, T) \in Nat
          /\ VolumeOf(x, Matching) \in Nat /\ VolumeOf(x, Matching') \in Nat
          /\ order[x].remaining \in Int
      BY <3>1, <3>3, OfferType, MatchingType, VolumeType DEF Inv, TypeInv, TypeOK, OrderRow
    <3>9. order'[x].remaining = order[x].remaining - VolumeOf(x, T)
      BY CommitRows DEF T
    <3>10. InEngine(x)' = OfferIn(book, x) + VolumeOf(x, Matching')
      BY DEF InEngine, OfferIn, VolumeOf, Matching
    <3>11. \A a, v, m, n, u \in Nat, r \in Int :
              u = n + v /\ u <= m /\ a + m <= r => a + n <= r - v
      OBVIOUS
    <3>12. VolumeOf(x, Matching' \cup T) \in Nat
      BY <3>5, <3>8
    <3> QED
      BY <3>5, <3>6, <3>7, <3>8, <3>9, <3>10, <3>11, <3>12
  <2> QED
    BY <2>1 DEF EngineWithinOrders
<1> QED
  BY <1>6, <1>7, <1>8, <1>9, <1>10, <1>13, <1>14, <1>15 DEF FillsInv
-----------------------------------------------------------------------------
(* submit *)

TakerOf(o) == EngineOrder(o, request[o].quantity, arrivals + 1)

LEMMA SubmitTaker ==
    ASSUME Inv, FillsInv, NEW o \in Orders, create[o].pc = "placed"
    PROVE  /\ Distinct(book) /\ Newcomer(book, TakerOf(o)) /\ o \in Placed
           /\ TakerOf(o).id = o /\ TakerOf(o).user = request[o].user
           /\ TakerOf(o).side = request[o].side /\ TakerOf(o).price > 0
           /\ TakerOf(o).sequence = arrivals + 1
           /\ TakerOf(o).remaining = order[o].remaining
<1> DEFINE taker == TakerOf(o)
<1>1. /\ o \in Placed /\ price[o] > 0 /\ \A e \in book : e.id # o
      /\ order[o].remaining = request[o].quantity
  BY DEF FillsInv, RowsOK, UnsubmittedOK
<1>2. Distinct(book)
  BY DEF FillsInv, BookOK, EntryOf, Distinct, Inv, TypeInv, TypeOK
<1>3. /\ taker.id = o /\ taker.user = request[o].user
      /\ taker.side = request[o].side /\ taker.price > 0
      /\ taker.sequence = arrivals + 1 /\ taker.remaining = request[o].quantity
  BY <1>1 DEF TakerOf, EngineOrder
<1>4. taker \in BookEntry /\ taker.remaining \in Nat
  BY RequestType DEF TakerOf, EngineOrder, BookEntry, Inv, TypeInv, TypeOK
<1>5. \A e \in book : e.sequence < taker.sequence
  <2>1. \A e \in book : e.sequence <= arrivals /\ e.sequence \in Nat
    BY DEF FillsInv, BookOK, EntryOf, Inv, TypeInv, TypeOK, BookEntry
  <2>2. arrivals \in Nat
    BY DEF Inv, TypeInv, TypeOK
  <2> QED
    BY <1>3, <2>1, <2>2
<1> QED
  BY <1>1, <1>2, <1>3, <1>4, <1>5 DEF Newcomer

\* The fills of a submit are with orders of other users that rest on the book.
LEMMA SubmitFills ==
    ASSUME Inv, FillsInv, NEW o \in Orders, create[o].pc = "placed"
    PROVE  LET fills == Fills(book, TakerOf(o)) IN
           /\ IsFiniteSet(fills)
           /\ \A f \in fills :
                /\ f.maker \in Placed /\ f.price > 0
                /\ request[f.maker].user # request[o].user
                /\ request[f.maker].side # request[o].side
                /\ \A g \in fills : g.maker = f.maker => g = f
                /\ \E e \in book : f.maker = e.id
<1> DEFINE taker == TakerOf(o)
           makers == Makers(book, taker)
           fills == Fills(book, taker)
<1>1. /\ Distinct(book) /\ Newcomer(book, taker)
      /\ taker.user = request[o].user /\ taker.side = request[o].side
  BY SubmitTaker
<1>2. IsFiniteSet(fills)
  BY <1>1, TradesWithMakers DEF Newcomer
<1>3. \A f \in fills : \E e \in makers : f = FillOf(makers, taker.remaining, e)
  BY DEF Fills
<1>4. \A e \in makers : e \in book /\ e.side # taker.side /\ e.user # taker.user
  BY DEF Makers, Reachable
<1>5. \A e : /\ FillOf(makers, taker.remaining, e).maker = e.id
             /\ FillOf(makers, taker.remaining, e).price = e.price
  BY DEF FillOf
<1> HIDE DEF fills, makers, taker
<1>6. \A e \in book : /\ e.id \in Placed /\ e.price > 0
                      /\ e.user = request[e.id].user /\ e.side = request[e.id].side
  BY DEF FillsInv, BookOK, EntryOf
<1>7. ASSUME NEW f \in fills
      PROVE  /\ f.maker \in Placed /\ f.price > 0
             /\ request[f.maker].user # request[o].user
             /\ request[f.maker].side # request[o].side
             /\ \A g \in fills : g.maker = f.maker => g = f
             /\ \E e \in book : f.maker = e.id
  <2>1. PICK e \in makers : f = FillOf(makers, taker.remaining, e)
    BY <1>3
  <2>2. e \in book /\ e.side # taker.side /\ e.user # taker.user
        /\ f.maker = e.id /\ f.price = e.price
    BY <1>4, <1>5, <2>1
  <2>3. ASSUME NEW g \in fills, g.maker = f.maker PROVE g = f
    <3>1. PICK d \in makers : g = FillOf(makers, taker.remaining, d)
      BY <1>3
    <3>2. d \in book /\ d.id = e.id
      BY <1>4, <1>5, <2>2, <2>3, <3>1
    <3>3. d = e
      BY <1>1, <2>2, <3>2 DEF Distinct
    <3> QED
      BY <2>1, <3>1, <3>3
  <2> QED
    BY <1>1, <1>6, <2>2, <2>3
<1> QED
  BY <1>2, <1>7 DEF fills, taker

\* What SubmitOrder makes of a call.
LEMMA SubmitEffect ==
    ASSUME Inv, NEW o \in Orders, SubmitOrder(o)
    PROVE  /\ UNCHANGED <<order, trades, request, target, price, cancel, tx>>
           /\ book' = Matched(book, TakerOf(o)) /\ arrivals' = arrivals + 1
           /\ create[o].pc = "placed" /\ create'[o].pc \in {"done", "fill"}
           /\ create'[o].fills = Fills(book, TakerOf(o))
           /\ create'[o].pc = "done" => create'[o].fills = {}
           /\ \A q \in Orders \ {o} : create'[q] = create[q]
           /\ tx[o] = NoTx
<1>1. /\ UNCHANGED <<order, trades, request, target, price, cancel, tx>>
      /\ book' = Matched(book, TakerOf(o)) /\ arrivals' = arrivals + 1
      /\ create[o].pc = "placed" /\ create \in [Orders -> Handlers]
      /\ \E left, rest :
            create' = [create EXCEPT ![o] =
                IF Fills(book, TakerOf(o)) = {} /\ Rests(book, TakerOf(o)) THEN Handler("done")
                ELSE [Handler("fill") EXCEPT !.fills = Fills(book, TakerOf(o)),
                                             !.left = left, !.cancelRest = rest]]
  BY DEF SubmitOrder, TakerOf, db, inputs, Inv, TypeInv, TypeOK
<1> DEFINE F == Fills(book, TakerOf(o))
           R == Rests(book, TakerOf(o))
<1> HIDE DEF F, R
<1>2. PICK left, rest :
        create'[o] = IF F = {} /\ R THEN Handler("done")
                     ELSE [Handler("fill") EXCEPT !.fills = F, !.left = left,
                                                  !.cancelRest = rest]
  BY <1>1 DEF F, R
<1>3. /\ create'[o].pc \in {"done", "fill"} /\ create'[o].fills = F
      /\ create'[o].pc = "done" => create'[o].fills = {}
  BY <1>2 DEF Handler
<1>4. tx[o] = NoTx
  BY <1>1 DEF Inv, IdleInv, SettlingPcs
<1> QED
  BY <1>1, <1>3, <1>4 DEF F

\* After it the book still has each order once, in the order of arrival.
LEMMA SubmitBook ==
    ASSUME Inv, FillsInv, NEW o \in Orders, SubmitOrder(o)
    PROVE  /\ BookOK' /\ IsFiniteSet(book') /\ book' \subseteq BookEntry
           /\ \A e \in book' : e.id = o \/ \E d \in book : d.id = e.id
<1> DEFINE taker == TakerOf(o)
<1>1. /\ UNCHANGED <<order, request>> /\ Placed' = Placed /\ create[o].pc = "placed"
      /\ book' = Matched(book, taker) /\ arrivals' = arrivals + 1 /\ arrivals \in Nat
  BY SubmitEffect DEF Placed, Inv, TypeInv, TypeOK
<1>2. /\ Distinct(book) /\ Newcomer(book, taker) /\ o \in Placed
      /\ taker.id = o /\ taker.user = request[o].user
      /\ taker.side = request[o].side /\ taker.price > 0
      /\ taker.sequence = arrivals + 1
  BY <1>1, SubmitTaker
<1>3. Distinct(Matched(book, taker))
  BY <1>2, MatchedDistinct
<1>4. \A e \in Matched(book, taker) : (\E d : Remains(book, taker, d, e)) \/ Rest(book, taker, e)
  BY <1>2, MatchedEntries DEF Newcomer
<1>5. Left(book, taker) \in Nat
  BY <1>2, TakesWhatItWants DEF Newcomer
<1> HIDE DEF taker
<1>6. ASSUME NEW e \in book' PROVE EntryOf(e)' /\ (e.id = o \/ \E d \in book : d.id = e.id)
  <2>1. CASE Rest(book, taker, e)
    <3>1. /\ e.id = o /\ e.user = request[o].user /\ e.side = request[o].side
          /\ e.price > 0 /\ e.remaining >= 0 /\ e.sequence <= arrivals'
      BY <1>1, <1>2, <1>5, <2>1 DEF Rest
    <3> QED
      BY <1>1, <1>2, <3>1 DEF EntryOf
  <2>2. ASSUME NEW d, Remains(book, taker, d, e)
        PROVE  EntryOf(e)' /\ \E b \in book : b.id = e.id
    <3>1. d \in book /\ EntryOf(d) /\ d.sequence \in Nat
      BY <2>2 DEF Remains, FillsInv, BookOK, Inv, TypeInv, TypeOK, BookEntry
    <3>2. /\ e.id = d.id /\ e.user = d.user /\ e.side = d.side /\ e.price = d.price
          /\ e.sequence = d.sequence /\ e.remaining \in Nat
      BY <2>2 DEF Remains
    <3>3. e.sequence <= arrivals' /\ e.remaining >= 0
      BY <1>1, <3>1, <3>2 DEF EntryOf
    <3> QED
      BY <1>1, <3>1, <3>2, <3>3 DEF EntryOf
  <2> QED
    BY <1>1, <1>4, <2>1, <2>2
<1>7. BookOK'
  BY <1>1, <1>3, <1>6 DEF BookOK, Distinct
<1> QED
  BY <1>1, <1>3, <1>6, <1>7 DEF Distinct

\* The trades that a submit adds to those not committed yet.
LEMMA SubmitMatching ==
    ASSUME Inv, FillsInv, NEW o \in Orders, SubmitOrder(o)
    PROVE  LET T == TradesWith(book, TakerOf(o)) IN
           /\ Matching' \subseteq Matching \cup T /\ Matching \cap T = {}
           /\ IsFiniteSet(T) /\ T \subseteq Trade
           /\ \A t \in T : t.taker = o /\ \E e \in book : t.maker = e.id
           /\ VolumeOf(o, Matching) = 0
<1> DEFINE taker == TakerOf(o)
           T == TradesWith(book, taker)
<1>1. /\ create[o].pc = "placed" /\ create'[o].fills = Fills(book, taker)
      /\ tx' = tx /\ tx[o] = NoTx
      /\ \A q \in Orders \ {o} : create'[q] = create[q]
  BY SubmitEffect
<1>2. Distinct(book) /\ Newcomer(book, taker) /\ taker.id = o
  BY <1>1, SubmitTaker
<1>3. IsFiniteSet(T) /\ T \subseteq Trade
  BY <1>2, TradesWithMakers DEF Newcomer
<1>4. \A t \in T : \E f \in Fills(book, taker) : t = TradeOf(o, f)
  BY <1>2 DEF TradesWith
<1>5. \A t \in T : t.taker = o /\ \E e \in book : t.maker = e.id
  BY <1>1, <1>4, SubmitFills DEF TradeOf
<1>6. \A t \in Matching : t.maker # o /\ t.taker # o
  BY <1>1 DEF FillsInv, UnsubmittedOK
<1>7. Matching' \subseteq Matching \cup T
  <2>1. Unsettled(o)' = T
    BY <1>1, <1>2, NoTrades DEF Unsettled, TradesWith, TradeOf
  <2>2. \A q \in Orders \ {o} : Unsettled(q)' = Unsettled(q)
    BY <1>1 DEF Unsettled, TradeOf
  <2> HIDE DEF T
  <2> QED
    BY <2>1, <2>2 DEF Matching
<1>8. Matching \cap T = {}
  BY <1>5, <1>6
<1>9. VolumeOf(o, Matching) = 0
  BY <1>6, VolumeNone
<1> QED
  BY <1>3, <1>5, <1>7, <1>8, <1>9

LEMMA SubmitEngine ==
    ASSUME Inv, FillsInv, NEW o \in Orders, SubmitOrder(o)
    PROVE  UnsubmittedOK' /\ EngineWithinOrders'
<1> DEFINE taker == TakerOf(o)
           T == TradesWith(book, taker)
<1>1. /\ UNCHANGED <<order, request>> /\ create[o].pc = "placed"
      /\ create'[o].pc \in {"done", "fill"} /\ book' = Matched(book, taker)
      /\ \A q \in Orders \ {o} : create'[q] = create[q]
  BY SubmitEffect
<1>2. /\ Distinct(book) /\ Newcomer(book, taker) /\ taker.id = o
      /\ taker.remaining = order[o].remaining
  BY <1>1, SubmitTaker
<1>3. /\ Matching' \subseteq Matching \cup T /\ Matching \cap T = {}
      /\ IsFiniteSet(T) /\ T \subseteq Trade
      /\ \A t \in T : t.taker = o /\ \E e \in book : t.maker = e.id
      /\ VolumeOf(o, Matching) = 0
  BY SubmitMatching
<1>4. \A x : x # o => OfferIn(book', x) + VolumeOf(x, T) <= OfferIn(book, x)
  BY <1>1, <1>2, MakerGives
<1>5. OfferIn(book', o) + VolumeOf(o, T) <= order[o].remaining
  BY <1>1, <1>2, TakerGets
<1> HIDE DEF T, taker
<1>6. UnsubmittedOK'
  <2>1. \A e \in book' : e.id = o \/ \E d \in book : d.id = e.id
    BY SubmitBook
  <2>2. ASSUME NEW x \in Orders, create'[x].pc \in {"new", "placing", "placed"}
        PROVE  /\ \A e \in book' : e.id # x
               /\ \A t \in Matching' : t.maker # x /\ t.taker # x
               /\ create'[x].pc = "placed" => order'[x].remaining = request'[x].quantity
    <3>1. x # o /\ create'[x] = create[x]
      BY <1>1, <2>2
    <3>2. /\ \A e \in book : e.id # x
          /\ \A t \in Matching : t.maker # x /\ t.taker # x
          /\ create[x].pc = "placed" => order[x].remaining = request[x].quantity
      BY <2>2, <3>1 DEF FillsInv, UnsubmittedOK
    <3>3. \A t \in T : t.maker # x /\ t.taker # x
      BY <1>3, <3>1, <3>2
    <3> QED
      BY <1>1, <1>3, <2>1, <3>1, <3>2, <3>3
  <2> QED
    BY <2>2 DEF UnsubmittedOK
<1>7. ASSUME NEW x \in Orders PROVE InEngine(x)' <= order'[x].remaining
  <2>1. /\ IsFiniteSet(Matching) /\ Matching \subseteq Trade
        /\ IsFiniteSet(Matching \cup T) /\ Matching \cup T \subseteq Trade
        /\ IsFiniteSet(Matching') /\ Matching' \subseteq Trade
    BY <1>3, MatchingType, FS_Union, FS_Subset
  <2>2. VolumeOf(x, Matching') <= VolumeOf(x, Matching \cup T)
    BY <1>3, <2>1, VolumeLess
  <2>3. VolumeOf(x, Matching \cup T) = VolumeOf(x, Matching) + VolumeOf(x, T)
    BY <1>3, <2>1, VolumeUnion
  <2>4. OfferIn(book, x) + VolumeOf(x, Matching) <= order[x].remaining
    BY DEF FillsInv, EngineWithinOrders, InEngine, OfferIn, VolumeOf, Matching
  <2>5. /\ OfferIn(book, x) \in Nat /\ OfferIn(book', x) \in Nat /\ VolumeOf(x, T) \in Nat
        /\ VolumeOf(x, Matching) \in Nat /\ VolumeOf(x, Matching') \in Nat
        /\ order[x].remaining \in Int
    BY <1>3, <2>1, SubmitBook, OfferType, VolumeType DEF Inv, TypeInv, TypeOK, OrderRow
  <2>6. InEngine(x)' = OfferIn(book', x) + VolumeOf(x, Matching')
    BY DEF InEngine, OfferIn, VolumeOf, Matching
  <2>7. OfferIn(book', x) + VolumeOf(x, Matching') <= order[x].remaining
    <3>1. \A a, b, m, n, t \in Nat, r \in Int :
             n <= m + t /\ b + t <= a /\ a + m <= r => b + n <= r
      OBVIOUS
    <3>2. \A b, n, t \in Nat, r \in Int : n <= 0 + t /\ b + t <= r => b + n <= r
      OBVIOUS
    <3>3. CASE x # o
      BY <1>4, <2>2, <2>3, <2>4, <2>5, <3>1, <3>3
    <3>4. CASE x = o
      BY <1>3, <1>5, <2>2, <2>3, <2>5, <3>2, <3>4
    <3> QED
      BY <3>3, <3>4
  <2> QED
    BY <1>1, <2>6, <2>7
<1> QED
  BY <1>6, <1>7 DEF EngineWithinOrders

LEMMA SubmitFollows ==
    ASSUME Inv, FillsInv, NEW o \in Orders, SubmitOrder(o)
    PROVE  FillsInv'
<1>1. /\ UNCHANGED <<order, trades, request, target, price, cancel, tx>>
      /\ create[o].pc = "placed" /\ create'[o].pc \in {"done", "fill"}
      /\ create'[o].fills = Fills(book, TakerOf(o))
      /\ create'[o].pc = "done" => create'[o].fills = {}
      /\ \A q \in Orders \ {o} : create'[q] = create[q]
      /\ tx[o] = NoTx
  BY SubmitEffect
<1>2. Placed' = Placed /\ o \in Placed
  BY <1>1, SubmitTaker DEF Placed
<1>3. RowsOK'
  <2>1. \A q \in Orders : /\ create'[q].pc \in {"placed"} \cup SettlingPcs => q \in Placed
                          /\ create'[q].pc = "placing" => price[q] > 0
    BY <1>1, <1>2 DEF FillsInv, RowsOK
  <2> QED
    BY <1>1, <1>2, <2>1 DEF FillsInv, RowsOK
<1>4. WritesOK' /\ CancelsPlaced'
  BY <1>1, <1>2, WritesSame, CancelsStayPlaced
<1>5. SettlementsOK'
  <2>1. \A x \in Orders : order'[x] \in OrderRow /\ order'[x].filled \in Int
    BY <1>1 DEF Inv, TypeInv, TypeOK, OrderRow
  <2>2. ASSUME NEW q \in Orders PROVE SettlementOK(q)'
    <3>1. CASE q # o
      <4>1. \A x \in Orders : SameFills(x)
        BY <1>1 DEF SameFills
      <4> QED
        BY <1>1, <1>2, <2>1, <3>1, <4>1, SettlementSame
    <3>2. CASE q = o
      <4>1. FillsOf(o)'
        BY <1>1, <1>2, SubmitFills, NoTrades DEF FillsOf, SettlingPcs
      <4>2. TradesOfCall(o)' /\ SeenOK(o)'
        BY <1>1, NoTrades DEF TradesOfCall, SeenOK, Working
      <4>3. ASSUME NEW x \in Orders PROVE Follows(o, x)'
        <5>1. OrderSeen(o, x)' = order'[x] /\ Pend(o, x)' = 0
          BY <1>1, NoTxFields DEF OrderSeen, Pend
        <5>2. VolumeOf(x, tx'[o].trades) = 0
          BY <1>1, NoTrades
        <5> QED
          BY <2>1, <5>1, <5>2 DEF Follows, VolumeOf, Volume, TradesOf
      <4> QED
        BY <3>2, <4>1, <4>2, <4>3 DEF SettlementOK
    <3> QED
      BY <3>1, <3>2
  <2> QED
    BY <2>2 DEF SettlementsOK, SettlementOK
<1>6. HistoryOK'
  <2>1. \A t \in trades : create'[t.taker].pc = "done"
    BY <1>1 DEF FillsInv, HistoryOK, Inv, TypeInv, TypeOK, Trade
  <2> QED
    BY <1>1, <2>1 DEF FillsInv, HistoryOK, VolumeOf, Volume, TradesOf
<1> QED
  BY <1>3, <1>4, <1>5, <1>6, SubmitBook, SubmitEngine DEF FillsInv
-----------------------------------------------------------------------------
(* A restart *)

\* What is in the engine is not negative, and so neither is what remains.
LEMMA RemainingNat ==
    ASSUME Inv, FillsInv, NEW x \in Orders
    PROVE  InEngine(x) \in Nat /\ order[x].remaining \in Nat
<1>1. InEngine(x) = OfferIn(book, x) + VolumeOf(x, Matching)
  BY DEF InEngine, OfferIn, VolumeOf, Matching
<1>2. OfferIn(book, x) \in Nat /\ VolumeOf(x, Matching) \in Nat
  BY OfferType, MatchingType, VolumeType DEF Inv, TypeInv, TypeOK
<1>3. order[x].remaining \in Int /\ InEngine(x) <= order[x].remaining
  BY DEF FillsInv, EngineWithinOrders, Inv, TypeInv, TypeOK, OrderRow
<1> QED
  BY <1>1, <1>2, <1>3

LEMMA RestartFollows ==
    ASSUME Inv, FillsInv, FreshInv, Restart
    PROVE  FillsInv'
<1>1. /\ UNCHANGED <<order, trades, request, target, price>>
      /\ \A p \in Calls : tx'[p] = NoTx
      /\ \A o \in Orders : o \in Calls
      /\ \A c \in CancelCalls : c \in Calls
      /\ arrivals' = Cardinality(Placed)
  BY DEF Restart, db, inputs, Calls
<1>2. /\ \A o \in Orders : create'[o] = IF InFlight(o) THEN Handler("lost") ELSE create[o]
      /\ \A c \in CancelCalls : cancel'[c] = cancel[c] \/ cancel'[c].pc = "lost"
  BY DEF Restart, Canceller
<1>3. \A o \in Orders :
        \/ create'[o] = create[o] /\ create[o].pc \in CreateEnds \cup {"new"}
        \/ create'[o] = Handler("lost") /\ create[o].pc \notin CreateEnds \cup {"new"}
  BY <1>2 DEF InFlight
<1>4. ASSUME NEW o \in Orders PROVE (Stays(o) \/ Ends(o)) /\ create'[o].fills = {}
  <2>1. CASE create'[o] = create[o] /\ create[o].pc \in CreateEnds \cup {"new"}
    <3>1. create[o].pc \notin SettlingPcs
      BY <2>1 DEF CreateEnds, SettlingPcs
    <3>2. tx[o] = NoTx /\ create[o].fills = {}
      BY <3>1 DEF Inv, IdleInv, FillsInv, SettlementsOK, FillsOf
    <3> QED
      BY <1>1, <2>1, <3>2 DEF Stays
  <2>2. CASE create'[o] = Handler("lost") /\ create[o].pc \notin CreateEnds \cup {"new"}
    BY <1>1, <2>2 DEF Ends, Handler, CreateEnds, SettlingPcs
  <2> QED
    BY <1>3, <2>1, <2>2
<1>5. RowsOK' /\ SettlementsOK' /\ HistoryOK'
  <2>1. Uncommitted
    BY <1>1, <1>4 DEF Uncommitted
  <2> QED
    BY <2>1, UncommittedRows
<1>6. Placed' = Placed
  BY <1>1 DEF Placed
<1>7. WritesOK' /\ CancelsPlaced'
  BY <1>1, <1>2, <1>6, WritesSame, CancelsStayPlaced DEF CancellingPcs
<1>8. \A e \in book' : \E o \in Placed :
          e = EngineOrder(o, order[o].remaining, order[o].created)
  BY DEF Restart, Placed, OpenStatuses
<1>9. BookOK'
  <2>1. ASSUME NEW o \in Placed,
               NEW e, e = EngineOrder(o, order[o].remaining, order[o].created)
        PROVE  EntryOf(e)' /\ e.id = o /\ e.sequence = order[o].created
    <3>1. o \in Orders /\ price[o] > 0 /\ order[o].created <= Cardinality(Placed)
          /\ order[o].remaining >= 0
      <4>1. o \in Orders
        BY DEF Placed
      <4>2. order[o].remaining >= 0
        BY <4>1, RemainingNat
      <4> QED
        BY <4>1, <4>2 DEF FillsInv, RowsOK
    <3>2. /\ e.id = o /\ e.user = request[o].user /\ e.side = request[o].side
          /\ e.price = price[o] /\ e.remaining = order[o].remaining
          /\ e.sequence = order[o].created
      BY <2>1 DEF EngineOrder
    <3> QED
      BY <1>1, <1>6, <3>1, <3>2 DEF EntryOf
  <2>2. ASSUME NEW d \in book', NEW e \in book', d.id = e.id \/ d.sequence = e.sequence
        PROVE  d = e
    <3>1. PICK x \in Placed : d = EngineOrder(x, order[x].remaining, order[x].created)
      BY <1>8
    <3>2. PICK y \in Placed : e = EngineOrder(y, order[y].remaining, order[y].created)
      BY <1>8
    <3>3. x = y \/ order[x].created = order[y].created
      BY <2>1, <2>2, <3>1, <3>2
    <3>4. x = y
      BY <3>3 DEF FillsInv, RowsOK
    <3> QED
      BY <3>1, <3>2, <3>4
  <2> QED
    BY <1>8, <2>1, <2>2 DEF BookOK
<1>10. Matching' = {}
  BY <1>1, <1>4, NoTrades DEF Matching, Unsettled
<1>11. UnsubmittedOK'
  <2>1. ASSUME NEW x \in Orders, create'[x].pc \in {"new", "placing", "placed"}
        PROVE  /\ \A e \in book' : e.id # x
               /\ create'[x].pc # "placed"
    <3>1. create'[x] = create[x] /\ create[x].pc = "new"
      BY <1>3, <2>1 DEF Handler, CreateEnds
    <3>2. x \notin Placed
      BY <3>1 DEF FreshInv, Fresh, NoRow, Placed, NoOrder
    <3>3. \A e \in book' : e.id \in Placed
      BY <1>8 DEF EngineOrder
    <3> QED
      BY <3>1, <3>2, <3>3
  <2> QED
    BY <1>10, <2>1 DEF UnsubmittedOK
<1>12. ASSUME NEW x \in Orders PROVE InEngine(x)' <= order'[x].remaining
  <2>1. VolumeOf(x, Matching') = 0
    BY <1>10, NoTrades
  <2>2. order[x].remaining \in Nat
    BY RemainingNat
  <2>3. OfferIn(book', x) \in {0, order[x].remaining}
    <3>1. CASE \A e \in book' : e.id # x
      BY <3>1, OfferNone
    <3>2. ASSUME NEW e \in book', e.id = x PROVE OfferIn(book', x) = order[x].remaining
      <4>1. e.remaining = order[x].remaining
        BY <1>8, <3>2 DEF EngineOrder
      <4>2. \A d \in book' : d.id = x => d = e
        BY <1>9, <3>2 DEF BookOK
      <4> QED
        BY <2>2, <3>2, <4>1, <4>2, OfferOne
    <3> QED
      BY <3>1, <3>2
  <2>4. InEngine(x)' = OfferIn(book', x) + VolumeOf(x, Matching')
    BY DEF InEngine, OfferIn, VolumeOf, Matching
  <2> QED
    BY <1>1, <2>1, <2>2, <2>3, <2>4
<1> QED
  BY <1>5, <1>7, <1>9, <1>11, <1>12 DEF FillsInv, EngineWithinOrders
-----------------------------------------------------------------------------
(* All steps *)

LEMMA InitFollows ==
    ASSUME Init
    PROVE  FillsInv
<1>1. /\ order = [o \in Orders |-> NoOrder] /\ trades = {} /\ book = {}
      /\ \A o \in Orders : create[o] = Handler("new") /\ tx[o] = NoTx /\ o \in Calls
      /\ \A c \in CancelCalls : cancel[c].pc = "new" /\ c \in Calls
      /\ \A p \in Calls : tx[p] = NoTx
  BY DEF Init, Canceller, Calls
<1>2. /\ \A x \in Orders : order[x] = NoOrder
      /\ NoOrder.status = "NONE" /\ NoOrder.filled = 0 /\ NoOrder.remaining = 0
      /\ Handler("new").pc = "new" /\ Handler("new").fills = {}
  BY <1>1 DEF NoOrder, Handler
<1>3. Placed = {}
  BY <1>2 DEF Placed
<1>4. RowsOK
  BY <1>1, <1>2, <1>3 DEF RowsOK, SettlingPcs
<1>5. WritesOK
  BY <1>1, NoTxFields, NoTrades DEF WritesOK
<1>6. CancelsPlaced
  BY <1>1 DEF CancelsPlaced, CancellingPcs
<1>7. SettlementsOK
  <2>1. ASSUME NEW o \in Orders
        PROVE  FillsOf(o) /\ TradesOfCall(o) /\ SeenOK(o) /\ \A x \in Orders : Follows(o, x)
    <3>1. /\ create[o].pc = "new" /\ create[o].fills = {} /\ tx[o] = NoTx
      BY <1>1, <1>2
    <3>2. FillsOf(o) /\ TradesOfCall(o) /\ SeenOK(o)
      BY <3>1, NoTrades DEF FillsOf, TradesOfCall, SeenOK, Working, SettlingPcs
    <3>3. ASSUME NEW x \in Orders PROVE Follows(o, x)
      <4>1. OrderSeen(o, x) = order[x] /\ Pend(o, x) = 0
        BY <3>1, NoTxFields DEF OrderSeen, Pend
      <4>2. VolumeOf(x, tx[o].trades) = 0
        BY <3>1, NoTrades
      <4> QED
        BY <1>2, <4>1, <4>2 DEF Follows
    <3> QED
      BY <3>2, <3>3
  <2> QED
    BY <2>1 DEF SettlementsOK
<1>8. BookOK
  BY <1>1 DEF BookOK
<1>9. HistoryOK
  BY <1>1, <1>2, NoTrades DEF HistoryOK
<1>10. Matching = {}
  BY <1>1, <1>2, NoTrades DEF Matching, Unsettled
<1>11. UnsubmittedOK
  BY <1>1, <1>2, <1>10 DEF UnsubmittedOK
<1>12. EngineWithinOrders
  <2>1. ASSUME NEW x \in Orders PROVE InEngine(x) <= order[x].remaining
    <3>1. OfferIn(book, x) = 0 /\ VolumeOf(x, Matching) = 0
      BY <1>1, <1>10, OfferNone, NoTrades
    <3>2. InEngine(x) = OfferIn(book, x) + VolumeOf(x, Matching)
      BY DEF InEngine, OfferIn, VolumeOf, Matching
    <3> QED
      BY <1>2, <3>1, <3>2
  <2> QED
    BY <2>1 DEF EngineWithinOrders
<1> QED
  BY <1>4, <1>5, <1>6, <1>7, <1>8, <1>9, <1>11, <1>12 DEF FillsInv

LEMMA StepFollows ==
    ASSUME Inv, FreshInv, GuardInv, FillsInv, [Next]_vars
    PROVE  FillsInv'
<1>1. CASE UNCHANGED vars
  <2>1. /\ UNCHANGED <<order, trades, request, target, price, book, arrivals>>
        /\ UNCHANGED <<create, cancel, tx>>
    BY <1>1 DEF vars, db, engine, inputs
  <2>2. Uncommitted
    BY <2>1 DEF Uncommitted, Stays
  <2>3. WritesOK' /\ CancelsPlaced'
    BY <2>1, WritesSame, CancelsStayPlaced DEF Placed
  <2> QED
    BY <2>1, <2>2, <2>3, UncommittedKeeps
<1>2. ASSUME NEW o \in Orders, ReceiveOrder(o) \/ CreateStep(o) PROVE FillsInv'
  <2>1. CASE CommitSettlement(o)
    <3>1. /\ Commit(o) /\ o \in Calls /\ create[o].pc = "fill"
          /\ create' = [create EXCEPT ![o] = Handler("done")]
          /\ UNCHANGED <<request, target, price, book, arrivals, cancel>>
      BY <2>1 DEF CommitSettlement, engine, inputs, Calls
    <3>2. create'[o] = Handler("done") /\ \A q \in Orders \ {o} : create'[q] = create[q]
      BY <3>1 DEF Inv, TypeInv, TypeOK
    <3> QED
      BY <3>1, <3>2, CommitFollows
  <2> QED
    BY <1>2, <2>1, ReceiveFollows, PlaceFollows, SubmitFollows, BlockFollows
       DEF CreateStep, Block
<1>3. ASSUME NEW c \in CancelCalls, ReceiveCancel(c) \/ CancelStep(c) PROVE FillsInv'
  <2>1. CASE CommitCancel(c)
    <3>1. /\ Commit(c) /\ c \in Calls /\ c \notin Orders
          /\ cancel' = [cancel EXCEPT ![c] = Canceller("done")]
          /\ UNCHANGED <<request, target, price, book, arrivals, create>>
      BY <2>1, ExchangeAssumption DEF CommitCancel, engine, inputs, Calls
    <3>2. \A d \in CancelCalls : cancel'[d] = cancel[d] \/ cancel'[d].pc = "done"
      BY <3>1 DEF Canceller, Inv, TypeInv, TypeOK
    <3> QED
      BY <3>1, <3>2, CommitFollows
  <2> QED
    BY <1>3, <2>1, CancelFollows DEF CancelStep
<1> QED
  BY <1>1, <1>2, <1>3, FailFollows, RestartFollows DEF Next

\* In every reachable state locks, holds, rows, fills, trades and the book fit
\* each other: what settleFill, cancelOrder and the engine leave for each other
\* at every await, as the invariants above spell out.
THEOREM FillsCorrect == Spec => [](Inv /\ FreshInv /\ GuardInv /\ FillsInv)
<1> DEFINE I == Inv /\ FreshInv /\ GuardInv /\ FillsInv
<1>1. Init => I
  BY InitInv, InitFresh, InitGuards, InitFollows
<1>2. I /\ [Next]_vars => I'
  BY StepInv, StepFresh, StepGuards, StepFollows
<1> QED
  BY <1>1, <1>2, PTL DEF Spec

\* Whatever settles at once, fails, is cancelled or lost: what an order has
\* filled is what its committed trades say, and the rest remains of it; no
\* settlement overwrites the fills of another one (matching.service.ts 217-229
\* writes them from a row it read before).
THEOREM FillsAreNeverLost == Spec => []FilledMatchesTrades
<1>1. Inv /\ FillsInv => FilledMatchesTrades
  <2>1. ASSUME Inv, FillsInv, NEW o \in Placed
        PROVE  /\ order[o].filled = Volume(TradesOf(o, trades))
               /\ order[o].remaining = request[o].quantity - order[o].filled
               /\ order[o].remaining >= 0
    <3>1. o \in Orders
      BY DEF Placed
    <3>2. order[o].filled = Volume(TradesOf(o, trades))
      BY <2>1, <3>1 DEF FillsInv, HistoryOK, VolumeOf
    <3>3. order[o].filled + order[o].remaining = request[o].quantity
      BY <2>1 DEF FillsInv, RowsOK
    <3>4. order[o].filled \in Int /\ order[o].remaining \in Int
      BY <2>1, <3>1 DEF Inv, TypeInv, TypeOK, OrderRow
    <3>5. order[o].remaining >= 0
      BY <2>1, <3>1, RemainingNat
    <3>6. order[o].remaining = request[o].quantity - order[o].filled
      BY <3>3, <3>4
    <3> QED
      BY <3>2, <3>5, <3>6
  <2> QED
    BY <2>1 DEF FilledMatchesTrades
<1> QED
  BY <1>1, FillsCorrect, PTL

\* What the engine offers of an order, with what it matched and nobody has
\* committed yet, never exceeds what the database has left of it, so no fill
\* the engine reports can overfill an order, after a restart or a failed
\* settlement either (matching.service.ts 59-74, 106-126).
THEOREM EngineNeverOverpromises == Spec => []EngineWithinOrders
<1>1. FillsInv => EngineWithinOrders
  BY DEF FillsInv
<1> QED
  BY <1>1, FillsCorrect, PTL

\* A call that is not open has no row pending and nothing to settle.
LEMMA NotOpen ==
    ASSUME Inv, FillsInv, NEW p \in Calls, ~InFlight(p)
    PROVE  /\ tx[p] = NoTx
           /\ p \in Orders => /\ create[p].pc \notin SettlingPcs \cup {"placing", "placed"}
                              /\ create[p].fills = {}
           /\ p \in CancelCalls => cancel[p].pc \notin CancellingPcs
<1>1. TypeOK /\ IdleInv /\ p \in Orders \cup CancelCalls
  BY DEF Inv, TypeInv, Calls
<1>2. CASE p \in Orders
  <2>1. create[p].pc \notin SettlingPcs \cup {"placing", "placed"}
    BY <1>2 DEF InFlight, SettlingPcs, CreateEnds
  <2>2. create[p].fills = {}
    BY <1>2, <2>1 DEF FillsInv, SettlementsOK, FillsOf
  <2> QED
    BY <1>1, <1>2, <2>1, <2>2, ExchangeAssumption DEF IdleInv
<1>3. CASE p \in CancelCalls
  <2>1. cancel[p].pc \notin CancellingPcs /\ p \notin Orders
    BY <1>3, ExchangeAssumption DEF InFlight, CancellingPcs, CancelEnds
  <2> QED
    BY <1>1, <1>3, <2>1 DEF IdleInv, CancellingPcs
<1> QED
  BY <1>1, <1>2, <1>3
-----------------------------------------------------------------------------
(* What holds reserve *)

\* An open row, of which n are still to be filled, has what is left after that
\* reserved; another row has nothing.
Covered(x, row, h, n) ==
    IF row.status \in OpenStatuses /\ row.remaining > n
    THEN h = [status |-> "ACTIVE", amount |-> reserveAmount(x, row.remaining - n)]
    ELSE h.status # "ACTIVE"

\* What hold h of order x keeps locked on account a.
Locks(h, x, a) == IF h.status = "ACTIVE" /\ HoldAccount(x) = a THEN h.amount ELSE 0

\* What the holds h keep locked on account a.
Held(h, a) ==
    NatSum([x \in Orders |-> h[x].amount],
           {x \in Orders : h[x].status = "ACTIVE" /\ HoldAccount(x) = a})

HoldsSeen(p) == [x \in Orders |-> HoldSeen(p, x)]

\* What is held is a sum over all orders.
LEMMA HeldSum ==
    ASSUME NEW h \in [Orders -> HoldRow], NEW a
    PROVE  /\ Held(h, a) = NatSum([x \in Orders |-> Locks(h[x], x, a)], Orders)
           /\ [x \in Orders |-> Locks(h[x], x, a)] \in [Orders -> Nat]
<1> DEFINE S == {x \in Orders : h[x].status = "ACTIVE" /\ HoldAccount(x) = a}
           f == [x \in Orders |-> h[x].amount]
           g == [x \in Orders |-> Locks(h[x], x, a)]
<1>1. g \in [Orders -> Nat]
  BY DEF HoldRow, Locks
<1>2. Tokens(f, S) = Tokens(g, Orders)
  <2>1. \A x \in S : g[x] = f[x]
    BY DEF Locks
  <2>2. \A x \in Orders \ S : g[x] = 0
    BY DEF Locks
  <2>3. \A x \in Orders : {x} \X (1 .. 0) = {}
    OBVIOUS
  <2> HIDE DEF f, g
  <2>4. S \subseteq Orders
    OBVIOUS
  <2> HIDE DEF S
  <2> QED
    BY <2>1, <2>2, <2>3, <2>4 DEF Tokens
<1> QED
  BY <1>1, <1>2 DEF Held, NatSum

\* What is held is a natural number.
LEMMA HeldType ==
    ASSUME NEW h \in [Orders -> HoldRow], NEW a
    PROVE  Held(h, a) \in Nat
<1> DEFINE g == [x \in Orders |-> Locks(h[x], x, a)]
<1>1. Held(h, a) = NatSum(g, Orders) /\ g \in [Orders -> Nat]
  BY HeldSum
<1> HIDE DEF g
<1>2. g \in [Orders -> Int]
  BY <1>1
<1> QED
  BY <1>1, <1>2, NatSumType, ExchangeAssumption

\* One hold changes, and with it what is locked on its account.
LEMMA HeldChange ==
    ASSUME NEW h \in [Orders -> HoldRow], NEW k \in [Orders -> HoldRow], NEW x \in Orders,
           \A y \in Orders \ {x} : k[y] = h[y], NEW a
    PROVE  Held(k, a) - Held(h, a) = Locks(k[x], x, a) - Locks(h[x], x, a)
<1> DEFINE S == Orders \ {x}
           f == [y \in Orders |-> Locks(h[y], y, a)]
           g == [y \in Orders |-> Locks(k[y], y, a)]
           r == [y \in S |-> Locks(h[y], y, a)]
<1>1. /\ Held(h, a) = NatSum(f, Orders) /\ f \in [Orders -> Nat]
      /\ Held(k, a) = NatSum(g, Orders) /\ g \in [Orders -> Nat]
  BY HeldSum
<1>2. r \in [S -> Nat] /\ \A y \in S : f[y] = r[y] /\ g[y] = r[y]
  BY <1>1
<1>3. f[x] = Locks(h[x], x, a) /\ g[x] = Locks(k[x], x, a)
  OBVIOUS
<1> HIDE DEF f, g, r
<1>4. IsFiniteSet(S) /\ x \notin S /\ S \cup {x} = Orders
  BY ExchangeAssumption, FS_Subset
<1> HIDE DEF S
<1>5. NatSum(f, Orders) = NatSum(r, S) + f[x]
  BY <1>1, <1>2, <1>4, NatSumInsert
<1>6. NatSum(g, Orders) = NatSum(r, S) + g[x]
  BY <1>1, <1>2, <1>4, NatSumInsert
<1>7. NatSum(r, S) \in Nat
  BY <1>2, <1>4, NatSumType
<1> QED
  BY <1>1, <1>3, <1>4, <1>5, <1>6, <1>7

\* What is reserved for quantities adds up, and something is for more than nothing.
LEMMA ReserveAdds ==
    ASSUME TypeOK, NEW x \in Orders, price[x] > 0, NEW m \in Nat, NEW n \in Nat, n <= m
    PROVE  /\ reserveAmount(x, m) - reserveAmount(x, n) = reserveAmount(x, m - n)
           /\ reserveAmount(x, m) \in Nat /\ reserveAmount(x, n) \in Nat
           /\ reserveAmount(x, m - n) \in Nat
           /\ reserveAmount(x, m - n) = 0 <=> m = n
           /\ n > 0 => reserveAmount(x, n) > 0
<1>1. price[x] \in Nat \ {0}
  BY DEF TypeOK
<1>2. \A p \in Nat \ {0}, i, j \in Nat : j <= i =>
         /\ p * i - p * j = p * (i - j) /\ p * i \in Nat /\ p * j \in Nat
         /\ p * (i - j) \in Nat /\ (p * (i - j) = 0 <=> i = j)
         /\ (j > 0 => p * j > 0)
  <2>1. \A p \in Nat \ {0}, i, j \in Nat : p * i - p * j = p * (i - j)
    OBVIOUS
  <2>2. \A p \in Nat \ {0}, k \in Nat : p * k \in Nat /\ (p * k = 0 <=> k = 0)
    OBVIOUS
  <2> QED
    BY <2>1, <2>2
<1> QED
  BY <1>1, <1>2 DEF reserveAmount
-----------------------------------------------------------------------------
(* What a settlement un-reserves *)

\* The hold of x gives up amount, which is unlocked on its account.
GivesUp(o, x, amount) ==
    /\ \A y \in Orders \ {x} : tx'[o].hold[y] = tx[o].hold[y]
    /\ tx'[o].hold[x] = IF create[o].seenHold.amount - amount <= 0
                        THEN [status |-> "CONSUMED", amount |-> 0]
                        ELSE [status |-> HoldSeen(o, x).status,
                              amount |-> create[o].seenHold.amount - amount]
    /\ \A a \in Accounts :
          tx'[o].delta[a].locked
             = tx[o].delta[a].locked - (IF a = HoldAccount(x) THEN amount ELSE 0)

KeepsLocked(o) == \A a \in Accounts : tx'[o].delta[a].locked = tx[o].delta[a].locked

KeepsRest(o) ==
    create'[o].cancelRest = create[o].cancelRest /\ create'[o].left = create[o].left

\* Whatever the hold of x was, only its account is unlocked.
LocksOnly(o, x) ==
    \A a \in Accounts \ {HoldAccount(x)} : tx'[o].delta[a].locked = tx[o].delta[a].locked

\* A hold that was read when it was active gives up amount.
GivesUpActive(o, x, amount) == create[o].seenHold.status = "ACTIVE" => GivesUp(o, x, amount)

\* What a call adds to what is locked is an integer.
LEMMA LockedType ==
    ASSUME Inv, NEW p \in Calls, NEW a \in Accounts
    PROVE  tx[p].delta[a].locked \in Int
BY DEF Inv, TypeInv, TypeOK, Tx, Balance

\* What reduceHold writes to an active hold and its account.
LEMMA ReduceHoldExact ==
    ASSUME Inv, NEW o \in Orders, NEW x \in Orders, NEW amount \in Nat,
           create[o].seenHold.status = "ACTIVE"
    PROVE  LET t == reduceHold(tx[o], o, x, amount) IN
           /\ t.hold[x] = IF create[o].seenHold.amount - amount <= 0
                          THEN [status |-> "CONSUMED", amount |-> 0]
                          ELSE [status |-> HoldSeen(o, x).status,
                                amount |-> create[o].seenHold.amount - amount]
           /\ \A a \in Accounts :
                 t.delta[a].locked
                    = tx[o].delta[a].locked - (IF a = HoldAccount(x) THEN amount ELSE 0)
<1> DEFINE a == HoldAccount(x)
           t == reduceHold(tx[o], o, x, amount)
           left == create[o].seenHold.amount - amount
           row == IF left <= 0 THEN [status |-> "CONSUMED", amount |-> 0]
                  ELSE [status |-> HoldSeen(o, x).status, amount |-> left]
<1>1. tx[o] \in Tx /\ TypeOK /\ a \in Accounts
  BY ReserveType DEF Inv, TypeInv, TypeOK, Calls
<1>2. /\ tx[o].delta \in [Accounts -> Balance] /\ tx[o].hold \in [Orders -> HoldRow]
  BY <1>1 DEF Tx
<1>3. t = [tx[o] EXCEPT !.delta[a] = [available |-> @.available + amount,
                                      locked |-> @.locked - amount],
                        !.hold[x] = row]
  BY DEF reduceHold
<1> HIDE DEF t, row, a
<1>4. t.hold = [tx[o].hold EXCEPT ![x] = row]
  BY <1>1, <1>3 DEF Tx
<1>5. t.delta = [tx[o].delta EXCEPT ![a] = [available |-> @.available + amount,
                                           locked |-> @.locked - amount]]
  BY <1>1, <1>3 DEF Tx
<1>6. t.hold[x] = row
  BY <1>2, <1>4
<1>7. \A b \in Accounts : t.delta[b].locked
        = tx[o].delta[b].locked - (IF b = a THEN amount ELSE 0)
  BY <1>1, <1>2, <1>5 DEF Balance
<1> QED
  BY <1>6, <1>7 DEF t, row, a

\* reduceHold leaves what is locked on all other accounts.
LEMMA ReduceHoldLocks ==
    ASSUME Inv, NEW o \in Orders, NEW x \in Orders, NEW amount \in Nat
    PROVE  \A a \in Accounts \ {HoldAccount(x)} :
              reduceHold(tx[o], o, x, amount).delta[a].locked = tx[o].delta[a].locked
<1>1. CASE create[o].seenHold.status = "ACTIVE"
  <2>1. PICK t : t = reduceHold(tx[o], o, x, amount)
    OBVIOUS
  <2>2. \A a \in Accounts : t.delta[a].locked
                = tx[o].delta[a].locked - (IF a = HoldAccount(x) THEN amount ELSE 0)
    BY <1>1, <2>1, ReduceHoldExact
  <2>3. \A a \in Accounts : tx[o].delta[a].locked \in Int
    BY LockedType DEF Calls
  <2> QED
    BY <2>1, <2>2, <2>3
<1>2. CASE create[o].seenHold.status # "ACTIVE"
  BY <1>2 DEF reduceHold
<1> QED
  BY <1>1, <1>2

\* The rest of what Settle makes of a transaction.
LEMMA SettleDelta ==
    ASSUME Inv, NEW o \in Orders, NEW t \in Tx, NEW h, Settle(o, t, h)
    PROVE  tx'[o].delta = t.delta /\ create'[o] = h
<1>1. tx \in [Calls -> Tx] /\ o \in Calls /\ create \in [Orders -> Handlers]
  BY DEF Inv, TypeInv, TypeOK, Calls
<1> QED
  BY <1>1 DEF Settle, Tx

\* What a block does to the holds, to what is locked and to the rest, and which
\* hold it reads.
Exact(o) ==
    \/ /\ Moves(o, "fill", "buyer") /\ KeepsLocked(o) /\ KeepsRest(o)
       /\ create[o].fills # {}
       /\ create'[o].seenHold = HoldSeen(o, Buyer(o))
    \/ /\ Moves(o, "buyer", "seller") /\ KeepsRest(o)
       /\ GivesUpActive(o, Buyer(o), reserveAmount(Buyer(o), NextFill(o).quantity))
       /\ LocksOnly(o, Buyer(o)) /\ create'[o].seenHold = HoldSeen(o, Seller(o))
    \/ /\ Moves(o, "seller", "maker") /\ KeepsRest(o)
       /\ GivesUpActive(o, Seller(o), NextFill(o).quantity) /\ LocksOnly(o, Seller(o))
    \/ /\ Moves(o, "maker", "taker") /\ KeepsLocked(o) /\ KeepsRest(o)
    \/ /\ create[o].pc = "taker" /\ create'[o].pc = "fill" /\ KeepsLocked(o) /\ KeepsRest(o)
       /\ create'[o].fills = create[o].fills \ {NextFill(o)}
    \/ /\ Moves(o, "fill", "remainder") /\ KeepsLocked(o) /\ KeepsRest(o)
       /\ create[o].fills = {} /\ create[o].cancelRest
       /\ create'[o].seenHold = HoldSeen(o, o)
    \/ /\ Moves(o, "remainder", "fill")
       /\ GivesUpActive(o, o, reserveAmount(o, create[o].left)) /\ LocksOnly(o, o)
       /\ create'[o].cancelRest = FALSE

\* Every block of a settlement does one of these.
LEMMA ExactBlocks ==
    ASSUME Inv, NEW o \in Orders, Block(o)
    PROVE  Exact(o)
<1>1. /\ tx[o] \in Tx /\ create[o] \in Handlers /\ TypeOK /\ create[o].left \in Nat
      /\ tx[o].delta \in [Accounts -> Balance]
      /\ OrderSeen(o, o) \in OrderRow /\ create[o].seenOrder \in OrderRow
  BY SettlingType DEF Inv, TypeInv, Handlers, Tx
<1>2. ASSUME create[o].pc \in {"buyer", "seller", "maker", "taker"}
      PROVE  /\ NextFill(o).maker \in Orders /\ NextFill(o).quantity \in Nat
             /\ Buyer(o) \in Orders /\ Seller(o) \in Orders
  BY <1>1, <1>2, NextFillType DEF Inv, TypeInv, AtFill
<1>3. CASE ReadBuyerHold(o)
  <2> DEFINE h == [create[o] EXCEPT !.pc = "buyer", !.seenHold = HoldSeen(o, Buyer(o))]
  <2>1. Settle(o, tx[o], h) /\ create[o].pc = "fill" /\ create[o].fills # {}
    BY <1>3 DEF ReadBuyerHold
  <2>2. /\ h.pc = "buyer" /\ h.fills = create[o].fills /\ h.seenHold = HoldSeen(o, Buyer(o))
        /\ h.cancelRest = create[o].cancelRest /\ h.left = create[o].left
    BY <1>1 DEF Handlers
  <2> HIDE DEF h
  <2>3. tx'[o].delta = tx[o].delta /\ create'[o] = h
    BY <1>1, <2>1, SettleDelta
  <2> QED
    BY <2>1, <2>2, <2>3 DEF Exact, Moves, KeepsLocked, KeepsRest
<1>4. CASE ReduceBuyerHold(o)
  <2> DEFINE amount == reserveAmount(Buyer(o), NextFill(o).quantity)
             t == reduceHold(tx[o], o, Buyer(o), amount)
             h == [create[o] EXCEPT !.pc = "seller", !.seenHold = HoldSeen(o, Seller(o))]
  <2>1. Settle(o, t, h) /\ create[o].pc = "buyer"
    BY <1>4 DEF ReduceBuyerHold
  <2>2. /\ h.pc = "seller" /\ h.fills = create[o].fills /\ h.seenHold = HoldSeen(o, Seller(o))
        /\ h.cancelRest = create[o].cancelRest /\ h.left = create[o].left
    BY <1>1 DEF Handlers
  <2>3. amount \in Nat
    BY <1>1, <1>2, <2>1, ReserveType
  <2> HIDE DEF h, amount
  <2>4. t \in Tx /\ t.rows = tx[o].rows /\ \A y \in Orders \ {Buyer(o)} : t.hold[y] = tx[o].hold[y]
    BY <1>2, <2>1, <2>3, ReduceHoldEffect
  <2> HIDE DEF t
  <2>5. tx'[o].delta = t.delta /\ tx'[o].hold = t.hold /\ create'[o] = h
    BY <2>1, <2>4, SettleDelta, SettleEffect
  <2>6. GivesUpActive(o, Buyer(o), amount)
    BY <1>2, <2>1, <2>3, <2>4, <2>5, ReduceHoldExact DEF GivesUpActive, GivesUp, t
  <2>7. LocksOnly(o, Buyer(o))
    BY <1>2, <2>1, <2>3, <2>5, ReduceHoldLocks DEF LocksOnly, t
  <2> QED
    BY <2>1, <2>2, <2>5, <2>6, <2>7 DEF Exact, Moves, KeepsRest, amount
<1>5. CASE PostFill(o)
  <2> DEFINE q == NextFill(o).quantity
             r == reduceHold(tx[o], o, Seller(o), q)
             t == FillTx(o)
             h == [create[o] EXCEPT !.pc = "maker",
                                    !.seenOrder = OrderSeen(o, NextFill(o).maker)]
  <2>1. Settle(o, t, h) /\ create[o].pc = "seller"
    BY <1>5 DEF PostFill
  <2>2. /\ h.pc = "maker" /\ h.fills = create[o].fills
        /\ h.cancelRest = create[o].cancelRest /\ h.left = create[o].left
    BY <1>1 DEF Handlers
  <2> HIDE DEF h
  <2>3. r \in Tx /\ r.rows = tx[o].rows /\ \A y \in Orders \ {Seller(o)} : r.hold[y] = tx[o].hold[y]
    BY <1>2, <2>1, ReduceHoldEffect
  <2>4. /\ t.rows = r.rows /\ t.hold = r.hold
        /\ \A a \in Accounts : t.delta[a].locked = r.delta[a].locked
    <3> HIDE DEF r
    <3>1. t = [r EXCEPT !.trades = @ \cup {TradeOf(o, NextFill(o))},
                        !.delta = [a \in Accounts |->
                            [r.delta[a] EXCEPT !.available = @ + Legs(o)[a]]]]
      BY DEF FillTx, r
    <3>2. r.delta \in [Accounts -> Balance]
      BY <2>3 DEF Tx
    <3>3. t.delta = [a \in Accounts |-> [r.delta[a] EXCEPT !.available = @ + Legs(o)[a]]]
      BY <2>3, <3>1 DEF Tx
    <3>4. \A a \in Accounts : t.delta[a].locked = r.delta[a].locked
      BY <3>2, <3>3 DEF Balance
    <3> QED
      BY <2>3, <3>1, <3>4 DEF Tx
  <2>5. t \in Tx
    BY <2>1, FillTxType DEF Inv
  <2> HIDE DEF t
  <2>6. tx'[o].delta = t.delta /\ tx'[o].hold = t.hold /\ create'[o] = h
    BY <2>1, <2>3, <2>4, <2>5, SettleDelta, SettleEffect
  <2>7. ASSUME create[o].seenHold.status = "ACTIVE" PROVE GivesUp(o, Seller(o), q)
    <3>1. /\ r.hold[Seller(o)]
                = IF create[o].seenHold.amount - q <= 0
                  THEN [status |-> "CONSUMED", amount |-> 0]
                  ELSE [status |-> HoldSeen(o, Seller(o)).status,
                        amount |-> create[o].seenHold.amount - q]
          /\ \A a \in Accounts : r.delta[a].locked
                = tx[o].delta[a].locked - (IF a = HoldAccount(Seller(o)) THEN q ELSE 0)
      BY <1>2, <2>1, <2>7, ReduceHoldExact
    <3> HIDE DEF r, q
    <3> QED
      BY <2>3, <2>4, <2>6, <3>1 DEF GivesUp
  <2>8. LocksOnly(o, Seller(o))
    <3>1. \A a \in Accounts \ {HoldAccount(Seller(o))} : r.delta[a].locked = tx[o].delta[a].locked
      BY <1>2, <2>1, ReduceHoldLocks
    <3> HIDE DEF r
    <3> QED
      BY <2>4, <2>6, <3>1 DEF LocksOnly
  <2> QED
    BY <2>1, <2>2, <2>6, <2>7, <2>8 DEF Exact, Moves, KeepsRest, GivesUpActive
<1>6. CASE FillMaker(o)
  <2> DEFINE m == NextFill(o).maker
             t == [tx[o] EXCEPT !.order[m] = Filled(o)]
             h == [create[o] EXCEPT !.pc = "taker", !.seenOrder = OrderSeen(o, o)]
  <2>1. Settle(o, t, h) /\ create[o].pc = "maker"
    BY <1>6 DEF FillMaker, Filled
  <2>2. /\ h.pc = "taker" /\ h.fills = create[o].fills
        /\ h.cancelRest = create[o].cancelRest /\ h.left = create[o].left
    BY <1>1 DEF Handlers
  <2> HIDE DEF h
  <2>3. Filled(o) \in OrderRow /\ m \in Orders
    BY <1>1, <1>2, <2>1, AppliedType DEF Filled
  <2> HIDE DEF m
  <2>4. t \in Tx
    BY <1>1, <2>3, OrderWriteType
  <2>5. t.delta = tx[o].delta
    BY <1>1 DEF Tx
  <2> HIDE DEF t
  <2>6. tx'[o].delta = tx[o].delta /\ create'[o] = h
    BY <2>1, <2>4, <2>5, SettleDelta
  <2> QED
    BY <2>1, <2>2, <2>6 DEF Exact, Moves, KeepsLocked, KeepsRest
<1>7. CASE FillTaker(o)
  <2> DEFINE t == [tx[o] EXCEPT !.order[o] = Filled(o)]
             h == [create[o] EXCEPT !.pc = "fill", !.fills = @ \ {NextFill(o)},
                                    !.seenHold = NoHold, !.seenOrder = NoOrder]
  <2>1. Settle(o, t, h) /\ create[o].pc = "taker"
    BY <1>7 DEF FillTaker, Filled
  <2>2. /\ h.pc = "fill" /\ h.fills = create[o].fills \ {NextFill(o)}
        /\ h.cancelRest = create[o].cancelRest /\ h.left = create[o].left
    BY <1>1 DEF Handlers
  <2> HIDE DEF h
  <2>3. Filled(o) \in OrderRow
    BY <1>1, <1>2, <2>1, AppliedType DEF Filled
  <2>4. t \in Tx
    BY <1>1, <2>3, OrderWriteType
  <2>5. t.delta = tx[o].delta
    BY <1>1 DEF Tx
  <2> HIDE DEF t
  <2>6. tx'[o].delta = tx[o].delta /\ create'[o] = h
    BY <2>1, <2>4, <2>5, SettleDelta
  <2> QED
    BY <2>1, <2>2, <2>6 DEF Exact, KeepsLocked, KeepsRest
<1>8. CASE ReadRemainderHold(o)
  <2> DEFINE h == [create[o] EXCEPT !.pc = "remainder", !.seenHold = HoldSeen(o, o)]
  <2>1. /\ Settle(o, tx[o], h) /\ create[o].pc = "fill"
        /\ create[o].fills = {} /\ create[o].cancelRest
    BY <1>8 DEF ReadRemainderHold
  <2>2. /\ h.pc = "remainder" /\ h.fills = create[o].fills /\ h.seenHold = HoldSeen(o, o)
        /\ h.cancelRest = create[o].cancelRest /\ h.left = create[o].left
    BY <1>1 DEF Handlers
  <2> HIDE DEF h
  <2>3. tx'[o].delta = tx[o].delta /\ create'[o] = h
    BY <1>1, <2>1, SettleDelta
  <2> QED
    BY <2>1, <2>2, <2>3 DEF Exact, Moves, KeepsLocked, KeepsRest
<1>9. CASE CancelRemainder(o)
  <2> DEFINE amount == reserveAmount(o, create[o].left)
             r == reduceHold(tx[o], o, o, amount)
             row == [OrderSeen(o, o) EXCEPT !.status = "CANCELLED"]
             t == [r EXCEPT !.order[o] = row]
             h == [create[o] EXCEPT !.pc = "fill", !.cancelRest = FALSE, !.seenHold = NoHold]
  <2>1. Settle(o, t, h) /\ create[o].pc = "remainder"
    BY <1>9 DEF CancelRemainder
  <2>2. h.pc = "fill" /\ h.fills = create[o].fills /\ h.cancelRest = FALSE
    BY <1>1 DEF Handlers
  <2>3. amount \in Nat
    BY <1>1, ReserveType
  <2>4. row \in OrderRow
    BY <1>1 DEF OrderRow, OrderStatuses
  <2> HIDE DEF h, amount, row
  <2>5. r \in Tx /\ r.rows = tx[o].rows /\ \A y \in Orders \ {o} : r.hold[y] = tx[o].hold[y]
    BY <2>3, ReduceHoldEffect
  <2> HIDE DEF r
  <2>6. t \in Tx
    BY <2>4, <2>5, OrderWriteType
  <2>7. t.rows = r.rows /\ t.hold = r.hold /\ t.delta = r.delta
    BY <2>5 DEF Tx
  <2> HIDE DEF t
  <2>8. tx'[o].delta = r.delta /\ tx'[o].hold = r.hold /\ create'[o] = h
    BY <2>1, <2>5, <2>6, <2>7, SettleDelta, SettleEffect
  <2>9. GivesUpActive(o, o, amount)
    BY <2>3, <2>5, <2>8, ReduceHoldExact DEF GivesUpActive, GivesUp, r
  <2>10. LocksOnly(o, o)
    BY <2>3, <2>8, ReduceHoldLocks DEF LocksOnly, r
  <2> QED
    BY <2>1, <2>2, <2>8, <2>9, <2>10 DEF Exact, Moves, amount
<1> QED
  BY <1>3, <1>4, <1>5, <1>6, <1>7, <1>8, <1>9 DEF Block

\* A hold that gives up what a fill takes of its order still covers it.
LEMMA CoveredReduced ==
    ASSUME TypeOK, NEW x \in Orders, price[x] > 0, NEW row \in OrderRow, NEW h \in HoldRow,
           Covered(x, row, h, 0), NEW n \in Nat \ {0},
           row.status \in OpenStatuses, row.remaining >= n
    PROVE  LET amount == reserveAmount(x, n)
               k == IF h.amount - amount <= 0 THEN [status |-> "CONSUMED", amount |-> 0]
                    ELSE [status |-> h.status, amount |-> h.amount - amount]
           IN  /\ h.status = "ACTIVE" /\ k \in HoldRow /\ k # NoHold
               /\ Covered(x, row, k, n)
               /\ \A a : Locks(k, x, a) - Locks(h, x, a)
                            = -(IF a = HoldAccount(x) THEN amount ELSE 0)
<1> DEFINE m == row.remaining
           R == reserveAmount(x, m)
           A == reserveAmount(x, n)
           L == reserveAmount(x, m - n)
           k == IF h.amount - A <= 0 THEN [status |-> "CONSUMED", amount |-> 0]
                ELSE [status |-> h.status, amount |-> h.amount - A]
<1>1. m \in Int /\ m >= n /\ m \in Nat
  BY DEF OrderRow
<1>2. R - A = L /\ R \in Nat /\ A \in Nat /\ L \in Nat /\ (L = 0 <=> m = n)
  <2>1. m \in Nat /\ n \in Nat /\ n <= m
    BY <1>1
  <2> HIDE DEF m
  <2> QED
    BY <2>1, ReserveAdds
<1>3. h = [status |-> "ACTIVE", amount |-> R]
  <2>1. m > 0 /\ m - 0 = m
    BY <1>1
  <2> QED
    BY <2>1 DEF Covered
<1>4. h.status = "ACTIVE" /\ h.amount = R
  BY <1>3
<1> HIDE DEF m, R, A, L
<1>5. k = IF m = n THEN [status |-> "CONSUMED", amount |-> 0]
          ELSE [status |-> "ACTIVE", amount |-> L]
  BY <1>2, <1>4
<1>6. k \in HoldRow /\ k # NoHold
  BY <1>2, <1>5 DEF HoldRow, NoHold
<1>7. Covered(x, row, k, n)
  <2>1. row.status \in OpenStatuses /\ row.status # "FILLED" /\ row.remaining > 0
    BY <1>1 DEF OpenStatuses, m
  <2>2. CASE m = n
    <3>1. ~(row.remaining > n) /\ k.status # "ACTIVE"
      BY <1>1, <1>5, <2>2 DEF m
    <3> QED
      BY <2>1, <3>1 DEF Covered
  <2>3. CASE m # n
    <3>1. row.remaining > n /\ k = [status |-> "ACTIVE", amount |-> L]
      BY <1>1, <1>5, <2>3 DEF m
    <3> QED
      BY <2>1, <3>1 DEF Covered, L, m
  <2> QED
    BY <2>2, <2>3
<1>8. ASSUME NEW a
      PROVE  Locks(k, x, a) - Locks(h, x, a) = -(IF a = HoldAccount(x) THEN A ELSE 0)
  <2>1. Locks(h, x, a) = IF a = HoldAccount(x) THEN R ELSE 0
    BY <1>4 DEF Locks
  <2>2. Locks(k, x, a) = IF a = HoldAccount(x) THEN L ELSE 0
    <3>1. CASE m = n
      BY <1>2, <1>5, <3>1 DEF Locks
    <3>2. CASE m # n
      BY <1>5, <3>2 DEF Locks
    <3> QED
      BY <3>1, <3>2
  <2> QED
    BY <1>2, <2>1, <2>2
<1> QED
  BY <1>4, <1>6, <1>7, <1>8 DEF A

\* The holds a call sees are well typed.
LEMMA HoldsSeenType ==
    ASSUME Inv, NEW p \in Calls
    PROVE  /\ HoldsSeen(p) \in [Orders -> HoldRow]
           /\ \A x \in Orders : HoldsSeen(p)[x] = HoldSeen(p, x)
           /\ \A a : Held(HoldsSeen(p), a) \in Nat
           /\ \A a \in Accounts : account[a].locked \in Int /\ tx[p].delta[a].locked \in Int
<1>1. TypeOK
  BY DEF Inv, TypeInv
<1>2. HoldsSeen(p) \in [Orders -> HoldRow]
  BY <1>1, SeenType DEF HoldsSeen
<1>3. \A a : Held(HoldsSeen(p), a) \in Nat
  BY <1>2, HeldType
<1>4. ASSUME NEW a \in Accounts PROVE account[a].locked \in Int /\ tx[p].delta[a].locked \in Int
  BY <1>1 DEF TypeOK, Tx, Balance
<1> QED
  BY <1>2, <1>3, <1>4 DEF HoldsSeen

\* A row takes what its hold has given up.
LEMMA CoveredApplied ==
    ASSUME NEW x, NEW row \in OrderRow, NEW h, NEW q \in Nat, Covered(x, row, h, q),
           row.status \in OpenStatuses, row.remaining >= q,
           NEW seen \in OrderRow, seen.remaining = row.remaining
    PROVE  Covered(x, Applied(seen, q), h, 0) /\ Applied(seen, q).status # "CANCELLED"
<1> DEFINE new == Applied(seen, q)
<1>1. row.remaining \in Int
  BY DEF OrderRow
<1>2. /\ new.remaining = row.remaining - q
      /\ new.status = IF row.remaining - q <= 0 THEN "FILLED" ELSE "PARTIALLY_FILLED"
  BY DEF Applied, OrderRow
<1> HIDE DEF new
<1>3. CASE row.remaining = q
  BY <1>1, <1>2, <1>3 DEF Covered, OpenStatuses, new
<1>4. CASE row.remaining > q
  <2>1. /\ new.status = "PARTIALLY_FILLED" /\ new.remaining > 0
        /\ new.remaining - 0 = row.remaining - q
    BY <1>1, <1>2, <1>4
  <2> QED
    BY <1>4, <2>1 DEF Covered, OpenStatuses, new
<1> QED
  BY <1>1, <1>3, <1>4

\* A block settles what is unsettled, and no more or less of it.
LEMMA BlockUnsettled ==
    ASSUME Inv, FillsInv, NEW o \in Orders, Block(o)
    PROVE  Unsettled(o)' = Unsettled(o)
<1>1. Alone(o) /\ Effect(o)
  BY Blocks
<1>2. create[o].pc \in {"seller", "maker", "taker"} => NextFill(o) \in create[o].fills
  BY FirstFill
<1>3. TradesOfCall(o)
  BY DEF FillsInv, SettlementsOK
<1>4. CASE create'[o].fills = create[o].fills /\ tx'[o].trades = tx[o].trades
  BY <1>4 DEF Unsettled, TradeOf
<1>5. CASE Moves(o, "seller", "maker") /\ tx'[o].trades = tx[o].trades \cup {TradeOf(o, NextFill(o))}
  BY <1>2, <1>5 DEF Unsettled, TradeOf, Moves
<1>6. CASE /\ create[o].pc = "taker" /\ create'[o].fills = create[o].fills \ {NextFill(o)}
           /\ tx'[o].trades = tx[o].trades
  <2>1. TradeOf(o, NextFill(o)) \in tx[o].trades
    BY <1>3, <1>6 DEF TradesOfCall, Working
  <2> QED
    BY <1>2, <1>6, <2>1 DEF Unsettled, TradeOf
<1> QED
  BY <1>1, <1>4, <1>5, <1>6 DEF Effect, Moves, KeepsTrades

\* What a settlement sees of the rows of orders after a block.
LEMMA BlockOrders ==
    ASSUME Inv, FillsInv, NEW o \in Orders, Block(o)
    PROVE  /\ create[o].pc = "maker" =>
                 \A y \in Orders :
                    OrderSeen(o, y)' = IF y = NextFill(o).maker THEN Filled(o) ELSE OrderSeen(o, y)
           /\ create[o].pc = "taker" =>
                 /\ OrderSeen(o, o)' = Filled(o)
                 /\ \A y \in Orders \ {o} : OrderSeen(o, y)' = OrderSeen(o, y)
           /\ create[o].pc = "remainder" =>
                 /\ OrderSeen(o, o)' = [OrderSeen(o, o) EXCEPT !.status = "CANCELLED"]
                 /\ \A y \in Orders \ {o} : OrderSeen(o, y)' = OrderSeen(o, y)
           /\ create[o].pc \notin {"maker", "taker", "remainder"} =>
                 \A y \in Orders : OrderSeen(o, y)' = OrderSeen(o, y)
<1>1. Alone(o) /\ Effect(o) /\ order' = order
  BY Blocks DEF Alone, db
<1>2. SeenOK(o) /\ tx[o].order \in [Orders -> OrderRow] /\ OrderSeen(o, o) \in OrderRow
  BY CallTypes DEF FillsInv, SettlementsOK, Tx
<1>3. CASE create[o].pc = "maker"
  <2>1. Filled(o) # NoOrder /\ NextFill(o).maker \in Orders
    BY <1>2, <1>3, FilledRow, FirstFill DEF SeenOK
  <2>2. tx'[o].order = [tx[o].order EXCEPT ![NextFill(o).maker] = Filled(o)]
    BY <1>1, <1>3 DEF Effect, Moves, WritesOrder
  <2>3. PICK m, row : m = NextFill(o).maker /\ row = Filled(o)
    OBVIOUS
  <2>4. \A y \in Orders : OrderSeen(o, y)' = IF y = m THEN row ELSE OrderSeen(o, y)
    BY <1>1, <1>2, <2>1, <2>2, <2>3 DEF OrderSeen
  <2> QED
    BY <1>3, <2>3, <2>4
<1>4. CASE create[o].pc = "taker"
  <2>1. Filled(o) # NoOrder
    BY <1>2, <1>4, FilledRow DEF SeenOK
  <2>2. tx'[o].order = [tx[o].order EXCEPT ![o] = Filled(o)]
    BY <1>1, <1>4 DEF Effect, Moves, WritesOrder
  <2> QED
    BY <1>1, <1>2, <1>4, <2>1, <2>2 DEF OrderSeen, Moves
<1>5. CASE create[o].pc = "remainder"
  <2>1. PICK row : row = [OrderSeen(o, o) EXCEPT !.status = "CANCELLED"]
    OBVIOUS
  <2>2. row # NoOrder
    BY <1>2, <2>1 DEF OrderRow, NoOrder
  <2>3. tx'[o].order = [tx[o].order EXCEPT ![o] = row]
    BY <1>1, <1>5, <2>1 DEF Effect, Moves, WritesOrder
  <2>4. OrderSeen(o, o)' = row /\ \A y \in Orders \ {o} : OrderSeen(o, y)' = OrderSeen(o, y)
    BY <1>1, <1>2, <2>2, <2>3 DEF OrderSeen
  <2> QED
    BY <1>5, <2>1, <2>4 DEF Moves
<1>6. CASE create[o].pc \notin {"maker", "taker", "remainder"}
  <2>1. tx'[o].order = tx[o].order
    BY <1>1, <1>6 DEF Effect, Moves, KeepsOrders
  <2> QED
    BY <1>1, <1>6, <2>1 DEF OrderSeen, Moves
<1> QED
  BY <1>3, <1>4, <1>5, <1>6

\* One of the two sides of a fill buys and the other sells.
LEMMA TwoSides ==
    ASSUME Inv, FillsInv, NEW o \in Orders,
           create[o].pc \in {"buyer", "seller", "maker", "taker"}
    PROVE  /\ Buyer(o) # Seller(o) /\ Buyer(o) \in Placed /\ Seller(o) \in Placed
           /\ \A x : x \in {o, NextFill(o).maker} <=> x = Buyer(o) \/ x = Seller(o)
           /\ \A n : reserveAmount(Seller(o), n) = n
<1>1. /\ NextFill(o) \in create[o].fills /\ NextFill(o).maker \in Orders
      /\ NextFill(o).maker # o /\ NextFill(o).maker \in Placed /\ o \in Placed
  BY FirstFill
<1>2. request[NextFill(o).maker].side # request[o].side
  BY <1>1 DEF FillsInv, SettlementsOK, FillsOf
<1>3. request[o].side \in Sides /\ request[NextFill(o).maker].side \in Sides
  BY <1>1, RequestType DEF Inv, TypeInv
<1> QED
  BY <1>1, <1>2, <1>3 DEF Buyer, Seller, Sides, reserveAmount

\* The sides of a fill do not change while it is settled.
LEMMA SidesStay ==
    ASSUME NEW o, create'[o].fills = create[o].fills, request' = request
    PROVE  /\ NextFill(o)' = NextFill(o) /\ Buyer(o)' = Buyer(o) /\ Seller(o)' = Seller(o)
<1>1. NextFill(o)' = NextFill(o)
  BY DEF NextFill
<1> QED
  BY <1>1 DEF Buyer, Seller

\* Covered is about the dto and the price of an order, which stay.
LEMMA CoveredStays ==
    ASSUME request' = request, price' = price
    PROVE  \A x, row, h, n : Covered(x, row, h, n)' <=> Covered(x, row, h, n)
BY DEF Covered, reserveAmount
-----------------------------------------------------------------------------
(* What a submit matches, exactly *)

\* Every order on the book offers something.
Offering(bk) == Distinct(bk) /\ \A e \in bk : e.remaining > 0

\* Orders of which every one that stands before one of them is one.
Closed(makers, P) ==
    /\ P \subseteq makers
    /\ \A e \in P, f \in makers : Before(f, e) => f \in P

\* The last of them has all the others ahead.
LEMMA LastOf ==
    ASSUME NEW bk, Offering(bk), NEW taker \in BookEntry,
           NEW P, Closed(Makers(bk, taker), P), P # {}
    PROVE  /\ \E z \in P : Ahead(Makers(bk, taker), z) + z.remaining = Offered(P)
           /\ \A e \in P : Ahead(Makers(bk, taker), e) + e.remaining <= Offered(P)
<1> DEFINE makers == Makers(bk, taker)
           offer(S) == [f \in S |-> f.remaining]
<1>1. Distinct(bk) /\ makers \subseteq bk /\ IsFiniteSet(makers) /\ makers \subseteq BookEntry
  BY MakersType DEF Offering, Distinct
<1>2. \A e \in makers : e.remaining \in Nat \ {0}
  BY <1>1 DEF Offering, BookEntry
<1>3. /\ P \subseteq makers /\ IsFiniteSet(P)
      /\ \A e \in P, f \in makers : Before(f, e) => f \in P
  BY <1>1, FS_Subset DEF Closed
<1>4. \A e \in makers : Ahead(makers, e) \in Nat
  BY <1>1, TakenType
<1>5. /\ \A e \in makers : ~Before(e, e)
      /\ \A d, e \in makers : d # e => Before(d, e) \/ Before(e, d)
      /\ \A d, e \in makers : Before(d, e) =>
            Ahead(makers, d) + d.remaining <= Ahead(makers, e)
  BY <1>1, BeforeOrder, AheadGrows
<1> HIDE DEF makers
<1>6. PICK a : a = [e \in P |-> Ahead(makers, e)]
  OBVIOUS
<1>7. a \in [P -> Nat]
  BY <1>3, <1>4, <1>6
<1>8. PICK z \in P : \A e \in P : a[e] <= a[z]
  BY <1>3, <1>7, FiniteMaximum
<1> DEFINE R == {f \in makers : Before(f, z)}
<1>9. R \cup {z} = P /\ z \notin R
  <2>1. ASSUME NEW e \in P, e # z PROVE Before(e, z)
    <3>1. Before(z, e) => Ahead(makers, z) + z.remaining <= Ahead(makers, e)
      BY <1>3, <1>5
    <3>2. Ahead(makers, e) <= Ahead(makers, z)
      BY <1>6, <1>8
    <3>3. Ahead(makers, e) \in Nat /\ Ahead(makers, z) \in Nat /\ z.remaining \in Nat \ {0}
      BY <1>2, <1>3, <1>4
    <3>4. ~Before(z, e)
      BY <3>1, <3>2, <3>3
    <3> QED
      BY <1>3, <1>5, <2>1, <3>4
  <2> QED
    BY <1>3, <1>5, <2>1
<1>10. Offered(P) = Ahead(makers, z) + z.remaining
  <2>1. PICK f, g : f = offer(R) /\ g = offer(R \cup {z})
    OBVIOUS
  <2>2. f \in [R -> Nat] /\ g \in [R \cup {z} -> Nat] /\ g[z] = z.remaining
        /\ \A e \in R : g[e] = f[e]
    BY <1>2, <1>3, <1>9, <2>1
  <2>3. IsFiniteSet(R)
    BY <1>3, <1>9, FS_Subset
  <2>4. Ahead(makers, z) = NatSum(f, R) /\ Offered(P) = NatSum(g, R \cup {z})
    BY <1>9, <2>1 DEF Ahead, Offered
  <2> HIDE DEF R
  <2>5. NatSum(g, R \cup {z}) = NatSum(f, R) + g[z]
    BY <1>9, <2>2, <2>3, NatSumInsert
  <2> QED
    BY <2>2, <2>4, <2>5
<1>11. ASSUME NEW e \in P PROVE Ahead(makers, e) + e.remaining <= Offered(P)
  <2>1. CASE e = z
    BY <1>2, <1>3, <1>4, <1>10, <2>1
  <2>2. CASE e # z
    <3>1. Before(e, z)
      BY <1>9, <2>2
    <3>2. Ahead(makers, e) + e.remaining <= Ahead(makers, z)
      BY <1>3, <1>5, <3>1
    <3>3. /\ Ahead(makers, e) \in Nat /\ Ahead(makers, z) \in Nat
          /\ z.remaining \in Nat /\ e.remaining \in Nat
      BY <1>2, <1>3, <1>4
    <3> QED
      BY <1>10, <3>2, <3>3
  <2> QED
    BY <2>1, <2>2
<1> QED
  BY <1>10, <1>11 DEF makers

\* What a submit takes of some makers is in its trades.
LEMMA TakenInTrades ==
    ASSUME NEW bk, Offering(bk), NEW taker \in BookEntry, taker.remaining \in Nat,
           NEW P, P \subseteq Makers(bk, taker), NEW f \in [P -> Int],
           \A e \in P : /\ Taken(Makers(bk, taker), taker.remaining, e) > 0
                        /\ f[e] <= Taken(Makers(bk, taker), taker.remaining, e)
    PROVE  NatSum(f, P) <= Volume(TradesWith(bk, taker))
<1> DEFINE makers == Makers(bk, taker)
           taken(e) == Taken(makers, taker.remaining, e)
           T == TradesWith(bk, taker)
           trade(e) == [maker |-> e.id, taker |-> taker.id, price |-> e.price,
                        quantity |-> taken(e)]
<1>1. Distinct(bk) /\ makers \subseteq bk
  BY DEF Offering, Makers, Reachable
<1>2. T \subseteq Trade /\ IsFiniteSet(T)
  BY <1>1, TradesWithMakers
<1>3. ASSUME NEW e \in P PROVE trade(e) \in T
  <2>1. TradeWith(bk, taker, e, trade(e))
    BY DEF TradeWith
  <2> QED
    BY <1>1, <2>1, TradesWithMakers
<1>4. PICK m : m = [e \in P |-> trade(e)]
  OBVIOUS
<1>5. m \in [P -> T]
  BY <1>3, <1>4
<1>6. \A d, e \in P : m[d] = m[e] => d = e
  <2>1. \A e \in P : m[e].maker = e.id
    BY <1>4
  <2> QED
    BY <1>1, <2>1 DEF Distinct
<1>7. PICK g : g = [t \in T |-> t.quantity]
  OBVIOUS
<1>8. g \in [T -> Int]
  BY <1>2, <1>7 DEF Trade
<1>9. \A e \in P : f[e] <= g[m[e]]
  BY <1>3, <1>4, <1>7
<1>10. Volume(T) = NatSum(g, T)
  BY <1>7 DEF Volume
<1> HIDE DEF T, makers
<1> QED
  BY <1>2, <1>5, <1>6, <1>8, <1>9, <1>10, NatSumInjection DEF T

\* What is not taken of what a taker wants is left.
LEMMA TakesExactly ==
    ASSUME NEW bk, Offering(bk), NEW taker \in BookEntry, taker.remaining \in Nat
    PROVE  Volume(TradesWith(bk, taker)) + Left(bk, taker) = taker.remaining
<1> DEFINE makers == Makers(bk, taker)
           q == taker.remaining
           taken(e) == Taken(makers, q, e)
           V == Volume(TradesWith(bk, taker))
           offer(S) == [f \in S |-> f.remaining]
<1>1. Distinct(bk) /\ makers \subseteq bk /\ IsFiniteSet(makers) /\ makers \subseteq BookEntry
  BY MakersType DEF Offering, Distinct
<1>2. \A e \in makers : e.remaining \in Nat \ {0} /\ Ahead(makers, e) \in Nat
  BY <1>1, TakenType DEF Offering, BookEntry
<1>3. V \in Nat /\ V + Left(bk, taker) <= q /\ q \in Nat
  BY <1>1, TakesWhatItWants
<1>4. Left(bk, taker) = q - Least(q, Offered(makers)) /\ Offered(makers) \in Nat
  BY <1>1, OfferedType DEF Left
<1>5. CASE Offered(makers) <= q
  <2>1. ASSUME NEW e \in makers PROVE taken(e) = e.remaining /\ taken(e) > 0
    <3>1. Closed(makers, makers)
      BY DEF Closed
    <3>2. Ahead(makers, e) + e.remaining <= Offered(makers)
      BY <2>1, <3>1, LastOf
    <3>3. Ahead(makers, e) \in Nat /\ e.remaining \in Nat \ {0}
      BY <1>2
    <3> HIDE DEF makers, q
    <3> QED
      BY <1>3, <1>4, <1>5, <3>2, <3>3 DEF Taken, Least
  <2>2. PICK f : f = offer(makers)
    OBVIOUS
  <2>3. f \in [makers -> Int] /\ \A e \in makers : f[e] = e.remaining
    BY <1>2, <2>2
  <2>4. NatSum(f, makers) <= V
    BY <2>1, <2>3, TakenInTrades
  <2>5. Offered(makers) = NatSum(f, makers)
    BY <2>2 DEF Offered
  <2> HIDE DEF makers, q, V
  <2> QED
    BY <1>3, <1>4, <1>5, <2>4, <2>5 DEF Least, V, q
<1>6. CASE q < Offered(makers) /\ q > 0
  <2> DEFINE U == {e \in makers : Ahead(makers, e) + e.remaining >= q}
  <2>1. U # {}
    <3>1. makers # {}
      <4>1. Tokens(offer({}), {}) = {}
        BY DEF Tokens
      <4>2. Offered({}) = 0
        BY <4>1, FS_EmptySet DEF Offered, NatSum
      <4> QED
        BY <1>6, <4>2
    <3>2. Closed(makers, makers)
      BY DEF Closed
    <3>3. PICK z \in makers : Ahead(makers, z) + z.remaining = Offered(makers)
      BY <3>1, <3>2, LastOf
    <3> QED
      BY <1>2, <1>3, <1>4, <1>6, <3>3
  <2>2. PICK u \in U : \A e \in U : Ahead(makers, u) <= Ahead(makers, e)
    <3>1. {Ahead(makers, e) : e \in U} \subseteq Nat /\ {Ahead(makers, e) : e \in U} # {}
      BY <1>2, <2>1
    <3>2. PICK n \in {Ahead(makers, e) : e \in U} : \A k \in {Ahead(makers, e) : e \in U} : n <= k
      BY <3>1, NatLeast
    <3> QED
      BY <3>2
  <2> DEFINE P == {e \in makers : Before(e, u)}
  <2>3. u \in makers /\ Ahead(makers, u) + u.remaining >= q /\ u \notin P
    BY <1>1, <2>2, BeforeOrder
  <2>4. ASSUME NEW e \in P
        PROVE  Ahead(makers, e) + e.remaining < q /\ e \in makers
    <3>1. e \in makers /\ Before(e, u)
      OBVIOUS
    <3>2. Ahead(makers, e) + e.remaining <= Ahead(makers, u)
      BY <1>1, <2>3, <3>1, AheadGrows
    <3>3. e \notin U
      BY <1>2, <2>2, <2>3, <3>1, <3>2
    <3> QED
      BY <1>2, <1>3, <3>1, <3>3
  <2>5. Closed(makers, P)
    BY <1>1, <2>3, BeforeOrder DEF Closed
  <2>6. Ahead(makers, u) = Offered(P)
    BY DEF Ahead
  <2>7. Ahead(makers, u) < q
    <3>1. CASE P = {}
      <4>1. Tokens(offer({}), {}) = {}
        BY DEF Tokens
      <4>2. Offered({}) = 0
        BY <4>1, FS_EmptySet DEF Offered, NatSum
      <4> QED
        BY <1>6, <2>6, <3>1, <4>2
    <3>2. CASE P # {}
      <4>1. PICK z \in P : Ahead(makers, z) + z.remaining = Offered(P)
        BY <2>5, <3>2, LastOf
      <4> QED
        BY <2>4, <2>6, <4>1
    <3> QED
      BY <3>1, <3>2
  <2>8. \A e \in P : taken(e) = e.remaining /\ taken(e) > 0
    <3>1. ASSUME NEW e \in P PROVE taken(e) = e.remaining /\ taken(e) > 0
      <4>1. Ahead(makers, e) \in Nat /\ e.remaining \in Nat \ {0}
            /\ Ahead(makers, e) + e.remaining < q
        BY <1>2, <2>4
      <4> HIDE DEF makers, q, P
      <4> QED
        BY <1>3, <4>1 DEF Taken, Least
    <3> QED
      BY <3>1
  <2>9. taken(u) = q - Ahead(makers, u) /\ taken(u) > 0
    <3>1. Ahead(makers, u) \in Nat /\ u.remaining \in Nat \ {0}
      BY <1>2, <2>3
    <3> HIDE DEF makers, q, P, U
    <3> QED
      BY <1>3, <2>3, <2>7, <3>1 DEF Taken, Least
  <2>10. PICK f, g : /\ f = [e \in P |-> e.remaining]
                     /\ g = [e \in P \cup {u} |-> IF e = u THEN q - Ahead(makers, u) ELSE e.remaining]
    OBVIOUS
  <2>11. /\ f \in [P -> Nat] /\ g \in [P \cup {u} -> Nat] /\ g \in [P \cup {u} -> Int]
         /\ g[u] = q - Ahead(makers, u) /\ \A e \in P : g[e] = f[e] /\ f[e] = e.remaining
    <3>1. q - Ahead(makers, u) \in Nat
      BY <1>2, <1>3, <2>3, <2>7
    <3>2. \A e \in P : e.remaining \in Nat /\ e # u
      BY <1>2, <2>3, <2>4
    <3> HIDE DEF q, makers, P
    <3> QED
      BY <2>10, <3>1, <3>2
  <2>12. NatSum(g, P \cup {u}) = NatSum(f, P) + g[u]
    <3>1. IsFiniteSet(P)
      BY <1>1, FS_Subset
    <3> HIDE DEF P
    <3> QED
      BY <2>3, <2>11, <3>1, NatSumInsert
  <2>13. NatSum(f, P) = Offered(P)
    BY <2>10 DEF Offered
  <2>14. NatSum(g, P \cup {u}) <= V
    <3>1. P \cup {u} \subseteq makers
      BY <2>3
    <3>2. \A e \in P \cup {u} : taken(e) > 0 /\ g[e] <= taken(e)
      <4>1. \A e \in P \cup {u} : g[e] = taken(e) /\ taken(e) > 0 /\ g[e] \in Int
        BY <2>8, <2>9, <2>11
      <4> HIDE DEF P, taken
      <4> QED
        BY <4>1
    <3> HIDE DEF P
    <3> QED
      BY <2>11, <3>1, <3>2, TakenInTrades
  <2>15. V >= q
    <3>1. Ahead(makers, u) \in Nat
      BY <1>2, <2>3
    <3> HIDE DEF q, V, makers, P
    <3> QED
      BY <1>3, <2>6, <2>11, <2>12, <2>13, <2>14, <3>1
  <2>16. Left(bk, taker) = 0
    BY <1>3, <1>4, <1>6 DEF Least
  <2> HIDE DEF q, V
  <2> QED
    BY <1>3, <2>15, <2>16 DEF q, V
<1>7. CASE q = 0
  <2>1. Left(bk, taker) = 0
    BY <1>3, <1>4, <1>7 DEF Least
  <2> HIDE DEF V, q
  <2> QED
    BY <1>3, <1>7, <2>1 DEF V, q
<1> HIDE DEF q, makers, V
<1> QED
  BY <1>3, <1>4, <1>5, <1>6, <1>7 DEF q, V

\* The rest of a taker is on the book just when it rests.
LEMMA RestOnBook ==
    ASSUME NEW bk, Offering(bk), NEW taker, Newcomer(bk, taker)
    PROVE  /\ Offering(Matched(bk, taker))
           /\ ~Rests(bk, taker) =>
                \A e \in Matched(bk, taker) : \E d : Remains(bk, taker, d, e)
           /\ OfferIn(Matched(bk, taker), taker.id)
                = IF Rests(bk, taker) THEN Left(bk, taker) ELSE 0
<1> DEFINE makers == Makers(bk, taker)
           taken(e) == Taken(makers, taker.remaining, e)
           M == Matched(bk, taker)
           rest == [taker EXCEPT !.remaining = Left(bk, taker)]
<1>1. /\ taker \in BookEntry /\ taker.remaining \in Nat /\ Distinct(bk)
      /\ makers \subseteq bk /\ IsFiniteSet(makers) /\ makers \subseteq BookEntry
  BY MakersType DEF Newcomer, Offering, Distinct
<1>2. Distinct(M)
  BY <1>1, MatchedDistinct
<1>3. Left(bk, taker) \in Nat
  BY <1>1, TakesWhatItWants
<1>4. \A e \in M : (\E d : Remains(bk, taker, d, e)) \/ Rest(bk, taker, e)
  BY <1>1, MatchedEntries
<1>5. ASSUME NEW e \in AfterFills(bk, taker)
      PROVE  e.remaining > 0 /\ \E d \in bk : e.id = d.id
  <2>1. \/ e \in bk \ makers
        \/ \E d \in makers : /\ taken(d) < d.remaining
                             /\ e = [d EXCEPT !.remaining = d.remaining - taken(d)]
    BY <1>5 DEF AfterFills
  <2>2. CASE e \in bk \ makers
    BY <2>2 DEF Offering
  <2>3. ASSUME NEW d \in makers, taken(d) < d.remaining,
               e = [d EXCEPT !.remaining = d.remaining - taken(d)]
        PROVE  e.remaining > 0 /\ e.id = d.id /\ d \in bk
    <3>1. d \in BookEntry /\ taken(d) \in Int /\ d.remaining \in Int /\ d \in bk
      BY <1>1, TakenType DEF BookEntry
    <3>2. e.remaining = d.remaining - taken(d) /\ e.id = d.id
      BY <2>3, <3>1 DEF BookEntry
    <3> QED
      BY <2>3, <3>1, <3>2
  <2> HIDE DEF makers, taken
  <2> QED
    BY <2>1, <2>2, <2>3
<1>6. rest.remaining = Left(bk, taker) /\ rest.id = taker.id
  BY <1>1 DEF BookEntry
<1>7. Rests(bk, taker) => Left(bk, taker) > 0 /\ rest \in M
  BY DEF Rests, Matched
<1>8. \A e \in M : e \in AfterFills(bk, taker) \/ (Rests(bk, taker) /\ e = rest)
  BY DEF Matched
<1> HIDE DEF rest, M, makers
<1>9. Offering(M)
  BY <1>2, <1>5, <1>6, <1>7, <1>8 DEF Offering
<1>10. ASSUME ~Rests(bk, taker), NEW e \in M PROVE \E d : Remains(bk, taker, d, e)
  <2>1. \E d \in bk : e.id = d.id
    BY <1>5, <1>8, <1>10
  <2>2. ~Rest(bk, taker, e)
    BY <2>1 DEF Rest, Newcomer
  <2> QED
    BY <1>4, <2>2
<1>11. OfferIn(M, taker.id) = IF Rests(bk, taker) THEN Left(bk, taker) ELSE 0
  <2>1. PICK x : x = taker.id
    OBVIOUS
  <2>2. CASE Rests(bk, taker)
    <3>1. /\ rest \in M /\ rest.remaining \in Nat /\ rest.id = x
          /\ \A d \in M : d.id = x => d = rest
      BY <1>2, <1>3, <1>6, <1>7, <2>1, <2>2 DEF Distinct
    <3>2. OfferIn(M, x) = rest.remaining
      BY <3>1, OfferOne
    <3> QED
      BY <1>6, <2>1, <2>2, <3>2
  <2>3. CASE ~Rests(bk, taker)
    <3>1. \A e \in M : e.id # x
      BY <1>10, <2>1, <2>3 DEF Remains, Newcomer
    <3>2. OfferIn(M, x) = 0
      BY <3>1, OfferNone
    <3> QED
      BY <2>1, <2>3, <3>2
  <2> QED
    BY <2>2, <2>3
<1> QED
  BY <1>9, <1>10, <1>11 DEF M

\* What the book has less of a maker is what the maker gives.
LEMMA GivesExactly ==
    ASSUME NEW bk, Offering(bk), NEW taker, Newcomer(bk, taker), NEW x, x # taker.id
    PROVE  OfferIn(Matched(bk, taker), x) + VolumeOf(x, TradesWith(bk, taker))
              = OfferIn(bk, x)
<1> DEFINE makers == Makers(bk, taker)
           taken(e) == Taken(makers, taker.remaining, e)
           T == TradesWith(bk, taker)
           M == Matched(bk, taker)
           reduced(d) == [d EXCEPT !.remaining = d.remaining - taken(d)]
<1>1. /\ taker \in BookEntry /\ taker.remaining \in Nat /\ Distinct(bk) /\ makers \subseteq bk
      /\ IsFiniteSet(makers) /\ makers \subseteq BookEntry
  BY MakersType DEF Newcomer, Offering, Distinct
<1>2. OfferIn(M, x) + VolumeOf(x, T) <= OfferIn(bk, x)
  BY <1>1, MakerGives
<1>3. T \subseteq Trade /\ IsFiniteSet(T)
  BY <1>1, TradesWithMakers
<1>4. VolumeOf(x, T) \in Nat
  BY <1>3, VolumeType
<1>5. Distinct(M)
  BY <1>1, MatchedDistinct
<1>6. OfferIn(M, x) \in Nat /\ OfferIn(bk, x) \in Nat
  BY <1>1, <1>5, OfferType DEF Distinct
<1>7. CASE \A d \in bk : d.id # x
  <2>1. OfferIn(bk, x) = 0
    BY <1>7, OfferNone
  <2>2. OfferIn(M, x) + VolumeOf(x, T) = OfferIn(bk, x)
    <3> HIDE DEF M, T
    <3> QED
      BY <1>2, <1>4, <1>6, <2>1
  <2> QED
    BY <2>2
<1>8. ASSUME NEW d \in bk, d.id = x
      PROVE  OfferIn(bk, x) <= OfferIn(M, x) + VolumeOf(x, T)
  <2>1. d.remaining \in Nat \ {0} /\ (\A e \in bk : e.id = x => e = d) /\ d \in BookEntry
    BY <1>1, <1>8 DEF Distinct, Offering, BookEntry
  <2>2. OfferIn(bk, x) = d.remaining
    BY <1>8, <2>1, OfferOne
  <2>3. ASSUME NEW e \in M, e.id = x PROVE OfferIn(M, x) = e.remaining
    <3>1. e.remaining \in Nat /\ \A c \in M : c.id = x => c = e
      BY <1>5, <2>3 DEF Distinct, BookEntry
    <3> HIDE DEF M
    <3> QED
      BY <2>3, <3>1, OfferOne
  <2>4. CASE d \notin makers
    <3>1. d \in M
      BY <2>4 DEF Matched, AfterFills
    <3> HIDE DEF M, T
    <3> QED
      BY <1>4, <1>6, <1>8, <2>1, <2>2, <2>3, <3>1
  <2>5. CASE d \in makers /\ taken(d) > 0
    <3>1. taken(d) \in Nat /\ taken(d) <= d.remaining
      BY <1>1, <2>5, TakenBound
    <3>2. PICK t : t = [maker |-> d.id, taker |-> taker.id, price |-> d.price,
                        quantity |-> taken(d)]
      OBVIOUS
    <3>3. t.maker = x /\ t.quantity = taken(d) /\ t \in T
      <4>1. TradeWith(bk, taker, d, t)
        BY <2>5, <3>2 DEF TradeWith
      <4> QED
        BY <1>1, <1>8, <3>2, <4>1, TradesWithMakers
    <3>4. VolumeOf(x, {t}) <= VolumeOf(x, T) /\ VolumeOf(x, {t}) = taken(d)
      <4>1. {t} \in SUBSET T /\ t \in Trade
        BY <1>3, <3>3
      <4>2. VolumeOf(x, {t}) = Share(x, t)
        BY <4>1, VolumeOne
      <4>3. VolumeOf(x, {t}) <= VolumeOf(x, T)
        BY <1>3, <4>1, VolumeLess
      <4> QED
        BY <3>3, <4>2, <4>3 DEF Share
    <3>5. CASE taken(d) < d.remaining
      <4>1. reduced(d) \in M
        BY <2>5, <3>5 DEF Matched, AfterFills
      <4>2. reduced(d).id = x /\ reduced(d).remaining = d.remaining - taken(d)
        BY <1>8, <2>1 DEF BookEntry
      <4>3. OfferIn(M, x) = d.remaining - taken(d)
        BY <2>3, <4>1, <4>2
      <4> HIDE DEF M, T, taken
      <4> QED
        BY <1>4, <2>1, <2>2, <3>1, <3>4, <4>3
    <3>6. CASE taken(d) = d.remaining
      <4> HIDE DEF M, T, taken
      <4> QED
        BY <1>4, <1>6, <2>1, <2>2, <3>4, <3>6
    <3> HIDE DEF taken
    <3> QED
      BY <2>1, <3>1, <3>5, <3>6
  <2>6. CASE d \in makers /\ ~(taken(d) > 0)
    <3>1. taken(d) = 0
      <4>1. Ahead(makers, d) \in Nat
        BY <1>1, <2>6, TakenType
      <4> HIDE DEF makers
      <4> QED
        BY <1>1, <2>1, <2>6, <4>1 DEF Taken, Least
    <3>2. reduced(d) \in M
      <4>1. taken(d) < d.remaining
        <5> HIDE DEF taken
        <5> QED
          BY <2>1, <3>1
      <4> QED
        BY <2>6, <4>1 DEF Matched, AfterFills
    <3>3. reduced(d).id = x /\ reduced(d).remaining = d.remaining
      BY <1>8, <2>1, <3>1 DEF BookEntry
    <3>4. OfferIn(M, x) = d.remaining
      BY <2>3, <3>2, <3>3
    <3> HIDE DEF M, T
    <3> QED
      BY <1>4, <2>1, <2>2, <3>4
  <2> QED
    BY <2>4, <2>5, <2>6
<1> HIDE DEF M, T
<1> QED
  BY <1>2, <1>4, <1>6, <1>7, <1>8 DEF M, T

\* What the taker does not get of what it wants is left.
LEMMA GetsExactly ==
    ASSUME NEW bk, Offering(bk), NEW taker, Newcomer(bk, taker)
    PROVE  VolumeOf(taker.id, TradesWith(bk, taker)) + Left(bk, taker) = taker.remaining
<1>1. taker \in BookEntry /\ taker.remaining \in Nat /\ Distinct(bk)
  BY DEF Newcomer, Offering
<1>2. \A t \in TradesWith(bk, taker) : t.taker = taker.id
  BY <1>1, TradesWithMakers DEF TradeWith
<1>3. TradesOf(taker.id, TradesWith(bk, taker)) = TradesWith(bk, taker)
  BY <1>2 DEF TradesOf
<1> QED
  BY <1>1, <1>3, TakesExactly DEF VolumeOf
-----------------------------------------------------------------------------
(* What a submit leaves *)

\* What the book offers of an order is that of a LIMIT order, at its price.
EntriesOK ==
    \A e \in book : e.remaining > 0 /\ request[e.id].type = "LIMIT" /\ e.price = price[e.id]

\* The book makes offers, each order once.
LEMMA BookOffers ==
    ASSUME Inv, FillsInv, EntriesOK
    PROVE  Offering(book)
BY DEF Inv, TypeInv, TypeOK, FillsInv, BookOK, EntryOf, EntriesOK, Offering, Distinct

\* What is left of a taker that is to be cancelled.
RestOf(o) ==
    IF create[o].pc \in SettlingPcs /\ create[o].cancelRest THEN create[o].left ELSE 0

\* What a submit leaves of its taker is to be cancelled, unless it rests.
LEMMA SubmitExact ==
    ASSUME Inv, FillsInv, NEW o \in Orders, SubmitOrder(o)
    PROVE  /\ RestOf(o)' = IF Rests(book, TakerOf(o)) THEN 0 ELSE Left(book, TakerOf(o))
           /\ create'[o].cancelRest =>
                 /\ create'[o].left = Left(book, TakerOf(o)) /\ create'[o].left > 0
                 /\ ~Rests(book, TakerOf(o))
           /\ Unsettled(o)' = TradesWith(book, TakerOf(o))
           /\ Left(book, TakerOf(o)) \in Nat
<1>1. PICK T : T = TakerOf(o)
  OBVIOUS
<1>2. PICK r \in BOOLEAN : r <=> Rests(book, T)
  OBVIOUS
<1>3. PICK n : n = Left(book, T)
  OBVIOUS
<1>4. PICK F : F = Fills(book, T)
  OBVIOUS
<1>5. PICK k \in BOOLEAN : k <=> ~r /\ n > 0
  OBVIOUS
<1>6. n \in Nat
  <2>1. Distinct(book) /\ Newcomer(book, T) /\ create[o].pc = "placed"
    BY <1>1, SubmitTaker DEF SubmitOrder
  <2> QED
    BY <1>3, <2>1, TakesWhatItWants DEF Newcomer
<1>7. create'[o] = IF F = {} /\ r THEN Handler("done")
                   ELSE [Handler("fill") EXCEPT !.fills = F, !.left = n, !.cancelRest = k]
  <2>1. create \in [Orders -> Handlers]
    BY DEF Inv, TypeInv, TypeOK
  <2>2. create' = [create EXCEPT ![o] =
                IF F = {} /\ r THEN Handler("done")
                ELSE [Handler("fill") EXCEPT !.fills = F, !.left = n,
                        !.cancelRest = ~Rests(book, T) /\ n > 0]]
    BY <1>1, <1>2, <1>3, <1>4 DEF SubmitOrder, TakerOf
  <2>3. (~Rests(book, T) /\ n > 0) = k
    BY <1>2, <1>5
  <2> QED
    BY <2>1, <2>2, <2>3
<1>8. /\ RestOf(o)' = IF r THEN 0 ELSE n
      /\ create'[o].cancelRest => create'[o].left = n /\ n > 0 /\ ~r
  <2>1. CASE F = {} /\ r
    <3>1. create'[o] = Handler("done")
      BY <1>7, <2>1
    <3>2. create'[o].cancelRest = FALSE
      BY <3>1 DEF Handler
    <3> QED
      BY <2>1, <3>2 DEF RestOf
  <2>2. CASE ~(F = {} /\ r)
    <3>1. create'[o] = [Handler("fill") EXCEPT !.fills = F, !.left = n, !.cancelRest = k]
      BY <1>7, <2>2
    <3>2. create'[o].left = n /\ create'[o].cancelRest = k /\ create'[o].pc \in SettlingPcs
      BY <3>1 DEF Handler, SettlingPcs
    <3>3. CASE k
      BY <1>5, <3>2, <3>3 DEF RestOf
    <3>4. CASE ~k
      <4>1. r \/ n = 0
        BY <1>5, <1>6, <3>4
      <4>2. RestOf(o)' = 0
        BY <3>2, <3>4 DEF RestOf
      <4> QED
        BY <3>2, <3>4, <4>1, <4>2
    <3> QED
      BY <3>3, <3>4
  <2> QED
    BY <2>1, <2>2
<1>9. Unsettled(o)' = TradesWith(book, TakerOf(o))
  <2>1. /\ create'[o].fills = Fills(book, TakerOf(o)) /\ tx'[o] = NoTx
        /\ create[o].pc = "placed"
    BY SubmitEffect
  <2>2. TakerOf(o).id = o
    BY <2>1, SubmitTaker
  <2> QED
    BY <2>1, <2>2, NoTrades DEF Unsettled, TradesWith, TradeOf
<1>10. create'[o].cancelRest => create'[o].left > 0
  BY <1>8
<1> QED
  BY <1>1, <1>2, <1>3, <1>6, <1>8, <1>9, <1>10

\* What is left of a taker that is to be cancelled is what was not matched of it.
RestKnown(o) ==
    create[o].cancelRest =>
        /\ create[o].left > 0
        /\ order[o].remaining = create[o].left + VolumeOf(o, Unsettled(o))
        /\ \A e \in book : e.id # o

\* What the book and the settlement of a taker have of it, once it is submitted.
LEMMA SubmitLeaves ==
    ASSUME Inv, FillsInv, EntriesOK, NEW o \in Orders, SubmitOrder(o)
    PROVE  /\ Offering(book')
           /\ create'[o].cancelRest => \A e \in book' : e.id # o
           /\ order[o].remaining = RestOf(o)' + OfferIn(book', o) + VolumeOf(o, Unsettled(o)')
           /\ \A x \in Orders \ {o} :
                 OfferIn(book, x) = OfferIn(book', x) + VolumeOf(x, Unsettled(o)')
           /\ RestKnown(o)'
           /\ \A e \in book' : e.id = o => Rests(book, TakerOf(o))
<1> DEFINE taker == TakerOf(o)
<1>1. /\ Offering(book) /\ Newcomer(book, taker) /\ taker.id = o
      /\ taker.remaining = order[o].remaining /\ create[o].pc = "placed"
  BY BookOffers, SubmitTaker DEF SubmitOrder
<1>2. /\ UNCHANGED <<order, request>> /\ book' = Matched(book, taker)
  BY SubmitEffect
<1>3. /\ RestOf(o)' = IF Rests(book, taker) THEN 0 ELSE Left(book, taker)
      /\ create'[o].cancelRest =>
            create'[o].left = Left(book, taker) /\ create'[o].left > 0 /\ ~Rests(book, taker)
      /\ Unsettled(o)' = TradesWith(book, taker)
      /\ Left(book, taker) \in Nat
  BY SubmitExact
<1> HIDE DEF taker
<1>4. /\ Offering(Matched(book, taker))
      /\ ~Rests(book, taker) => \A e \in Matched(book, taker) : \E d : Remains(book, taker, d, e)
      /\ OfferIn(Matched(book, taker), o) = IF Rests(book, taker) THEN Left(book, taker) ELSE 0
  BY <1>1, RestOnBook
<1>5. VolumeOf(o, TradesWith(book, taker)) + Left(book, taker) = order[o].remaining
  BY <1>1, GetsExactly
<1>6. VolumeOf(o, TradesWith(book, taker)) \in Nat
  <2>1. IsFiniteSet(TradesWith(book, taker)) /\ TradesWith(book, taker) \subseteq Trade
    BY <1>1, TradesWithMakers DEF Offering, Newcomer
  <2> QED
    BY <2>1, VolumeType
<1>7. ~Rests(book, taker) => \A e \in book' : e.id # o
  BY <1>1, <1>2, <1>4 DEF Remains, Newcomer
<1>8. \A x \in Orders \ {o} :
          OfferIn(book, x) = OfferIn(book', x) + VolumeOf(x, Unsettled(o)')
  BY <1>1, <1>2, <1>3, GivesExactly
<1>9. order[o].remaining = RestOf(o)' + OfferIn(book', o) + VolumeOf(o, Unsettled(o)')
  BY <1>2, <1>3, <1>4, <1>5, <1>6
<1>10. RestKnown(o)'
  BY <1>2, <1>3, <1>5, <1>6, <1>7 DEF RestKnown
<1> QED
  BY <1>2, <1>3, <1>4, <1>7, <1>8, <1>9, <1>10 DEF taker
-----------------------------------------------------------------------------
(* Calls and the orders they work on *)

\* A step is that of one call: the others keep what they have.
OthersStay(p) ==
    /\ \A q \in Calls \ {p} : tx'[q] = tx[q]
    /\ \A q \in Orders \ {p} : create'[q] = create[q]
    /\ \A q \in CancelCalls \ {p} : cancel'[q] = cancel[q]
    /\ UNCHANGED <<request, target>>

\* The transaction of p is rolled back.
Rolls(p) == FailTransaction(p) \/ (p \in Orders /\ SettlementShort(p))

\* A step of call p.
Acts(p) ==
    \/ /\ p \in Orders
       /\ \/ ReceiveOrder(p) \/ PlaceOrder(p) \/ SubmitOrder(p) \/ Block(p)
          \/ CommitSettlement(p)
    \/ /\ p \in CancelCalls
       /\ ReceiveCancel(p) \/ MarkCancelled(p) \/ ReleaseHold(p) \/ CommitCancel(p)
    \/ Rolls(p)

\* A step is that of one call, a restart or none.
LEMMA StepOfCall ==
    ASSUME [Next]_vars
    PROVE  (\E p \in Calls : Acts(p)) \/ Restart \/ UNCHANGED vars
<1>1. CASE \E o \in Orders : ReceiveOrder(o) \/ CreateStep(o)
  BY <1>1 DEF Acts, CreateStep, Block, Rolls, Calls
<1>2. CASE \E c \in CancelCalls : ReceiveCancel(c) \/ CancelStep(c)
  BY <1>2 DEF Acts, CancelStep, Calls
<1>3. CASE \E p \in Calls : FailTransaction(p)
  BY <1>3 DEF Acts, Rolls
<1> QED
  BY <1>1, <1>2, <1>3 DEF Next

\* What a rollback does.
LEMMA RollEffect ==
    ASSUME Inv, NEW p \in Calls, Rolls(p)
    PROVE  /\ OthersStay(p) /\ UNCHANGED <<db, book, arrivals, price, restarts>>
           /\ tx'[p] = NoTx /\ InFlight(p) /\ ~InFlight(p)'
           /\ ~Undone(p) /\ Undone(p)'
           /\ p \in Orders => create'[p] \in {Handler("failed"), Handler("insufficient")}
           /\ p \in CancelCalls => cancel'[p] = Canceller("failed")
           /\ p \in Orders => create[p].pc \in SettlingPcs \cup {"placing"}
           /\ p \in CancelCalls => cancel[p].pc \in CancellingPcs
<1>1. /\ create \in [Orders -> Handlers] /\ cancel \in [CancelCalls -> Cancellers]
      /\ tx \in [Calls -> Tx] /\ Orders \cap CancelCalls = {}
  BY ExchangeAssumption DEF Inv, TypeInv, TypeOK
<1>2. CASE p \in Orders /\ SettlementShort(p)
  BY <1>1, <1>2 DEF SettlementShort, OthersStay, db, engine, inputs, InFlight, Undone, Handler,
      CreateEnds, SettlingPcs
<1>3. CASE FailTransaction(p) /\ p \in Orders
  BY <1>1, <1>3 DEF FailTransaction, OthersStay, db, engine, inputs, InFlight, Undone, Handler,
      CreateEnds, SettlingPcs
<1>4. CASE FailTransaction(p) /\ p \in CancelCalls
  BY <1>1, <1>4 DEF FailTransaction, OthersStay, db, engine, inputs, InFlight, Undone, Canceller,
      CancelEnds, CancellingPcs
<1> QED
  BY <1>2, <1>3, <1>4 DEF Rolls, Calls

\* The step of a call leaves the others alone.
LEMMA ActsAlone ==
    ASSUME Inv, NEW p \in Calls, Acts(p)
    PROVE  OthersStay(p) /\ restarts' = restarts
<1>1. /\ create \in [Orders -> Handlers] /\ cancel \in [CancelCalls -> Cancellers]
      /\ tx \in [Calls -> Tx] /\ Orders \cap CancelCalls = {} /\ Calls = Orders \cup CancelCalls
  BY ExchangeAssumption DEF Inv, TypeInv, TypeOK, Calls
<1>2. CASE Rolls(p)
  BY <1>2, RollEffect
<1>3. CASE p \in Orders /\ ReceiveOrder(p)
  BY <1>1, <1>3 DEF ReceiveOrder, OthersStay, db, engine, inputs
<1>4. CASE p \in Orders /\ PlaceOrder(p)
  BY <1>1, <1>4 DEF PlaceOrder, OthersStay, engine, inputs
<1>5. CASE p \in Orders /\ SubmitOrder(p)
  <2>1. UNCHANGED <<request, target, cancel, tx>> /\ \A q \in Orders \ {p} : create'[q] = create[q]
    BY <1>5, SubmitEffect
  <2> QED
    BY <1>5, <2>1 DEF OthersStay, SubmitOrder
<1>6. CASE p \in Orders /\ Block(p)
  BY <1>1, <1>6, Blocks DEF Alone, OthersStay, inputs
<1>7. CASE p \in Orders /\ CommitSettlement(p)
  BY <1>1, <1>7 DEF CommitSettlement, Commit, OthersStay, inputs, engine
<1>8. CASE p \in CancelCalls /\ ReceiveCancel(p)
  BY <1>1, <1>8 DEF ReceiveCancel, OthersStay, db, engine, inputs
<1>9. CASE p \in CancelCalls /\ MarkCancelled(p)
  BY <1>1, <1>9 DEF MarkCancelled, OthersStay, db, engine, inputs
<1>10. CASE p \in CancelCalls /\ ReleaseHold(p)
  BY <1>1, <1>10 DEF ReleaseHold, OthersStay, db, inputs
<1>11. CASE p \in CancelCalls /\ CommitCancel(p)
  BY <1>1, <1>11 DEF CommitCancel, Commit, OthersStay, inputs, engine
<1> QED
  BY <1>2, <1>3, <1>4, <1>5, <1>6, <1>7, <1>8, <1>9, <1>10, <1>11 DEF Acts

\* A call that does nothing works on the same orders.
LEMMA WorksStays ==
    ASSUME NEW p \in Calls, tx'[p] = tx[p], target' = target,
           p \in Orders => create'[p] = create[p],
           p \in CancelCalls => cancel'[p] = cancel[p]
    PROVE  /\ WorksOn(p)' = WorksOn(p) /\ InFlight(p)' = InFlight(p)
           /\ p \in Orders => Unsettled(p)' = Unsettled(p)
<1>1. InFlight(p)' = InFlight(p)
  BY DEF InFlight, Calls
<1>2. p \in Orders => Unsettled(p)' = Unsettled(p)
  BY DEF Unsettled, TradeOf
<1> QED
  BY <1>1, <1>2 DEF WorksOn, Calls

\* Every other call works on the same orders.
LEMMA OthersWork ==
    ASSUME NEW p, OthersStay(p), NEW q \in Calls \ {p}
    PROVE  /\ WorksOn(q)' = WorksOn(q) /\ InFlight(q)' = InFlight(q)
           /\ q \in Orders => Unsettled(q)' = Unsettled(q)
<1>1. /\ tx'[q] = tx[q] /\ target' = target
      /\ q \in Orders => create'[q] = create[q]
      /\ q \in CancelCalls => cancel'[q] = cancel[q]
  BY DEF OthersStay
<1> QED
  BY <1>1, WorksStays

\* A block works on what its settlement works on.
LEMMA BlockWorks ==
    ASSUME Inv, FillsInv, NEW o \in Orders, Block(o)
    PROVE  /\ WorksOn(o)' = WorksOn(o) /\ InFlight(o) /\ InFlight(o)' /\ o \in WorksOn(o)
           /\ create[o].pc \in {"buyer", "seller", "maker", "taker"} =>
                 NextFill(o).maker \in WorksOn(o)
<1>1. create[o].pc \in SettlingPcs /\ create'[o].pc \in SettlingPcs
  BY BlockFills
<1>2. InFlight(o) /\ InFlight(o)'
  BY <1>1 DEF InFlight, SettlingPcs, CreateEnds
<1>3. Unsettled(o)' = Unsettled(o)
  BY BlockUnsettled
<1>4. ASSUME create[o].pc \in {"buyer", "seller", "maker", "taker"}
      PROVE  NextFill(o).maker \in WorksOn(o)
  <2>1. NextFill(o) \in create[o].fills
    BY <1>4, FirstFill
  <2>2. TradeOf(o, NextFill(o)) \in Unsettled(o)
    BY <2>1 DEF Unsettled
  <2>3. TradeOf(o, NextFill(o)).maker = NextFill(o).maker
    BY DEF TradeOf
  <2> QED
    BY <1>2, <2>2, <2>3 DEF WorksOn
<1> QED
  BY <1>2, <1>3, <1>4 DEF WorksOn
-----------------------------------------------------------------------------
(* The shape of rows, whoever works on them *)

\* An open row has something left, a filled one has not.
Shaped(row) ==
    /\ row.status \in OpenStatuses => row.remaining > 0
    /\ row.status = "FILLED" => row.remaining = 0

RowsShaped ==
    /\ \A x \in Orders : Shaped(order[x])
    /\ \A p \in Calls, x \in Orders : Shaped(tx[p].order[x])

\* A transaction writes rows of the orders its call works on.
Wrote(p, x) == tx[p].order[x] # NoOrder \/ tx[p].hold[x] # NoHold
WritesLocal == \A p \in Calls, x \in Orders : Wrote(p, x) => x \in WorksOn(p)

\* Only a rest that is to be cancelled has its hold read, when all is settled.
RestShape(o) == create[o].pc = "remainder" => create[o].cancelRest /\ create[o].fills = {}

ShapeInv == RowsShaped /\ WritesLocal /\ EntriesOK /\ \A o \in Orders : RestShape(o)

\* A transaction that has written nothing.
LEMMA NothingWrote ==
    ASSUME NEW p, tx[p] = NoTx
    PROVE  \A x \in Orders : /\ ~Wrote(p, x) /\ Shaped(tx[p].order[x])
                             /\ OrderSeen(p, x) = order[x] /\ HoldSeen(p, x) = hold[x]
BY NoTxFields DEF Wrote, Shaped, NoOrder, OpenStatuses, OrderSeen, HoldSeen

\* What a fill takes of an order is still there in the row that is seen.
LEMMA RowFits ==
    ASSUME Inv, FillsInv, NEW o \in Orders,
           create[o].pc \in {"buyer", "seller", "maker", "taker"},
           NEW x, x = o \/ (create[o].pc # "taker" /\ x = NextFill(o).maker)
    PROVE  /\ x \in Placed /\ x \in Orders
           /\ OrderSeen(o, x).remaining >= NextFill(o).quantity
           /\ NextFill(o).quantity \in Nat \ {0}
<1> DEFINE q == NextFill(o).quantity
           u == TradeOf(o, NextFill(o))
           T == tx[o].trades
<1>1. /\ NextFill(o) \in create[o].fills /\ x \in Orders /\ x \in Placed
      /\ q \in Nat \ {0} /\ u \in Trade /\ o \in Calls
  BY FirstFill, CallTypes
<1>2. /\ OrderSeen(o, x) \in OrderRow /\ order[x] \in OrderRow
  BY <1>1, CallTypes
<1>3. /\ OrderSeen(o, x).filled \in Int /\ OrderSeen(o, x).remaining \in Int
      /\ order[x].filled \in Int /\ order[x].remaining \in Int
  BY <1>2 DEF OrderRow
<1>4. Follows(o, x) /\ TradesOfCall(o)
  BY <1>1 DEF FillsInv, SettlementsOK
<1>5. IsFiniteSet(T) /\ T \subseteq Trade /\ T \subseteq Unsettled(o) /\ u \in Unsettled(o)
  BY <1>1, CallTypes DEF FillsInv, SettlementsOK, FillsOf, Unsettled
<1>6. /\ Unsettled(o) \subseteq Matching /\ IsFiniteSet(Matching) /\ Matching \subseteq Trade
  BY MatchingType DEF Matching
<1>7. /\ InEngine(x) <= order[x].remaining
      /\ InEngine(x) = OfferIn(book, x) + VolumeOf(x, Matching)
      /\ OfferIn(book, x) \in Nat /\ VolumeOf(x, Matching) \in Nat
  <2>1. OfferIn(book, x) \in Nat
    BY OfferType DEF Inv, TypeInv, TypeOK
  <2>2. VolumeOf(x, Matching) \in Nat
    BY <1>6, VolumeType
  <2> QED
    BY <1>1, <2>1, <2>2 DEF FillsInv, EngineWithinOrders, InEngine, OfferIn, VolumeOf, Matching
<1>8. VolumeOf(x, T) \in Nat
  BY <1>5, VolumeType
<1>9. OrderSeen(o, x).remaining >= q
  <2>1. CASE create[o].pc \in {"maker", "taker"}
    <3>1. Pend(o, x) = q
      BY <2>1 DEF Pend
    <3>2. VolumeOf(x, T) <= VolumeOf(x, Matching)
      BY <1>5, <1>6, VolumeLess
    <3> HIDE DEF q, T
    <3> QED
      BY <1>1, <1>3, <1>4, <1>7, <1>8, <3>1, <3>2 DEF Follows, T
  <2>2. CASE create[o].pc \in {"buyer", "seller"}
    <3>1. Pend(o, x) = 0
      BY <2>2 DEF Pend
    <3>2. u \notin T
      <4>1. ~Working(o) /\ u.maker = NextFill(o).maker
        BY <2>2 DEF Working, TradeOf
      <4> QED
        BY <1>1, <1>4, <4>1 DEF TradesOfCall
    <3>3. VolumeOf(x, T \cup {u}) = VolumeOf(x, T) + Share(x, u)
      BY <1>1, <1>5, <3>2, VolumeAdd
    <3>4. Share(x, u) = q
      BY DEF Share, TradeOf
    <3>5. VolumeOf(x, T \cup {u}) <= VolumeOf(x, Matching)
      BY <1>5, <1>6, VolumeLess
    <3> HIDE DEF q, T, u
    <3> QED
      BY <1>1, <1>3, <1>4, <1>7, <1>8, <3>1, <3>3, <3>4, <3>5 DEF Follows, T
  <2> QED
    BY <2>1, <2>2
<1> QED
  BY <1>1, <1>9

\* What a settlement writes to a row leaves it in shape.
LEMMA FilledShaped ==
    ASSUME Inv, FillsInv, NEW o \in Orders, create[o].pc \in {"maker", "taker"}
    PROVE  Shaped(Filled(o)) /\ Filled(o).status \in {"FILLED", "PARTIALLY_FILLED"}
<1>1. PICK z : z = IF create[o].pc = "maker" THEN NextFill(o).maker ELSE o
  OBVIOUS
<1>2. PICK n : n = NextFill(o).quantity
  OBVIOUS
<1>3. OrderSeen(o, z).remaining >= n /\ n \in Nat /\ z \in Orders
  BY <1>1, <1>2, RowFits
<1>4. Agrees(o, z)
  BY <1>1 DEF FillsInv, SettlementsOK, SeenOK
<1>5. PICK seen \in OrderRow : seen = create[o].seenOrder
  BY CallTypes
<1>6. seen.remaining >= n /\ seen.remaining \in Int
  BY <1>3, <1>4, <1>5 DEF Agrees, OrderRow
<1>7. Filled(o) = Applied(seen, n)
  BY <1>2, <1>5 DEF Filled
<1>8. /\ Filled(o).remaining = seen.remaining - n
      /\ Filled(o).status = IF seen.remaining - n <= 0 THEN "FILLED" ELSE "PARTIALLY_FILLED"
  BY <1>7 DEF Applied, OrderRow
<1>9. seen.remaining - n \in Int /\ seen.remaining - n >= 0
  BY <1>3, <1>6
<1> QED
  BY <1>8, <1>9 DEF Shaped, OpenStatuses

\* A block writes rows in shape, of orders it works on.
LEMMA BlockShape ==
    ASSUME Inv, FillsInv, ShapeInv, NEW o \in Orders, Block(o)
    PROVE  /\ \A x \in Orders : Shaped(tx'[o].order[x])
           /\ \A x \in Orders : Wrote(o, x)' => x \in WorksOn(o)'
           /\ RestShape(o)'
<1>1. Effect(o) /\ Exact(o) /\ WorksOn(o)' = WorksOn(o) /\ o \in WorksOn(o) /\ o \in Calls
  BY Blocks, ExactBlocks, BlockWorks DEF Calls
<1>2. tx[o].order \in [Orders -> OrderRow]
  BY CallTypes DEF Tx
<1>3. /\ \A x \in Orders : Shaped(tx[o].order[x])
      /\ \A x \in Orders : Wrote(o, x) => x \in WorksOn(o)
  BY <1>1 DEF ShapeInv, RowsShaped, WritesLocal
<1>4. create[o].pc \in {"buyer", "seller", "maker", "taker"} =>
         NextFill(o).maker \in WorksOn(o)
  BY BlockWorks
<1>5. \A x \in Orders : Shaped(tx'[o].order[x])
  <2>1. CASE tx'[o].order = tx[o].order
    BY <1>3, <2>1
  <2>2. CASE create[o].pc \in {"maker", "taker"} /\ \E z : WritesOrder(o, z, Filled(o))
    BY <1>2, <1>3, <2>2, FilledShaped DEF WritesOrder
  <2>3. CASE WritesOrder(o, o, [OrderSeen(o, o) EXCEPT !.status = "CANCELLED"])
    <3>1. PICK row : row = [OrderSeen(o, o) EXCEPT !.status = "CANCELLED"]
      OBVIOUS
    <3>2. row.status = "CANCELLED"
      BY <3>1, CallTypes DEF OrderRow
    <3>3. Shaped(row)
      BY <3>2 DEF Shaped, OpenStatuses
    <3> QED
      BY <1>2, <1>3, <2>3, <3>1, <3>3 DEF WritesOrder
  <2> QED
    BY <1>1, <2>1, <2>2, <2>3 DEF Effect, Moves, KeepsOrders
<1>6. ASSUME NEW x \in Orders, Wrote(o, x)', x \notin WorksOn(o) PROVE FALSE
  <2>1. tx[o].order[x] = NoOrder /\ tx[o].hold[x] = NoHold /\ x # o
    BY <1>1, <1>3, <1>6 DEF Wrote
  <2>2. tx'[o].order[x] = tx[o].order[x]
    BY <1>1, <1>2, <1>4, <1>6, <2>1 DEF Effect, Moves, KeepsOrders, WritesOrder
  <2>3. ASSUME create[o].pc \in {"buyer", "seller"}
        PROVE  Buyer(o) \in WorksOn(o) /\ Seller(o) \in WorksOn(o)
    BY <1>1, <1>4, <2>3 DEF Buyer, Seller
  <2>4. tx'[o].hold[x] = tx[o].hold[x]
    BY <1>1, <1>6, <2>1, <2>3 DEF Effect, Moves, KeepsHolds, WritesHold
  <2> QED
    BY <1>6, <2>1, <2>2, <2>4 DEF Wrote
<1>7. RestShape(o)'
  BY <1>1 DEF Exact, Moves, KeepsRest, RestShape
<1> QED
  BY <1>1, <1>5, <1>6, <1>7

\* A call writes rows in shape, of orders it works on.
LEMMA ActsShape ==
    ASSUME Inv, FillsInv, ShapeInv, NEW p \in Calls, Acts(p)
    PROVE  /\ \A x \in Orders : Shaped(tx'[p].order[x])
           /\ \A x \in Orders : Wrote(p, x)' => x \in WorksOn(p)'
           /\ p \in Orders => RestShape(p)'
<1>1. /\ create \in [Orders -> Handlers] /\ cancel \in [CancelCalls -> Cancellers]
      /\ tx \in [Calls -> Tx] /\ Orders \cap CancelCalls = {} /\ target \in [CancelCalls -> Orders]
      /\ tx[p].order \in [Orders -> OrderRow] /\ tx[p].hold \in [Orders -> HoldRow]
  BY ExchangeAssumption DEF Inv, TypeInv, TypeOK, Tx
<1>2. ASSUME tx'[p] = NoTx, p \in Orders => create'[p].pc # "remainder"
      PROVE  /\ \A x \in Orders : Shaped(tx'[p].order[x])
             /\ \A x \in Orders : Wrote(p, x)' => x \in WorksOn(p)'
             /\ p \in Orders => RestShape(p)'
  BY <1>2, NothingWrote, NoTxFields DEF RestShape, Wrote, Shaped, NoOrder, OpenStatuses
<1>3. CASE Rolls(p)
  BY <1>2, <1>3, RollEffect DEF Handler
<1>4. CASE p \in Orders /\ (ReceiveOrder(p) \/ PlaceOrder(p) \/ SubmitOrder(p))
  <2>1. tx' = tx /\ create[p].pc \in {"new", "placing", "placed"}
    BY <1>4 DEF ReceiveOrder, PlaceOrder, SubmitOrder
  <2>2. tx[p] = NoTx
    BY <1>4, <2>1 DEF Inv, IdleInv, SettlingPcs
  <2>3. CASE SubmitOrder(p)
    BY <1>2, <1>4, <2>1, <2>2, <2>3, SubmitEffect
  <2>4. CASE ReceiveOrder(p) \/ PlaceOrder(p)
    BY <1>1, <1>2, <1>4, <2>1, <2>2, <2>4 DEF ReceiveOrder, PlaceOrder, Handler
  <2> QED
    BY <1>4, <2>3, <2>4
<1>5. CASE p \in Orders /\ Block(p)
  BY <1>5, BlockShape
<1>6. CASE p \in Orders /\ CommitSettlement(p)
  <2>1. tx'[p] = NoTx /\ create'[p].pc = "done"
    BY <1>1, <1>6 DEF CommitSettlement, Commit, Handler
  <2> QED
    BY <1>2, <2>1
<1>7. CASE p \in CancelCalls /\ (ReceiveCancel(p) \/ CommitCancel(p))
  <2>1. tx'[p] = NoTx
    <3>1. CASE ReceiveCancel(p)
      BY <1>7, <3>1 DEF ReceiveCancel, Inv, IdleInv
    <3>2. CASE CommitCancel(p)
      BY <1>1, <1>7, <3>2 DEF CommitCancel, Commit
    <3> QED
      BY <1>7, <3>1, <3>2
  <2> QED
    BY <1>1, <1>2, <1>7, <2>1
<1>8. CASE p \in CancelCalls /\ MarkCancelled(p)
  <2>1. PICK x : x = target[p]
    OBVIOUS
  <2>2. PICK row : row = [order[x] EXCEPT !.status = "CANCELLED"]
    OBVIOUS
  <2>3. x \in Orders /\ row.status = "CANCELLED" /\ p \notin Orders
    BY <1>1, <1>8, <2>1, <2>2 DEF Inv, TypeInv, TypeOK, OrderRow
  <2>4. /\ tx'[p].order = [tx[p].order EXCEPT ![x] = row] /\ tx'[p].hold = tx[p].hold
        /\ cancel'[p].pc = "marked" /\ target' = target
    <3>1. /\ tx' = [tx EXCEPT ![p].order[x] = row, ![p].rows = Needs(p)] /\ target' = target
          /\ cancel' = [cancel EXCEPT ![p] = [pc |-> "marked", seenHold |-> hold[x]]]
      BY <1>8, <2>1, <2>2 DEF MarkCancelled, inputs
    <3> QED
      BY <1>1, <1>8, <3>1 DEF Tx
  <2>5. tx[p] = NoTx
    BY <1>8 DEF MarkCancelled, Inv, IdleInv
  <2>6. Shaped(row) /\ \A y \in Orders : Shaped(tx[p].order[y]) /\ ~Wrote(p, y)
    BY <2>3, <2>5, NothingWrote DEF Shaped, OpenStatuses
  <2>7. \A y \in Orders : Shaped(tx'[p].order[y])
    BY <1>1, <2>3, <2>4, <2>6
  <2>8. \A y \in Orders : Wrote(p, y)' => y = x
    BY <1>1, <2>4, <2>6 DEF Wrote
  <2>9. WorksOn(p)' = {x}
    BY <1>1, <2>1, <2>3, <2>4 DEF WorksOn, InFlight, CancelEnds
  <2> QED
    BY <2>3, <2>7, <2>8, <2>9
<1>9. CASE p \in CancelCalls /\ ReleaseHold(p)
  <2>1. PICK x : x = target[p]
    OBVIOUS
  <2>2. /\ x \in Orders /\ p \notin Orders /\ target' = target
        /\ cancel[p].pc = "marked" /\ cancel'[p].pc = "released"
    BY <1>1, <1>9, <2>1 DEF ReleaseHold, Canceller, inputs
  <2>3. tx'[p].order = tx[p].order /\ \A y \in Orders \ {x} : tx'[p].hold[y] = tx[p].hold[y]
    <3>1. CASE UNCHANGED tx
      BY <3>1
    <3>2. CASE tx' = [tx EXCEPT ![p] = [releaseHold(p) EXCEPT !.rows = @ \cup Needs(p)]]
      <4>1. tx'[p] = [releaseHold(p) EXCEPT !.rows = @ \cup Needs(p)]
        BY <1>1, <3>2
      <4> QED
        BY <1>1, <2>1, <4>1 DEF releaseHold, Tx
    <3> QED
      BY <1>9, <3>1, <3>2 DEF ReleaseHold
  <2>4. WorksOn(p) = {x} /\ WorksOn(p)' = {x}
    BY <1>1, <2>1, <2>2 DEF WorksOn, InFlight, CancelEnds
  <2> QED
    BY <2>2, <2>3, <2>4 DEF ShapeInv, RowsShaped, WritesLocal, Wrote
<1> QED
  BY <1>3, <1>4, <1>5, <1>6, <1>7, <1>8, <1>9 DEF Acts

\* What a step of a call does to the committed rows.
LEMMA ActsOnRows ==
    ASSUME Inv, NEW p \in Calls, Acts(p)
    PROVE  \/ UNCHANGED <<account, order, hold, price>>
           \/ p \in Orders /\ ReceiveOrder(p) /\ UNCHANGED <<account, order, hold, book>>
           \/ p \in Orders /\ PlaceOrder(p) /\ UNCHANGED <<book, price, tx>>
           \/ Commit(p) /\ UNCHANGED <<book, price>>
<1>1. CASE Rolls(p)
  BY <1>1, RollEffect DEF db
<1>2. CASE p \in Orders /\ (ReceiveOrder(p) \/ PlaceOrder(p) \/ SubmitOrder(p))
  BY <1>2 DEF ReceiveOrder, PlaceOrder, SubmitOrder, db, engine
<1>3. CASE p \in Orders /\ Block(p)
  BY <1>3, Blocks DEF Alone, db
<1>4. CASE p \in Orders /\ CommitSettlement(p)
  BY <1>4 DEF CommitSettlement, engine
<1>5. CASE p \in CancelCalls /\ (ReceiveCancel(p) \/ MarkCancelled(p) \/ ReleaseHold(p))
  BY <1>5 DEF ReceiveCancel, MarkCancelled, ReleaseHold, db
<1>6. CASE p \in CancelCalls /\ CommitCancel(p)
  BY <1>6 DEF CommitCancel, engine
<1> QED
  BY <1>1, <1>2, <1>3, <1>4, <1>5, <1>6 DEF Acts

\* What a placed order starts with.
LEMMA PlacedRow ==
    ASSUME Inv, NEW o \in Orders, PlaceOrder(o)
    PROVE  \/ /\ UNCHANGED <<account, order, hold>> /\ create'[o].pc = "rejected"
              /\ create'[o].fills = {}
           \/ /\ create'[o].pc = "placed" /\ create'[o].fills = {}
              /\ order'[o] = [status |-> "OPEN", filled |-> 0,
                              remaining |-> request[o].quantity,
                              created |-> Cardinality(Placed) + 1]
              /\ hold'[o] = [status |-> "ACTIVE",
                             amount |-> reserveAmount(o, request[o].quantity)]
              /\ \A x \in Orders \ {o} : order'[x] = order[x] /\ hold'[x] = hold[x]
              /\ \A a \in Accounts :
                    account'[a].locked
                      = account[a].locked
                        + (IF a = HoldAccount(o) THEN reserveAmount(o, request[o].quantity) ELSE 0)
              /\ hold' \in [Orders -> HoldRow]
<1> DEFINE a == HoldAccount(o)
           q == request[o].quantity
           amount == reserveAmount(o, q)
<1>1. /\ a \in Accounts /\ q \in Nat \ {0} /\ amount \in Nat
      /\ account \in [Accounts -> Balance] /\ hold \in [Orders -> HoldRow]
      /\ order \in [Orders -> OrderRow] /\ create \in [Orders -> Handlers]
  BY ReserveType, RequestType DEF Inv, TypeInv, TypeOK
<1>2. CASE account[a].available < amount
  BY <1>1, <1>2 DEF PlaceOrder, Balance, Handler
<1>3. CASE account[a].available >= amount
  <2>1. /\ account' = [account EXCEPT ![a] =
                [available |-> @.available - amount, locked |-> @.locked + amount]]
        /\ order' = [order EXCEPT ![o] =
                [status |-> "OPEN", filled |-> 0, remaining |-> q,
                 created |-> Cardinality(Placed) + 1]]
        /\ hold' = [hold EXCEPT ![o] = [status |-> "ACTIVE", amount |-> amount]]
        /\ create'[o] = Handler("placed")
    BY <1>1, <1>3 DEF PlaceOrder, Balance
  <2> HIDE DEF a, q, amount
  <2>2. [status |-> "ACTIVE", amount |-> amount] \in HoldRow
    BY <1>1 DEF HoldRow
  <2>3. hold' \in [Orders -> HoldRow]
    BY <1>1, <2>1, <2>2
  <2>4. \A b \in Accounts :
            account'[b].locked = account[b].locked + (IF b = a THEN amount ELSE 0)
    BY <1>1, <2>1 DEF Balance
  <2>5. create'[o].pc = "placed" /\ create'[o].fills = {}
    BY <2>1 DEF Handler
  <2> QED
    BY <1>1, <2>1, <2>3, <2>4, <2>5 DEF a, q, amount
<1> QED
  BY <1>1, <1>2, <1>3 DEF Balance

\* The book stays one of LIMIT orders that offer something.
LEMMA StepEntries ==
    ASSUME Inv, FreshInv, FillsInv, ShapeInv, [Next]_vars
    PROVE  EntriesOK'
<1>0. EntriesOK
  BY DEF ShapeInv
<1>1. CASE \E o \in Orders : SubmitOrder(o)
  <2>1. PICK o \in Orders : SubmitOrder(o)
    BY <1>1
  <2>2. /\ UNCHANGED <<order, request, price>> /\ book' = Matched(book, TakerOf(o))
        /\ create[o].pc = "placed"
    BY <2>1, SubmitEffect
  <2>3. Offering(book')
    BY <1>0, <2>1, SubmitLeaves
  <2>4. Distinct(book) /\ Newcomer(book, TakerOf(o)) /\ TakerOf(o).id = o
    BY <2>2, SubmitTaker
  <2>5. TakerOf(o).price = price[o] /\ TakerOf(o).type = request[o].type
    BY DEF TakerOf, EngineOrder
  <2>6. ASSUME NEW e \in book' PROVE request[e.id].type = "LIMIT" /\ e.price = price[e.id]
    <3>1. (\E d : Remains(book, TakerOf(o), d, e)) \/ Rest(book, TakerOf(o), e)
      BY <2>2, <2>4, <2>6, MatchedEntries DEF Newcomer
    <3>2. CASE \E d : Remains(book, TakerOf(o), d, e)
      BY <1>0, <3>2 DEF Remains, EntriesOK
    <3>3. CASE Rest(book, TakerOf(o), e)
      <4>1. e.id = o /\ e.price = price[o]
        BY <2>4, <2>5, <3>3 DEF Rest
      <4>2. Rests(book, TakerOf(o))
        BY <1>0, <2>1, <2>6, <4>1, SubmitLeaves
      <4> QED
        BY <2>5, <4>1, <4>2 DEF Rests
    <3> QED
      BY <3>1, <3>2, <3>3
  <2> QED
    BY <2>2, <2>3, <2>6 DEF EntriesOK, Offering
<1>2. CASE Restart
  <2>1. ASSUME NEW e \in book'
        PROVE  e.remaining > 0 /\ request[e.id].type = "LIMIT" /\ e.price = price[e.id]
    <3>1. PICK x \in Orders : /\ e = EngineOrder(x, order[x].remaining, order[x].created)
                              /\ order[x].status \in OpenStatuses /\ request[x].type = "LIMIT"
      BY <1>2 DEF Restart
    <3>2. order[x].remaining > 0
      BY <3>1 DEF ShapeInv, RowsShaped, Shaped
    <3> QED
      BY <3>1, <3>2 DEF EngineOrder
  <2> QED
    BY <1>2, <2>1 DEF EntriesOK, Restart, inputs
<1>3. CASE \E o \in Orders : ReceiveOrder(o)
  <2>1. PICK o \in Orders : ReceiveOrder(o)
    BY <1>3
  <2>2. \A e \in book : e.id # o
    BY <2>1 DEF ReceiveOrder, FreshInv, Fresh, NoUse
  <2>3. UNCHANGED <<book, request>> /\ \A x \in Orders \ {o} : price'[x] = price[x]
    BY <2>1 DEF ReceiveOrder, engine, inputs, Inv, TypeInv, TypeOK
  <2>4. \A e \in book : e.id \in Orders
    BY DEF Inv, TypeInv, TypeOK, BookEntry
  <2> QED
    BY <1>0, <2>2, <2>3, <2>4 DEF EntriesOK
<1>4. CASE \E o \in Orders : CreateStep(o) /\ ~SubmitOrder(o)
  BY <1>0, <1>4 DEF EntriesOK, CreateStep, PlaceOrder, ReadBuyerHold, ReduceBuyerHold,
      PostFill, SettlementShort, FillMaker, FillTaker, ReadRemainderHold,
      CancelRemainder, CommitSettlement, Settle, engine, inputs
<1>5. CASE \E c \in CancelCalls : ReceiveCancel(c) \/ CancelStep(c)
  BY <1>0, <1>5 DEF EntriesOK, ReceiveCancel, CancelStep, MarkCancelled, ReleaseHold, CommitCancel,
      engine, inputs
<1>6. CASE \E p \in Calls : FailTransaction(p)
  BY <1>0, <1>6 DEF EntriesOK, FailTransaction, engine, inputs
<1>7. CASE UNCHANGED vars
  BY <1>0, <1>7 DEF EntriesOK, vars, engine, inputs
<1> QED
  BY <1>1, <1>2, <1>3, <1>4, <1>5, <1>6, <1>7 DEF Next, CreateStep

\* Rows stay in shape, and every transaction among the orders of its call.
LEMMA StepShape ==
    ASSUME Inv, FreshInv, FillsInv, ShapeInv, [Next]_vars
    PROVE  ShapeInv'
<1>1. EntriesOK'
  BY StepEntries
<1>2. RowsShaped /\ WritesLocal /\ \A o \in Orders : RestShape(o)
  BY DEF ShapeInv
<1>3. ASSUME NEW p \in Calls, Acts(p) PROVE ShapeInv'
  <2>1. OthersStay(p)
    BY <1>3, ActsAlone
  <2>2. /\ \A x \in Orders : Shaped(tx'[p].order[x])
        /\ \A x \in Orders : Wrote(p, x)' => x \in WorksOn(p)'
        /\ p \in Orders => RestShape(p)'
    BY <1>3, ActsShape
  <2>3. ASSUME NEW x \in Orders PROVE Shaped(order'[x])
    <3>1. Shaped(order[x]) /\ Shaped(OrderSeen(p, x))
      BY <1>2 DEF RowsShaped, OrderSeen
    <3>2. CASE p \in Orders /\ PlaceOrder(p)
      <4>1. request[p].quantity > 0
        BY <3>2, RequestType DEF Inv, TypeInv, TypeOK
      <4>2. \/ order' = order
            \/ /\ order'[p] = [status |-> "OPEN", filled |-> 0,
                               remaining |-> request[p].quantity,
                               created |-> Cardinality(Placed) + 1]
               /\ \A y \in Orders \ {p} : order'[y] = order[y]
        BY <3>2, PlacedRow
      <4> QED
        BY <3>1, <4>1, <4>2 DEF Shaped, OpenStatuses
    <3>3. CASE Commit(p)
      BY <3>1, <3>3 DEF Commit
    <3> QED
      BY <1>3, <3>1, <3>2, <3>3, ActsOnRows
  <2>4. RowsShaped'
    BY <1>2, <2>1, <2>2, <2>3 DEF RowsShaped, OthersStay
  <2>5. WritesLocal'
    <3>1. ASSUME NEW q \in Calls \ {p}, NEW x \in Orders, Wrote(q, x)' PROVE x \in WorksOn(q)'
      <4>1. Wrote(q, x) /\ WorksOn(q)' = WorksOn(q)
        BY <2>1, <3>1, OthersWork DEF OthersStay, Wrote
      <4> QED
        BY <1>2, <3>1, <4>1 DEF WritesLocal
    <3> QED
      BY <2>2, <3>1 DEF WritesLocal
  <2>6. \A o \in Orders : RestShape(o)'
    BY <1>2, <2>1, <2>2 DEF RestShape, OthersStay
  <2> QED
    BY <1>1, <2>4, <2>5, <2>6 DEF ShapeInv
<1>4. CASE Restart
  <2>1. /\ order' = order /\ \A p \in Calls : tx'[p] = NoTx
        /\ \A o \in Orders : create'[o] = IF InFlight(o) THEN Handler("lost") ELSE create[o]
    BY <1>4 DEF Restart, db
  <2>2. \A p \in Calls, x \in Orders : ~Wrote(p, x)' /\ Shaped(tx'[p].order[x])
    BY <2>1, NoTxFields DEF Wrote, Shaped, NoOrder, OpenStatuses
  <2>3. RowsShaped'
    BY <1>2, <2>1, <2>2 DEF RowsShaped
  <2>4. WritesLocal'
    BY <2>2 DEF WritesLocal
  <2>5. \A o \in Orders : RestShape(o)'
    BY <1>2, <2>1 DEF RestShape, Handler
  <2> QED
    BY <1>1, <2>3, <2>4, <2>5 DEF ShapeInv
<1>5. CASE UNCHANGED vars
  <2>1. UNCHANGED <<order, tx, create, cancel, target>>
    BY <1>5 DEF vars, db, inputs
  <2>2. RowsShaped'
    BY <1>2, <2>1 DEF RowsShaped
  <2>3. WritesLocal'
    <3>1. ASSUME NEW p \in Calls, NEW x \in Orders, Wrote(p, x)' PROVE x \in WorksOn(p)'
      <4>1. Wrote(p, x) /\ WorksOn(p)' = WorksOn(p)
        BY <2>1, <3>1, WorksStays DEF Wrote
      <4> QED
        BY <1>2, <4>1 DEF WritesLocal
    <3> QED
      BY <3>1 DEF WritesLocal
  <2>4. \A o \in Orders : RestShape(o)'
    BY <1>2, <2>1 DEF RestShape
  <2> QED
    BY <1>1, <2>2, <2>3, <2>4 DEF ShapeInv
<1> QED
  BY <1>3, <1>4, <1>5, StepOfCall

LEMMA InitShape ==
    ASSUME Init
    PROVE  ShapeInv
<1>1. \A p \in Calls : tx[p] = NoTx
  BY DEF Init
<1>2. \A p \in Calls, x \in Orders : ~Wrote(p, x) /\ Shaped(tx[p].order[x])
  BY <1>1, NoTxFields DEF Wrote, Shaped, NoOrder, OpenStatuses
<1>3. \A x \in Orders : Shaped(order[x])
  BY DEF Init, Shaped, NoOrder, OpenStatuses
<1>4. EntriesOK
  BY DEF Init, EntriesOK
<1>5. \A o \in Orders : RestShape(o)
  BY DEF Init, RestShape, Handler
<1> QED
  BY <1>2, <1>3, <1>4, <1>5 DEF ShapeInv, RowsShaped, WritesLocal
-----------------------------------------------------------------------------
(* The orders that no two calls have worked on *)

\* How much of the hold of x the settlement of o gave up ahead of the row of x.
Reduced(o, x) ==
    IF \/ create[o].pc = "seller" /\ x = Buyer(o)
       \/ create[o].pc = "maker" /\ x \in {o, NextFill(o).maker}
       \/ create[o].pc = "taker" /\ x = o
    THEN NextFill(o).quantity ELSE 0

\* The next block of the settlement of o may write the hold of x.
Reduces(o, x) ==
    \/ create[o].pc = "buyer" /\ x = Buyer(o)
    \/ create[o].pc = "seller" /\ x = Seller(o)
    \/ create[o].pc = "remainder" /\ x = o

\* The hold that was read is the one that is written.
HoldRead(o, x) == Reduces(o, x) => create[o].seenHold = HoldSeen(o, x)

\* Nothing that the settlement of o still has to do is about a cancelled order.
NotCancelled(o, x) ==
    OrderSeen(o, x).status = "CANCELLED" =>
        /\ \A e \in book : e.id # x
        /\ \A f \in create[o].fills : x # o /\ x # f.maker
        /\ create[o].cancelRest => x # o

\* What the settlement of o has made of the row and the hold of x.
OrderCovered(o, x) ==
    /\ Covered(x, OrderSeen(o, x), HoldSeen(o, x), Reduced(o, x))
    /\ HoldRead(o, x) /\ NotCancelled(o, x)
    /\ x = o => RestKnown(o)

\* A cancellation leaves its order without a hold and off the book.
CancelCovered(c) ==
    /\ OrderSeen(c, target[c]).status = "CANCELLED"
    /\ cancel[c].pc = "released" =>
          /\ HoldSeen(c, target[c]).status # "ACTIVE"
          /\ \A e \in book : e.id # target[c]

CallCovered(p, x) ==
    /\ p \in Orders /\ create[p].pc \in SettlingPcs => OrderCovered(p, x)
    /\ p \in CancelCalls /\ cancel[p].pc \in {"marked", "released"} => CancelCovered(p)

\* What is committed of x.
RowCovered(x) ==
    /\ Covered(x, order[x], hold[x], 0)
    /\ \A e \in book : e.id = x => order[x].status # "CANCELLED"
    /\ create[x].pc = "placed" => order[x].status = "OPEN"

\* No order of the account was worked on by two calls at once.
Clean(a) == \A x \in Orders : HoldAccount(x) = a => x \notin shared

\* What p unlocks is what its holds give up.
LockedBy(p, a) == tx[p].delta[a].locked = Held(HoldsSeen(p), a) - Held(hold, a)
-----------------------------------------------------------------------------
(* Blocks of a settlement *)

\* A hold gives up what a fill or a cancelled rest had reserved.
LEMMA HoldReduced ==
    ASSUME Inv, FillsInv, NEW o \in Orders, UNCHANGED <<hold, request>>,
           NEW x \in Placed, NEW n \in Nat \ {0}, GivesUpActive(o, x, reserveAmount(x, n)),
           create[o].seenHold = HoldSeen(o, x),
           Covered(x, OrderSeen(o, x), HoldSeen(o, x), 0),
           OrderSeen(o, x).status \in OpenStatuses, OrderSeen(o, x).remaining >= n
    PROVE  /\ Covered(x, OrderSeen(o, x), HoldSeen(o, x)', n)
           /\ \A a \in Accounts :
                 tx'[o].delta[a].locked - tx[o].delta[a].locked
                    = Locks(HoldSeen(o, x)', x, a) - Locks(HoldSeen(o, x), x, a)
<1> DEFINE A == reserveAmount(x, n)
           h == HoldSeen(o, x)
           k == IF h.amount - A <= 0 THEN [status |-> "CONSUMED", amount |-> 0]
                ELSE [status |-> h.status, amount |-> h.amount - A]
<1>1. TypeOK /\ x \in Orders /\ price[x] > 0 /\ o \in Calls
  BY DEF Inv, TypeInv, FillsInv, RowsOK, Placed, Calls
<1>2. OrderSeen(o, x) \in OrderRow /\ h \in HoldRow
  BY <1>1, SeenType
<1>3. /\ h.status = "ACTIVE" /\ k \in HoldRow /\ k # NoHold
      /\ Covered(x, OrderSeen(o, x), k, n)
      /\ \A a : Locks(k, x, a) - Locks(h, x, a) = -(IF a = HoldAccount(x) THEN A ELSE 0)
  BY <1>1, <1>2, CoveredReduced
<1>4. /\ tx'[o].hold[x] = k
      /\ \A a \in Accounts : tx'[o].delta[a].locked
            = tx[o].delta[a].locked - (IF a = HoldAccount(x) THEN A ELSE 0)
  BY <1>3 DEF GivesUpActive, GivesUp
<1>5. A \in Nat
  BY <1>1, ReserveType
<1> HIDE DEF k, A
<1>6. HoldSeen(o, x)' = k
  BY <1>3, <1>4 DEF HoldSeen
<1>7. ASSUME NEW a \in Accounts
      PROVE  tx'[o].delta[a].locked - tx[o].delta[a].locked = Locks(k, x, a) - Locks(h, x, a)
  <2>1. tx[o].delta[a].locked \in Int
    BY <1>1, LockedType
  <2>2. \/ a = HoldAccount(x) /\ tx'[o].delta[a].locked = tx[o].delta[a].locked - A
           /\ Locks(k, x, a) - Locks(h, x, a) = - A
        \/ a # HoldAccount(x) /\ tx'[o].delta[a].locked = tx[o].delta[a].locked - 0
           /\ Locks(k, x, a) - Locks(h, x, a) = - 0
    BY <1>3, <1>4
  <2> QED
    BY <1>5, <2>1, <2>2
<1> QED
  BY <1>3, <1>6, <1>7

\* What a fill takes of an order is still open in the row that is seen.
LEMMA FillFits ==
    ASSUME Inv, FillsInv, ShapeInv, NEW o \in Orders,
           create[o].pc \in {"buyer", "seller", "maker", "taker"},
           NEW x, x = o \/ (create[o].pc # "taker" /\ x = NextFill(o).maker),
           OrderCovered(o, x)
    PROVE  /\ x \in Placed /\ OrderSeen(o, x).status \in OpenStatuses
           /\ OrderSeen(o, x).remaining >= NextFill(o).quantity
           /\ NextFill(o).quantity \in Nat \ {0}
<1>1. /\ x \in Placed /\ x \in Orders /\ NextFill(o).quantity \in Nat \ {0}
      /\ OrderSeen(o, x).remaining >= NextFill(o).quantity
  BY RowFits
<1>2. NextFill(o) \in create[o].fills
  BY FirstFill
<1>3. OrderSeen(o, x) \in OrderRow /\ o \in Calls
  BY <1>1, CallTypes
<1>4. OrderSeen(o, x).status # "CANCELLED"
  BY <1>2 DEF OrderCovered, NotCancelled
<1>5. OrderSeen(o, x).status # "FILLED"
  <2>1. Shaped(OrderSeen(o, x))
    BY <1>1, <1>3 DEF ShapeInv, RowsShaped, OrderSeen
  <2> QED
    BY <1>1, <1>3, <2>1 DEF Shaped, OrderRow
<1>6. OrderSeen(o, x).status # "NONE"
  BY <1>1, <1>3 DEF OrderSeen, Placed, FillsInv, WritesOK
<1> QED
  BY <1>1, <1>3, <1>4, <1>5, <1>6 DEF OrderRow, OrderStatuses

\* What is left of a taker is what its row has when all its fills are done.
LEMMA RestFits ==
    ASSUME Inv, FillsInv, ShapeInv, NEW o \in Orders, OrderCovered(o, o),
           create[o].pc = "remainder"
    PROVE  /\ o \in Placed /\ OrderSeen(o, o).status \in OpenStatuses
           /\ OrderSeen(o, o).remaining = create[o].left
           /\ create[o].left \in Nat \ {0}
           /\ create[o].fills = {} /\ create[o].cancelRest
<1>1. /\ create[o].fills = {} /\ create[o].cancelRest /\ create[o].left > 0
      /\ order[o].remaining = create[o].left + VolumeOf(o, Unsettled(o))
  BY DEF OrderCovered, RestKnown, ShapeInv, RestShape
<1>2. Unsettled(o) = tx[o].trades
  BY <1>1 DEF Unsettled
<1>3. /\ OrderSeen(o, o) \in OrderRow /\ order[o] \in OrderRow /\ create[o] \in Handlers
      /\ o \in Calls
  BY CallTypes
<1>4. /\ OrderSeen(o, o).filled \in Int /\ OrderSeen(o, o).remaining \in Int
      /\ order[o].filled \in Int /\ order[o].remaining \in Int /\ create[o].left \in Nat
  BY <1>3 DEF OrderRow, Handlers
<1>5. Follows(o, o) /\ Pend(o, o) = 0
  BY DEF FillsInv, SettlementsOK, Pend
<1>6. VolumeOf(o, tx[o].trades) \in Nat
  BY <1>2, UnsettledType, VolumeType
<1>7. OrderSeen(o, o).remaining = create[o].left
  BY <1>1, <1>2, <1>4, <1>5, <1>6 DEF Follows
<1>8. o \in Placed
  BY DEF FillsInv, RowsOK, SettlingPcs
<1>9. OrderSeen(o, o).status \in OpenStatuses
  <2>1. OrderSeen(o, o).status # "CANCELLED"
    BY <1>1 DEF OrderCovered, NotCancelled
  <2>2. OrderSeen(o, o).status # "FILLED"
    <3>1. Shaped(OrderSeen(o, o))
      BY <1>3 DEF ShapeInv, RowsShaped, OrderSeen
    <3> QED
      BY <1>1, <1>4, <1>7, <3>1 DEF Shaped
  <2>3. OrderSeen(o, o).status # "NONE"
    BY <1>8 DEF OrderSeen, Placed, FillsInv, WritesOK, Calls
  <2> QED
    BY <1>3, <2>1, <2>2, <2>3 DEF OrderRow, OrderStatuses
<1> QED
  BY <1>1, <1>4, <1>7, <1>8, <1>9

\* A block that reads writes no hold and unlocks nothing.
LEMMA BlockHolds ==
    ASSUME Inv, NEW o \in Orders, Block(o),
           create[o].pc \notin {"buyer", "seller", "remainder"}
    PROVE  KeepsLocked(o) /\ \A x \in Orders : HoldSeen(o, x)' = HoldSeen(o, x)
<1>1. Alone(o) /\ Effect(o) /\ Exact(o) /\ hold' = hold
  BY Blocks, ExactBlocks DEF Alone, db
<1>2. tx'[o].hold = tx[o].hold /\ KeepsLocked(o)
  BY <1>1 DEF Effect, Exact, Moves, KeepsHolds
<1> QED
  BY <1>1, <1>2 DEF HoldSeen

\* A block that reduces a hold touches no other.
LEMMA BlockReduces ==
    ASSUME Inv, FillsInv, NEW o \in Orders, Block(o), NEW x, Reduces(o, x)
    PROVE  /\ x \in WorksOn(o) /\ x \in Placed /\ x \in Orders
           /\ GivesUpActive(o, x, reserveAmount(x, IF create[o].pc = "remainder"
                                                   THEN create[o].left
                                                   ELSE NextFill(o).quantity))
           /\ LocksOnly(o, x)
           /\ \A y \in Orders \ {x} : HoldSeen(o, y)' = HoldSeen(o, y)
<1>1. Effect(o) /\ Exact(o) /\ hold' = hold
  BY Blocks, ExactBlocks DEF Alone, db
<1>2. /\ o \in WorksOn(o) /\ o \in Placed
      /\ create[o].pc \in {"buyer", "seller"} => NextFill(o).maker \in WorksOn(o)
  <2>1. create[o].pc \in SettlingPcs
    BY BlockFills
  <2> QED
    BY <2>1, BlockWorks DEF FillsInv, RowsOK
<1>3. CASE create[o].pc = "buyer" /\ x = Buyer(o)
  <2>1. x \in WorksOn(o) /\ x \in Placed
    BY <1>2, <1>3, TwoSides DEF Buyer
  <2>2. /\ GivesUpActive(o, x, reserveAmount(x, NextFill(o).quantity)) /\ LocksOnly(o, x)
    BY <1>1, <1>3 DEF Exact, Moves
  <2>3. \A y \in Orders \ {x} : tx'[o].hold[y] = tx[o].hold[y]
    BY <1>1, <1>3 DEF Effect, Moves, WritesHold
  <2> QED
    BY <1>1, <1>3, <2>1, <2>2, <2>3 DEF HoldSeen, Placed
<1>4. CASE create[o].pc = "seller" /\ x = Seller(o)
  <2>1. x \in WorksOn(o) /\ x \in Placed /\ reserveAmount(x, NextFill(o).quantity) = NextFill(o).quantity
    BY <1>2, <1>4, TwoSides DEF Seller
  <2>2. /\ GivesUpActive(o, x, NextFill(o).quantity) /\ LocksOnly(o, x)
    BY <1>1, <1>4 DEF Exact, Moves
  <2>3. \A y \in Orders \ {x} : tx'[o].hold[y] = tx[o].hold[y]
    BY <1>1, <1>4 DEF Effect, Moves, WritesHold
  <2> QED
    BY <1>1, <1>4, <2>1, <2>2, <2>3 DEF HoldSeen, Placed
<1>5. CASE create[o].pc = "remainder" /\ x = o
  <2>1. /\ GivesUpActive(o, x, reserveAmount(x, create[o].left)) /\ LocksOnly(o, x)
    BY <1>1, <1>5 DEF Exact, Moves
  <2>2. \A y \in Orders \ {x} : tx'[o].hold[y] = tx[o].hold[y]
    BY <1>1, <1>5 DEF Effect, Moves, WritesHold
  <2> QED
    BY <1>1, <1>2, <1>5, <2>1, <2>2 DEF HoldSeen
<1> QED
  BY <1>3, <1>4, <1>5 DEF Reduces

\* A block keeps what is known of the taker's rest and of a cancelled order.
LEMMA BlockRest ==
    ASSUME Inv, FillsInv, ShapeInv, NEW o \in Orders, NEW x \in Orders, OrderCovered(o, x), Block(o)
    PROVE  NotCancelled(o, x)' /\ (x = o => RestKnown(o)')
<1>1. Alone(o) /\ Effect(o) /\ Exact(o) /\ order' = order /\ book' = book
  BY Blocks, ExactBlocks DEF Alone, db, engine
<1>2. Unsettled(o)' = Unsettled(o) /\ create'[o].fills \subseteq create[o].fills
  BY BlockUnsettled, BlockFills
<1>3. NotCancelled(o, x) /\ (x = o => RestKnown(o))
  BY DEF OrderCovered
<1>4. CASE create[o].pc # "remainder"
  <2>1. KeepsRest(o)
    BY <1>1, <1>4 DEF Exact, Moves
  <2>2. x = o => RestKnown(o)'
    <3>1. VolumeOf(o, Unsettled(o))' = VolumeOf(o, Unsettled(o))
      BY <1>2 DEF VolumeOf, Volume, TradesOf, NatSum, Tokens
    <3> QED
      BY <1>1, <1>3, <2>1, <3>1 DEF RestKnown, KeepsRest
  <2>3. ASSUME OrderSeen(o, x)'.status = "CANCELLED" PROVE OrderSeen(o, x).status = "CANCELLED"
    <3>1. Filled(o).status # "CANCELLED"
      BY DEF Filled, Applied
    <3>2. OrderSeen(o, x)' \in {OrderSeen(o, x), Filled(o)}
      BY <1>4, BlockOrders
    <3> QED
      BY <2>3, <3>1, <3>2
  <2>4. NotCancelled(o, x)'
    BY <1>1, <1>2, <1>3, <2>1, <2>3 DEF NotCancelled, KeepsRest
  <2> QED
    BY <2>2, <2>4
<1>5. CASE create[o].pc = "remainder"
  <2>1. create'[o].cancelRest = FALSE /\ create'[o].fills = {}
    BY <1>1, <1>2, <1>5 DEF Exact, Moves, ShapeInv, RestShape
  <2>2. x = o => \A e \in book : e.id # o
    BY <1>3, <1>5 DEF RestKnown, ShapeInv, RestShape
  <2>3. x # o => OrderSeen(o, x)' = OrderSeen(o, x)
    BY <1>5, BlockOrders
  <2>4. NotCancelled(o, x)'
    BY <1>1, <1>3, <2>1, <2>2, <2>3 DEF NotCancelled
  <2> QED
    BY <2>1, <2>4 DEF RestKnown
<1> QED
  BY <1>4, <1>5

\* A block that reduces the hold of x keeps its row covered.
LEMMA BlockReducing ==
    ASSUME Inv, FillsInv, ShapeInv, NEW o \in Orders, Block(o), NEW x \in Orders,
           OrderCovered(o, x), Reduces(o, x)
    PROVE  /\ Covered(x, OrderSeen(o, x)', HoldSeen(o, x)', Reduced(o, x)')
           /\ HoldRead(o, x)'
           /\ \A a \in Accounts :
                 tx'[o].delta[a].locked - tx[o].delta[a].locked
                    = Locks(HoldSeen(o, x)', x, a) - Locks(HoldSeen(o, x), x, a)
<1> DEFINE n == IF create[o].pc = "remainder" THEN create[o].left ELSE NextFill(o).quantity
<1>1. /\ Exact(o) /\ UNCHANGED <<hold, request, price>>
      /\ Covered(x, OrderSeen(o, x), HoldSeen(o, x), Reduced(o, x))
      /\ create[o].seenHold = HoldSeen(o, x)
  BY Blocks, ExactBlocks DEF Alone, db, inputs, OrderCovered, HoldRead
<1>2. x \in Placed /\ GivesUpActive(o, x, reserveAmount(x, n))
  BY BlockReduces
<1>3. /\ OrderSeen(o, x).status \in OpenStatuses /\ OrderSeen(o, x).remaining >= n
      /\ n \in Nat \ {0}
      /\ create[o].pc = "remainder" => OrderSeen(o, x).remaining = n
  <2>1. CASE create[o].pc = "remainder"
    <3>1. x = o
      BY <2>1 DEF Reduces
    <3> QED
      BY <2>1, <3>1, RestFits
  <2>2. CASE create[o].pc # "remainder"
    <3>1. create[o].pc \in {"buyer", "seller"} /\ (x = Buyer(o) \/ x = Seller(o))
      BY <2>2 DEF Reduces
    <3>2. x = o \/ (create[o].pc # "taker" /\ x = NextFill(o).maker)
      BY <3>1, TwoSides
    <3> QED
      BY <2>2, <3>1, <3>2, FillFits
  <2> QED
    BY <2>1, <2>2
<1>4. Reduced(o, x) = 0
  <2>1. CASE create[o].pc = "seller"
    BY <2>1, TwoSides DEF Reduces, Reduced
  <2> QED
    BY <2>1 DEF Reduces, Reduced
<1>5. /\ Covered(x, OrderSeen(o, x), HoldSeen(o, x)', n)
      /\ \A a \in Accounts :
            tx'[o].delta[a].locked - tx[o].delta[a].locked
               = Locks(HoldSeen(o, x)', x, a) - Locks(HoldSeen(o, x), x, a)
  <2> HIDE DEF n
  <2> QED
    BY <1>1, <1>2, <1>3, <1>4, HoldReduced
<1>6. create'[o].fills = create[o].fills =>
         NextFill(o)' = NextFill(o) /\ Buyer(o)' = Buyer(o) /\ Seller(o)' = Seller(o)
  BY <1>1, SidesStay
<1>7. CASE create[o].pc = "buyer"
  <2>1. Moves(o, "buyer", "seller") /\ x = Buyer(o) /\ n = NextFill(o).quantity
    BY <1>1, <1>7 DEF Exact, Moves, Reduces
  <2>2. OrderSeen(o, x)' = OrderSeen(o, x) /\ Buyer(o) # Seller(o)
    BY <1>7, BlockOrders, TwoSides
  <2>3. Reduced(o, x)' = n /\ ~Reduces(o, x)'
    BY <1>6, <2>1, <2>2 DEF Reduced, Reduces, Moves
  <2> QED
    BY <1>5, <2>2, <2>3 DEF HoldRead
<1>8. CASE create[o].pc = "seller"
  <2>1. Moves(o, "seller", "maker") /\ x = Seller(o) /\ n = NextFill(o).quantity
    BY <1>1, <1>8 DEF Exact, Moves, Reduces
  <2>2. OrderSeen(o, x)' = OrderSeen(o, x) /\ x \in {o, NextFill(o).maker}
    BY <1>8, <2>1, BlockOrders, TwoSides
  <2>3. Reduced(o, x)' = n /\ ~Reduces(o, x)'
    BY <1>6, <2>1, <2>2 DEF Reduced, Reduces, Moves
  <2> QED
    BY <1>5, <2>2, <2>3 DEF HoldRead
<1>9. CASE create[o].pc = "remainder"
  <2>1. Moves(o, "remainder", "fill") /\ x = o
    BY <1>1, <1>9 DEF Exact, Moves, Reduces
  <2>2. OrderSeen(o, x)' = [OrderSeen(o, x) EXCEPT !.status = "CANCELLED"]
    BY <1>9, <2>1, BlockOrders
  <2>3. OrderSeen(o, x) \in OrderRow
    BY CallTypes
  <2>4. OrderSeen(o, x)'.status = "CANCELLED"
    BY <2>2, <2>3 DEF OrderRow
  <2>5. HoldSeen(o, x)'.status # "ACTIVE"
    BY <1>3, <1>5, <1>9 DEF Covered
  <2>6. ~Reduces(o, x)'
    BY <2>1 DEF Reduces, Moves
  <2> QED
    BY <1>5, <2>4, <2>5, <2>6 DEF Covered, OpenStatuses, HoldRead
<1> QED
  BY <1>7, <1>8, <1>9 DEF Reduces

\* A block that reduces another hold, or none, leaves that of x as it is.
LEMMA BlockSpares ==
    ASSUME Inv, FillsInv, NEW o \in Orders, Block(o), NEW x \in Orders, ~Reduces(o, x)
    PROVE  HoldSeen(o, x)' = HoldSeen(o, x)
<1>1. CASE create[o].pc \notin {"buyer", "seller", "remainder"}
  BY <1>1, BlockHolds
<1>2. CASE create[o].pc = "buyer"
  <2>1. Reduces(o, Buyer(o)) /\ x # Buyer(o)
    BY <1>2 DEF Reduces
  <2> QED
    BY <2>1, BlockReduces
<1>3. CASE create[o].pc = "seller"
  <2>1. Reduces(o, Seller(o)) /\ x # Seller(o)
    BY <1>3 DEF Reduces
  <2> QED
    BY <2>1, BlockReduces
<1>4. CASE create[o].pc = "remainder"
  <2>1. Reduces(o, o) /\ x # o
    BY <1>4 DEF Reduces
  <2> QED
    BY <2>1, BlockReduces
<1> QED
  BY <1>1, <1>2, <1>3, <1>4

\* A block that does not reduce the hold of x keeps its row covered.
LEMMA BlockSparing ==
    ASSUME Inv, FillsInv, ShapeInv, NEW o \in Orders, Block(o), NEW x \in Orders,
           OrderCovered(o, x), ~Reduces(o, x)
    PROVE  /\ Covered(x, OrderSeen(o, x)', HoldSeen(o, x)', Reduced(o, x)')
           /\ HoldRead(o, x)'
<1>1. /\ Exact(o) /\ UNCHANGED <<hold, request, price>>
      /\ Covered(x, OrderSeen(o, x), HoldSeen(o, x), Reduced(o, x))
  BY Blocks, ExactBlocks DEF Alone, db, inputs, OrderCovered
<1>2. HoldSeen(o, x)' = HoldSeen(o, x)
  BY BlockSpares
<1>3. create'[o].fills = create[o].fills =>
         NextFill(o)' = NextFill(o) /\ Buyer(o)' = Buyer(o) /\ Seller(o)' = Seller(o)
  BY <1>1, SidesStay
<1>4. CASE create[o].pc = "fill"
  <2>1. OrderSeen(o, x)' = OrderSeen(o, x)
    BY <1>4, BlockOrders
  <2>2. Reduced(o, x) = 0 /\ Reduced(o, x)' = 0
    BY <1>1, <1>4 DEF Reduced, Exact, Moves
  <2>3. HoldRead(o, x)'
    BY <1>1, <1>2, <1>3, <1>4 DEF HoldRead, Reduces, Exact, Moves
  <2> QED
    BY <1>1, <1>2, <2>1, <2>2, <2>3
<1>5. CASE create[o].pc = "buyer"
  <2>1. OrderSeen(o, x)' = OrderSeen(o, x) /\ x # Buyer(o)
    BY <1>5, BlockOrders DEF Reduces
  <2>2. /\ Moves(o, "buyer", "seller") /\ create'[o].seenHold = HoldSeen(o, Seller(o))
        /\ Buyer(o)' = Buyer(o) /\ Seller(o)' = Seller(o)
    BY <1>1, <1>3, <1>5 DEF Exact, Moves
  <2>3. Reduced(o, x) = 0 /\ Reduced(o, x)' = 0
    BY <1>5, <2>1, <2>2 DEF Reduced, Moves
  <2>4. HoldRead(o, x)'
    BY <1>2, <2>2 DEF HoldRead, Reduces, Moves
  <2> QED
    BY <1>1, <1>2, <2>1, <2>3, <2>4
<1>6. CASE create[o].pc = "seller"
  <2>1. OrderSeen(o, x)' = OrderSeen(o, x) /\ x # Seller(o)
    BY <1>6, BlockOrders DEF Reduces
  <2>2. Moves(o, "seller", "maker") /\ NextFill(o)' = NextFill(o)
    BY <1>1, <1>3, <1>6 DEF Exact, Moves
  <2>3. x \in {o, NextFill(o).maker} <=> x = Buyer(o)
    BY <1>6, <2>1, TwoSides
  <2>4. Reduced(o, x)' = Reduced(o, x)
    BY <1>6, <2>2, <2>3 DEF Reduced, Moves
  <2>5. ~Reduces(o, x)'
    BY <2>2 DEF Reduces, Moves
  <2> QED
    BY <1>1, <1>2, <2>1, <2>4, <2>5 DEF HoldRead
<1>7. CASE create[o].pc \in {"maker", "taker"}
  <2> DEFINE z == IF create[o].pc = "maker" THEN NextFill(o).maker ELSE o
  <2>1. OrderSeen(o, x)' = IF x = z THEN Filled(o) ELSE OrderSeen(o, x)
    BY <1>7, BlockOrders
  <2>2. Reduced(o, x) = IF x = z \/ x = o THEN NextFill(o).quantity ELSE 0
    BY <1>7 DEF Reduced
  <2>3. Reduced(o, x)' = IF x # z /\ x = o THEN NextFill(o).quantity ELSE 0
    <3>1. CASE create[o].pc = "maker"
      <4>1. create'[o].pc = "taker" /\ NextFill(o)' = NextFill(o)
        BY <1>1, <1>3, <3>1 DEF Exact, Moves
      <4>2. NextFill(o).maker # o
        BY <3>1, FirstFill
      <4> QED
        BY <3>1, <4>1, <4>2 DEF Reduced
    <3>2. CASE create[o].pc = "taker"
      <4>1. create'[o].pc = "fill"
        BY <1>1, <3>2 DEF Exact, Moves
      <4> QED
        BY <3>2, <4>1 DEF Reduced
    <3> QED
      BY <1>7, <3>1, <3>2
  <2>4. ~Reduces(o, x)'
    BY <1>1, <1>7 DEF Reduces, Exact, Moves
  <2>5. CASE x = z
    <3>1. x = o \/ (create[o].pc # "taker" /\ x = NextFill(o).maker)
      BY <1>7, <2>5
    <3>2. Agrees(o, x)
      BY <1>7, <2>5 DEF FillsInv, SettlementsOK, SeenOK
    <3> HIDE DEF z
    <3>3. /\ OrderSeen(o, x).status \in OpenStatuses
          /\ OrderSeen(o, x).remaining >= NextFill(o).quantity
          /\ NextFill(o).quantity \in Nat
      BY <1>7, <3>1, FillFits
    <3>4. PICK row, seen, n : /\ row = OrderSeen(o, x) /\ seen = create[o].seenOrder
                              /\ n = NextFill(o).quantity
      OBVIOUS
    <3>5. /\ row \in OrderRow /\ seen \in OrderRow /\ n \in Nat
          /\ row.remaining = seen.remaining /\ row.status \in OpenStatuses
          /\ row.remaining >= n /\ Covered(x, row, HoldSeen(o, x), n)
      BY <1>1, <2>2, <2>5, <3>2, <3>3, <3>4, CallTypes DEF Agrees
    <3>6. Covered(x, Applied(seen, n), HoldSeen(o, x), 0)
      BY <3>5, CoveredApplied
    <3>7. Covered(x, Filled(o), HoldSeen(o, x), 0)
      BY <3>4, <3>6 DEF Filled
    <3>8. OrderSeen(o, x)' = Filled(o) /\ Reduced(o, x)' = 0
      BY <2>1, <2>3, <2>5
    <3> QED
      BY <1>2, <2>4, <3>7, <3>8 DEF HoldRead
  <2>6. CASE x # z
    <3>1. OrderSeen(o, x)' = OrderSeen(o, x) /\ Reduced(o, x)' = Reduced(o, x)
      BY <2>1, <2>2, <2>3, <2>6
    <3> QED
      BY <1>1, <1>2, <2>4, <3>1 DEF HoldRead
  <2> QED
    BY <2>5, <2>6
<1>8. CASE create[o].pc = "remainder"
  <2>1. x # o
    BY <1>8 DEF Reduces
  <2>2. OrderSeen(o, x)' = OrderSeen(o, x)
    BY <1>8, <2>1, BlockOrders
  <2>3. create'[o].pc = "fill"
    BY <1>1, <1>8 DEF Exact, Moves
  <2>4. Reduced(o, x) = 0 /\ Reduced(o, x)' = 0 /\ ~Reduces(o, x)'
    BY <1>8, <2>3 DEF Reduced, Reduces
  <2> QED
    BY <1>1, <1>2, <2>2, <2>4 DEF HoldRead
<1> QED
  BY <1>1, <1>4, <1>5, <1>6, <1>7, <1>8 DEF Exact, Moves

\* A block keeps every row covered that it sees covered.
LEMMA BlockCovers ==
    ASSUME Inv, FillsInv, ShapeInv, NEW o \in Orders, Block(o), NEW x \in Orders,
           OrderCovered(o, x)
    PROVE  OrderCovered(o, x)'
<1>1. /\ Covered(x, OrderSeen(o, x)', HoldSeen(o, x)', Reduced(o, x)')
      /\ HoldRead(o, x)'
  BY BlockReducing, BlockSparing
<1>2. NotCancelled(o, x)' /\ (x = o => RestKnown(o)')
  BY BlockRest
<1>3. Covered(x, OrderSeen(o, x), HoldSeen(o, x), Reduced(o, x))'
  BY <1>1, CoveredStays, Blocks DEF Alone, inputs
<1> QED
  BY <1>1, <1>2, <1>3 DEF OrderCovered

\* What a call sees of the holds, before a step and after it.
LEMMA SeenChange ==
    ASSUME Inv, Inv', request' = request, NEW p \in Calls, NEW a \in Accounts
    PROVE  \E h, k \in [Orders -> HoldRow] :
              /\ \A x \in Orders : h[x] = HoldSeen(p, x) /\ k[x] = HoldSeen(p, x)'
              /\ Held(HoldsSeen(p), a) = Held(h, a) /\ Held(HoldsSeen(p), a)' = Held(k, a)
              /\ Held(h, a) \in Nat /\ Held(k, a) \in Nat
              /\ hold \in [Orders -> HoldRow] /\ hold' \in [Orders -> HoldRow]
              /\ Held(hold, a) \in Nat /\ Held(hold, a)' \in Nat
              /\ Held(hold, a)' = Held(hold', a)
              /\ tx[p].delta[a].locked \in Int /\ tx'[p].delta[a].locked \in Int
<1>1. /\ hold \in [Orders -> HoldRow] /\ hold' \in [Orders -> HoldRow]
      /\ tx[p] \in Tx /\ tx'[p] \in Tx
  BY DEF Inv, TypeInv, TypeOK
<1>2. PICK h, k : h = HoldsSeen(p) /\ k = HoldsSeen(p)'
  OBVIOUS
<1>3. /\ h \in [Orders -> HoldRow] /\ k \in [Orders -> HoldRow]
      /\ \A x \in Orders : h[x] = HoldSeen(p, x) /\ k[x] = HoldSeen(p, x)'
  <2>1. \A x \in Orders : HoldSeen(p, x) \in HoldRow /\ HoldSeen(p, x)' \in HoldRow
    BY <1>1 DEF HoldSeen, Tx
  <2> QED
    BY <1>2, <2>1 DEF HoldsSeen
<1>4. Held(HoldsSeen(p), a)' = Held(k, a) /\ Held(hold, a)' = Held(hold', a)
  BY <1>2 DEF Held, HoldAccount
<1>5. Held(h, a) \in Nat /\ Held(k, a) \in Nat /\ Held(hold, a) \in Nat /\ Held(hold', a) \in Nat
  BY <1>1, <1>3, HeldType
<1>6. tx[p].delta[a].locked \in Int /\ tx'[p].delta[a].locked \in Int
  BY <1>1 DEF Tx, Balance
<1> QED
  BY <1>1, <1>2, <1>3, <1>4, <1>5, <1>6

\* What a block unlocks is what its holds give up, on an account all of whose
\* orders that it works on are covered.
LEMMA BlockLocks ==
    ASSUME Inv, Inv', FillsInv, ShapeInv, NEW o \in Orders, Block(o), NEW a \in Accounts,
           \A x \in WorksOn(o) : HoldAccount(x) = a => OrderCovered(o, x), LockedBy(o, a)
    PROVE  LockedBy(o, a)'
<1>1. hold' = hold /\ request' = request /\ o \in Calls
  BY Blocks DEF Alone, db, inputs, Calls
<1>2. PICK h, k \in [Orders -> HoldRow] :
              /\ \A x \in Orders : h[x] = HoldSeen(o, x) /\ k[x] = HoldSeen(o, x)'
              /\ Held(HoldsSeen(o), a) = Held(h, a) /\ Held(HoldsSeen(o), a)' = Held(k, a)
              /\ Held(h, a) \in Nat /\ Held(k, a) \in Nat
              /\ Held(hold, a) \in Nat /\ Held(hold, a)' = Held(hold', a)
              /\ tx[o].delta[a].locked \in Int /\ tx'[o].delta[a].locked \in Int
  BY <1>1, SeenChange
<1>3. Held(k, a) - Held(h, a) = tx'[o].delta[a].locked - tx[o].delta[a].locked
  <2>1. CASE \A x \in Orders : ~Reduces(o, x)
    <3>1. create[o].pc \notin {"buyer", "seller", "remainder"}
      <4>1. create[o].pc \in {"buyer", "seller"} => Buyer(o) \in Orders /\ Seller(o) \in Orders
        BY TwoSides DEF Placed
      <4> QED
        BY <2>1, <4>1 DEF Reduces
    <3>2. KeepsLocked(o) /\ \A x \in Orders : k[x] = h[x]
      BY <1>2, <3>1, BlockHolds
    <3>3. k = h
      BY <1>2, <3>2
    <3> QED
      BY <1>2, <3>2, <3>3 DEF KeepsLocked
  <2>2. ASSUME NEW x \in Orders, Reduces(o, x)
        PROVE  Held(k, a) - Held(h, a) = tx'[o].delta[a].locked - tx[o].delta[a].locked
    <3>1. /\ x \in WorksOn(o) /\ LocksOnly(o, x)
          /\ \A y \in Orders \ {x} : k[y] = h[y]
      BY <1>2, <2>2, BlockReduces
    <3>2. Held(k, a) - Held(h, a) = Locks(k[x], x, a) - Locks(h[x], x, a)
      BY <1>2, <3>1, HeldChange
    <3>3. CASE HoldAccount(x) = a
      <4>1. OrderCovered(o, x)
        BY <3>1, <3>3
      <4>2. tx'[o].delta[a].locked - tx[o].delta[a].locked
               = Locks(HoldSeen(o, x)', x, a) - Locks(HoldSeen(o, x), x, a)
        BY <2>2, <4>1, BlockReducing
      <4> QED
        BY <1>2, <3>2, <4>2
    <3>4. CASE HoldAccount(x) # a
      <4>1. Locks(k[x], x, a) = 0 /\ Locks(h[x], x, a) = 0
        BY <3>4 DEF Locks
      <4>2. tx'[o].delta[a].locked = tx[o].delta[a].locked
        BY <3>1, <3>4 DEF LocksOnly
      <4> QED
        BY <1>2, <3>2, <4>1, <4>2
    <3> QED
      BY <3>3, <3>4
  <2> QED
    BY <2>1, <2>2
<1> QED
  BY <1>1, <1>2, <1>3 DEF LockedBy
-----------------------------------------------------------------------------
(* Every step keeps what no two calls work on covered *)

\* At most one call works on the order.
Single(x) == \A p, q \in Calls : x \in WorksOn(p) \cap WorksOn(q) => p = q

AllCovered(x) == RowCovered(x) /\ \A p \in Calls : x \in WorksOn(p) => CallCovered(p, x)

\* What is committed of x stays, and it gets no new place on the book.
RowKept(x) ==
    /\ order'[x] = order[x] /\ hold'[x] = hold[x]
    /\ price'[x] = price[x] \/ order[x].status \notin OpenStatuses
    /\ \A e \in book' : e.id = x => \E d \in book : d.id = x

\* The price of x stays, or no call sees x open.
PriceKept(x) ==
    price'[x] = price[x] \/ \A q \in Calls : OrderSeen(q, x).status \notin OpenStatuses

\* A row that is kept stays covered.
LEMMA RowStays ==
    ASSUME NEW x \in Orders, RowCovered(x), RowKept(x), request' = request,
           create'[x].pc = "placed" => create[x].pc = "placed"
    PROVE  RowCovered(x)'
<1>1. Covered(x, order[x], hold[x], 0)'
  BY DEF RowCovered, RowKept, Covered, reserveAmount
<1> QED
  BY <1>1 DEF RowCovered, RowKept

\* What another call has made of an order stays covered.
LEMMA OthersCovered ==
    ASSUME Inv, NEW p \in Calls, OthersStay(p), NEW q \in Calls \ {p}, NEW x \in Orders,
           RowKept(x), PriceKept(x), x \in WorksOn(q), CallCovered(q, x)
    PROVE  CallCovered(q, x)'
<1>1. /\ tx'[q] = tx[q] /\ request' = request /\ target' = target
      /\ q \in Orders => create'[q] = create[q]
      /\ q \in CancelCalls => cancel'[q] = cancel[q]
      /\ Orders \cap CancelCalls = {}
  BY ExchangeAssumption DEF OthersStay
<1>2. OrderSeen(q, x)' = OrderSeen(q, x) /\ HoldSeen(q, x)' = HoldSeen(q, x)
  BY <1>1 DEF OrderSeen, HoldSeen, RowKept
<1>3. CASE q \in Orders /\ create[q].pc \in SettlingPcs
  <2>1. OrderCovered(q, x) /\ create'[q] = create[q]
    BY <1>1, <1>3 DEF CallCovered
  <2>2. /\ NextFill(q)' = NextFill(q) /\ Buyer(q)' = Buyer(q) /\ Seller(q)' = Seller(q)
    BY <1>1, <2>1, SidesStay
  <2>3. Reduced(q, x)' = Reduced(q, x) /\ Reduces(q, x)' = Reduces(q, x)
    BY <2>1, <2>2 DEF Reduced, Reduces
  <2>4. Covered(x, OrderSeen(q, x), HoldSeen(q, x), Reduced(q, x))'
    BY <1>1, <1>2, <2>1, <2>3 DEF OrderCovered, Covered, reserveAmount, PriceKept
  <2>5. HoldRead(q, x)' /\ NotCancelled(q, x)'
    BY <1>2, <2>1, <2>3 DEF OrderCovered, HoldRead, NotCancelled, RowKept
  <2>6. x = q => RestKnown(q)'
    <3>1. Unsettled(q)' = Unsettled(q)
      BY <1>3, OthersWork
    <3>2. VolumeOf(q, Unsettled(q))' = VolumeOf(q, Unsettled(q))
      BY <3>1 DEF VolumeOf, Volume, TradesOf, NatSum, Tokens
    <3> QED
      BY <2>1, <3>2 DEF OrderCovered, RestKnown, RowKept
  <2> QED
    BY <1>1, <1>3, <2>1, <2>4, <2>5, <2>6 DEF CallCovered, OrderCovered
<1>4. CASE q \in CancelCalls /\ cancel[q].pc \in {"marked", "released"}
  <2>1. CancelCovered(q) /\ cancel'[q] = cancel[q] /\ q \notin Orders
    BY <1>1, <1>4 DEF CallCovered
  <2>2. x = target[q]
    BY <2>1 DEF WorksOn
  <2>3. CancelCovered(q)'
    BY <1>1, <1>2, <2>1, <2>2 DEF CancelCovered, RowKept
  <2> QED
    BY <2>1, <2>3 DEF CallCovered
<1>5. CASE /\ ~(q \in Orders /\ create[q].pc \in SettlingPcs)
           /\ ~(q \in CancelCalls /\ cancel[q].pc \in {"marked", "released"})
  BY <1>1, <1>5 DEF CallCovered
<1> QED
  BY <1>3, <1>4, <1>5

\* A step of p keeps x covered if it keeps the row of x, and what p makes of it
\* is covered too.
LEMMA ActKeeps ==
    ASSUME Inv, NEW p \in Calls, OthersStay(p), NEW x \in Orders, AllCovered(x),
           RowKept(x), PriceKept(x),
           p = x => (create'[x].pc = "placed" => create[x].pc = "placed"),
           x \in WorksOn(p)' => CallCovered(p, x)'
    PROVE  AllCovered(x)'
<1>1. RowCovered(x)'
  <2>1. create'[x].pc = "placed" => create[x].pc = "placed"
    BY DEF OthersStay
  <2> QED
    BY <2>1, RowStays DEF AllCovered, OthersStay
<1>2. ASSUME NEW q \in Calls \ {p}, x \in WorksOn(q)' PROVE CallCovered(q, x)'
  <2>1. x \in WorksOn(q)
    BY <1>2, OthersWork
  <2> QED
    BY <2>1, OthersCovered DEF AllCovered
<1>3. Calls' = Calls
  BY DEF Calls
<1> QED
  BY <1>1, <1>2, <1>3 DEF AllCovered

\* A block keeps what it works on covered.
LEMMA BlockAll ==
    ASSUME Inv, FillsInv, ShapeInv, NEW o \in Orders, Block(o), OthersStay(o),
           NEW x \in Orders, AllCovered(x)
    PROVE  AllCovered(x)'
<1>1. Alone(o) /\ create[o].pc \in SettlingPcs /\ create'[o].pc \in SettlingPcs
  BY Blocks, BlockFills
<1>2. UNCHANGED <<order, hold, price, book>> /\ o \in Calls /\ o \notin CancelCalls
  BY <1>1, CallTypes DEF Alone, db, inputs, engine
<1>3. RowKept(x)
  BY <1>2 DEF RowKept
<1>4. x \in WorksOn(o)' => CallCovered(o, x)'
  <2>1. ASSUME x \in WorksOn(o) PROVE OrderCovered(o, x)'
    <3>1. OrderCovered(o, x)
      BY <1>1, <1>2, <2>1 DEF AllCovered, CallCovered
    <3> QED
      BY <3>1, BlockCovers
  <2> QED
    BY <1>1, <1>2, <2>1, BlockWorks DEF CallCovered
<1> QED
  BY <1>1, <1>2, <1>3, <1>4, ActKeeps DEF SettlingPcs, PriceKept

\* A submit covers what it matches: nothing of it is written yet.
LEMMA SubmitAll ==
    ASSUME Inv, FillsInv, ShapeInv, NEW o \in Orders, SubmitOrder(o), OthersStay(o),
           NEW x \in Orders, AllCovered(x), Single(x)
    PROVE  AllCovered(x)'
<1>1. /\ create[o].pc = "placed" /\ create'[o].pc \in {"done", "fill"}
      /\ create'[o].fills = Fills(book, TakerOf(o))
      /\ UNCHANGED <<order, hold, request, price, cancel, tx>> /\ tx[o] = NoTx
  BY SubmitEffect DEF SubmitOrder, db
<1>2. /\ o \in Calls /\ o \notin CancelCalls /\ InFlight(o) /\ o \in WorksOn(o)
  BY <1>1, ExchangeAssumption DEF Calls, InFlight, CreateEnds, WorksOn
<1>3. \A e \in book' : e.id = o \/ \E d \in book : d.id = e.id
  BY SubmitBook
<1>4. x = o => order[o].status = "OPEN"
  BY <1>1 DEF AllCovered, RowCovered
<1>5. RowCovered(x)'
  <2>1. Covered(x, order[x], hold[x], 0)'
    BY <1>1 DEF AllCovered, RowCovered, Covered, reserveAmount
  <2>2. \A e \in book' : e.id = x => order[x].status # "CANCELLED"
    BY <1>3, <1>4 DEF AllCovered, RowCovered
  <2>3. create'[x].pc = "placed" => create[x].pc = "placed"
    BY <1>1 DEF OthersStay
  <2> QED
    BY <1>1, <2>1, <2>2, <2>3 DEF AllCovered, RowCovered
<1>6. ASSUME create'[o].pc = "fill" PROVE OrderCovered(o, x)'
  <2>1. OrderSeen(o, x)' = order[x] /\ HoldSeen(o, x)' = hold[x]
    BY <1>1, NoTxFields DEF OrderSeen, HoldSeen
  <2>2. Reduced(o, x)' = 0 /\ ~Reduces(o, x)'
    BY <1>6 DEF Reduced, Reduces
  <2>3. Covered(x, OrderSeen(o, x), HoldSeen(o, x), Reduced(o, x))'
    BY <1>1, <2>1, <2>2 DEF AllCovered, RowCovered, Covered, reserveAmount
  <2>4. RestKnown(o)'
    BY SubmitLeaves DEF ShapeInv
  <2>5. NotCancelled(o, x)'
    <3>1. ASSUME order[x].status = "CANCELLED"
          PROVE  /\ \A e \in book' : e.id # x
                 /\ \A f \in create'[o].fills : x # o /\ x # f.maker
                 /\ x # o
      <4>1. \A f \in create'[o].fills : \E e \in book : f.maker = e.id
        BY <1>1, SubmitFills
      <4> QED
        BY <1>1, <1>3, <1>4, <3>1, <4>1 DEF AllCovered, RowCovered
    <3> QED
      BY <2>1, <3>1 DEF NotCancelled
  <2> QED
    BY <2>2, <2>3, <2>4, <2>5 DEF OrderCovered, HoldRead
<1>7. CallCovered(o, x)'
  BY <1>1, <1>2, <1>6 DEF CallCovered, SettlingPcs
<1>8. ASSUME NEW q \in Calls \ {o}, x \in WorksOn(q)', x # o PROVE CallCovered(q, x)'
  <2>1. x \in WorksOn(q) /\ RowKept(x)
    BY <1>1, <1>3, <1>8, OthersWork DEF RowKept
  <2> QED
    BY <1>1, <1>2, <1>8, <2>1, OthersCovered DEF AllCovered, PriceKept
<1>9. ASSUME NEW q \in Calls \ {o}, x \in WorksOn(q)', x = o PROVE CallCovered(q, x)'
  BY <1>2, <1>9, OthersWork DEF Single
<1> QED
  BY <1>5, <1>7, <1>8, <1>9 DEF AllCovered

\* A commit keeps what its call has made of an order, and the other rows.
LEMMA CommitAll ==
    ASSUME Inv, NEW p \in Calls, Commit(p), OthersStay(p), UNCHANGED <<book, price>>,
           p \in Orders => create'[p].pc # "placed", ~InFlight(p)',
           NEW x \in Orders, AllCovered(x), Single(x), Wrote(p, x) => x \in WorksOn(p),
           x \in WorksOn(p) =>
              /\ Covered(x, OrderSeen(p, x), HoldSeen(p, x), 0)
              /\ OrderSeen(p, x).status = "CANCELLED" => \A e \in book : e.id # x
              /\ create'[x].pc # "placed"
    PROVE  AllCovered(x)'
<1>1. /\ order'[x] = OrderSeen(p, x) /\ hold'[x] = HoldSeen(p, x) /\ request' = request
      /\ WorksOn(p)' = {}
  BY DEF Commit, OthersStay, WorksOn
<1>2. CASE x \in WorksOn(p)
  <2>1. Covered(x, order[x], hold[x], 0)'
    BY <1>1, <1>2 DEF Covered, reserveAmount
  <2>2. RowCovered(x)'
    BY <1>1, <1>2, <2>1 DEF RowCovered
  <2>3. \A q \in Calls : x \notin WorksOn(q)'
    BY <1>1, <1>2, OthersWork DEF Single
  <2> QED
    BY <2>2, <2>3 DEF AllCovered
<1>3. CASE x \notin WorksOn(p)
  <2>1. order'[x] = order[x] /\ hold'[x] = hold[x]
    BY <1>1, <1>3 DEF Wrote, OrderSeen, HoldSeen
  <2> QED
    BY <1>1, <2>1, ActKeeps DEF RowKept, PriceKept
<1> QED
  BY <1>2, <1>3

\* What a settlement commits is covered, when it has nothing left to do.
LEMMA CommitSettlementAll ==
    ASSUME Inv, FillsInv, ShapeInv, NEW o \in Orders, CommitSettlement(o), OthersStay(o),
           NEW x \in Orders, AllCovered(x), Single(x)
    PROVE  AllCovered(x)'
<1>1. /\ create[o].pc = "fill" /\ create[o].fills = {} /\ ~create[o].cancelRest /\ Commit(o)
      /\ UNCHANGED <<book, price>> /\ create'[o].pc = "done"
  BY DEF CommitSettlement, engine, inputs, Handler, Inv, TypeInv, TypeOK
<1>2. /\ o \in Calls /\ ~InFlight(o)'
      /\ Wrote(o, x) => x \in WorksOn(o)
  BY <1>1 DEF Calls, InFlight, CreateEnds, ShapeInv, WritesLocal
<1>3. ASSUME x \in WorksOn(o)
      PROVE  /\ Covered(x, OrderSeen(o, x), HoldSeen(o, x), 0)
             /\ OrderSeen(o, x).status = "CANCELLED" => \A e \in book : e.id # x
             /\ create'[x].pc # "placed"
  <2>1. OrderCovered(o, x) /\ Reduced(o, x) = 0
    BY <1>1, <1>3 DEF AllCovered, CallCovered, SettlingPcs, Reduced, Calls
  <2>2. create'[x].pc # "placed"
    <3>1. CASE x # o
      <4>1. x \in WorksOn(x) => x = o
        BY <1>3 DEF Single, Calls
      <4>2. create[x].pc # "placed"
        BY <3>1, <4>1 DEF WorksOn, InFlight, CreateEnds
      <4> QED
        BY <3>1, <4>2 DEF OthersStay
    <3> QED
      BY <1>1, <3>1
  <2> QED
    BY <2>1, <2>2 DEF OrderCovered, NotCancelled
<1> QED
  BY <1>1, <1>2, <1>3, CommitAll DEF Calls

\* An order is placed with what it needs reserved.
LEMMA PlaceAll ==
    ASSUME Inv, FreshInv, FillsInv, ShapeInv, NEW o \in Orders, PlaceOrder(o), OthersStay(o),
           NEW x \in Orders, AllCovered(x), Single(x)
    PROVE  AllCovered(x)'
<1>1. /\ create[o].pc = "placing" /\ create'[o].pc \notin SettlingPcs
      /\ UNCHANGED <<book, price>> /\ o \in Calls /\ o \notin CancelCalls /\ o \in WorksOn(o)
  <2>1. o \in WorksOn(o)
    BY DEF PlaceOrder, WorksOn, InFlight, CreateEnds
  <2> QED
    BY <2>1, ExchangeAssumption, PlacedRow
       DEF PlaceOrder, engine, SettlingPcs, Calls
<1>2. CallCovered(o, x)'
  BY <1>1 DEF CallCovered
<1>3. CASE x # o
  <2>1. RowKept(x)
    BY <1>1, <1>3, PlacedRow DEF RowKept
  <2> QED
    BY <1>1, <1>2, <1>3, <2>1, ActKeeps DEF PriceKept
<1>4. CASE x = o /\ UNCHANGED <<account, order, hold>> /\ create'[o].pc = "rejected"
  <2>1. RowKept(x)
    BY <1>1, <1>4 DEF RowKept
  <2> QED
    BY <1>1, <1>2, <1>4, <2>1, ActKeeps DEF PriceKept
<1>5. CASE /\ x = o /\ create'[o].pc = "placed"
           /\ order'[o] = [status |-> "OPEN", filled |-> 0,
                           remaining |-> request[o].quantity,
                           created |-> Cardinality(Placed) + 1]
           /\ hold'[o] = [status |-> "ACTIVE",
                          amount |-> reserveAmount(o, request[o].quantity)]
  <2>1. \A e \in book : e.id # o
    BY <1>1 DEF FreshInv, Fresh, NoRow, NoUse
  <2>2. request' = request /\ request[o].quantity \in Nat \ {0}
    BY RequestType DEF Inv, TypeInv, OthersStay
  <2>3. Covered(o, order[o], hold[o], 0)'
    <3>1. /\ order'[o].status = "OPEN" /\ order'[o].remaining = request[o].quantity
          /\ order'[o].remaining - 0 = request[o].quantity /\ order'[o].remaining > 0
      BY <1>5, <2>2
    <3>2. hold'[o] = [status |-> "ACTIVE", amount |-> reserveAmount(o, order[o].remaining - 0)']
      BY <1>1, <1>5, <2>2, <3>1 DEF reserveAmount
    <3> QED
      BY <3>1, <3>2 DEF Covered, OpenStatuses
  <2>4. RowCovered(x)'
    BY <1>1, <1>5, <2>1, <2>3 DEF RowCovered
  <2>5. ASSUME NEW q \in Calls, x \in WorksOn(q)' PROVE CallCovered(q, x)'
    <3>1. q = o
      BY <1>1, <1>5, <2>5, OthersWork DEF Single
    <3> QED
      BY <1>2, <3>1
  <2> QED
    BY <2>4, <2>5 DEF AllCovered
<1> QED
  BY <1>3, <1>4, <1>5, PlacedRow

\* A call that starts has not touched anything.
LEMMA ReceiveOrderAll ==
    ASSUME Inv, FreshInv, NEW o \in Orders, ReceiveOrder(o), OthersStay(o),
           NEW x \in Orders, AllCovered(x)
    PROVE  AllCovered(x)'
<1>1. /\ create[o].pc = "new" /\ create'[o].pc \in {"rejected", "placing"}
      /\ UNCHANGED <<order, hold, book>> /\ o \in Calls /\ o \notin CancelCalls
      /\ \A y \in Orders \ {o} : price'[y] = price[y]
  BY ExchangeAssumption DEF ReceiveOrder, db, engine, Handler, Calls, Inv, TypeInv, TypeOK
<1>2. RowKept(x) /\ PriceKept(x)
  <2>1. CASE x # o
    BY <1>1, <2>1 DEF RowKept, PriceKept
  <2>2. CASE x = o
    <3>1. order[x] = NoOrder /\ \A q \in Calls : OrderSeen(q, x) = NoOrder
      BY <1>1, <2>2 DEF FreshInv, Fresh, NoRow, OrderSeen
    <3> QED
      BY <1>1, <3>1 DEF RowKept, PriceKept, NoOrder, OpenStatuses
  <2> QED
    BY <2>1, <2>2
<1>3. CallCovered(o, x)'
  BY <1>1 DEF CallCovered, SettlingPcs
<1> QED
  BY <1>1, <1>2, <1>3, ActKeeps

LEMMA ReceiveCancelAll ==
    ASSUME Inv, NEW c \in CancelCalls, ReceiveCancel(c), OthersStay(c),
           NEW x \in Orders, AllCovered(x)
    PROVE  AllCovered(x)'
<1>1. /\ cancel'[c].pc \in {"refused", "checked"} /\ c \in Calls /\ c \notin Orders
      /\ UNCHANGED <<order, hold, book, price>>
  BY ExchangeAssumption DEF ReceiveCancel, db, engine, Canceller, Calls, Inv, TypeInv, TypeOK
<1>2. RowKept(x) /\ PriceKept(x) /\ CallCovered(c, x)'
  BY <1>1 DEF RowKept, PriceKept, CallCovered
<1> QED
  BY <1>1, <1>2, ActKeeps

\* A cancellation writes the row of its order first.
LEMMA MarkAll ==
    ASSUME Inv, NEW c \in CancelCalls, MarkCancelled(c), OthersStay(c),
           NEW x \in Orders, AllCovered(x)
    PROVE  AllCovered(x)'
<1> DEFINE y == target[c]
<1>1. /\ cancel[c].pc = "checked" /\ cancel'[c].pc = "marked" /\ c \in Calls /\ c \notin Orders
      /\ UNCHANGED <<order, hold, price, book, target>> /\ y \in Orders
  BY ExchangeAssumption
     DEF MarkCancelled, db, engine, inputs, Calls, Inv, TypeInv, TypeOK
<1>2. OrderSeen(c, y)'.status = "CANCELLED"
  <2>1. tx[c] \in Tx /\ tx \in [Calls -> Tx] /\ order[y] \in OrderRow
    BY <1>1 DEF Inv, TypeInv, TypeOK
  <2>2. tx'[c].order = [tx[c].order EXCEPT ![y] = [order[y] EXCEPT !.status = "CANCELLED"]]
    BY <1>1, <2>1 DEF MarkCancelled, Tx
  <2>3. tx'[c].order[y].status = "CANCELLED"
    BY <1>1, <2>1, <2>2 DEF Tx, OrderRow
  <2> QED
    BY <1>1, <2>3 DEF OrderSeen, NoOrder
<1>3. RowKept(x) /\ PriceKept(x) /\ CallCovered(c, x)'
  BY <1>1, <1>2 DEF RowKept, PriceKept, CallCovered, CancelCovered
<1> QED
  BY <1>1, <1>3, ActKeeps

\* What releaseHold makes of the transaction.
LEMMA ReleaseEffect ==
    ASSUME Inv, GuardInv, NEW c \in CancelCalls, ReleaseHold(c)
    PROVE  LET x == target[c] IN
           /\ x \in Orders /\ c \in Calls /\ c \notin Orders
           /\ cancel[c].pc = "marked" /\ cancel'[c].pc = "released"
           /\ UNCHANGED <<account, order, hold, request, price, target>>
           /\ book' = {e \in book : e.id # x}
           /\ tx'[c].order = tx[c].order
           /\ \A y \in Orders \ {x} : tx'[c].hold[y] = NoHold
           /\ HoldSeen(c, x)'.status # "ACTIVE"
           /\ \A a \in Accounts : tx'[c].delta[a].locked
                 = IF hold[x].status = "ACTIVE" /\ a = HoldAccount(x) THEN -hold[x].amount ELSE 0
<1> DEFINE x == target[c]
<1>1. /\ cancel[c].pc = "marked" /\ cancel'[c].pc = "released"
      /\ UNCHANGED <<account, order, hold, request, price, target>>
      /\ book' = {e \in book : e.id # x} /\ c \in Calls /\ c \notin Orders /\ x \in Orders
  BY ExchangeAssumption DEF ReleaseHold, db, inputs, Canceller, Calls, Inv, TypeInv, TypeOK
<1>4. /\ \A y \in Orders : tx[c].hold[y] = NoHold
      /\ cancel[c].seenHold = hold[x]
      /\ \A a \in Accounts : tx[c].delta[a] = ZeroBalance
  BY <1>1 DEF GuardInv, CancelsGuarded, Inv, IdleInv
<1>5. /\ tx[c] \in Tx /\ tx \in [Calls -> Tx] /\ hold \in [Orders -> HoldRow]
      /\ HoldAccount(x) \in Accounts
  BY <1>1, ReserveType DEF Inv, TypeInv, TypeOK
<1>6. /\ tx'[c].order = tx[c].order
      /\ \A y \in Orders \ {x} : tx'[c].hold[y] = NoHold
      /\ HoldSeen(c, x)'.status # "ACTIVE"
      /\ \A a \in Accounts : tx'[c].delta[a].locked
            = IF hold[x].status = "ACTIVE" /\ a = HoldAccount(x) THEN -hold[x].amount ELSE 0
  <2>1. CASE hold[x].status = "ACTIVE"
    <3>1. PICK t : t = releaseHold(c)
      OBVIOUS
    <3>2. t = [tx[c] EXCEPT
                !.delta[HoldAccount(x)] = [available |-> hold[x].amount,
                                           locked |-> -hold[x].amount],
                !.hold[x] = [hold[x] EXCEPT !.status = "RELEASED"]]
      BY <1>4, <3>1 DEF releaseHold
    <3>3. t \in Tx /\ tx'[c] = [t EXCEPT !.rows = @ \cup Needs(c)]
      BY <1>1, <1>5, <2>1, <3>1, ReleaseHoldType DEF ReleaseHold, Inv, TypeInv
    <3>4. tx'[c].order = t.order /\ tx'[c].hold = t.hold /\ tx'[c].delta = t.delta
      BY <3>3 DEF Tx
    <3>5. /\ t.order = tx[c].order
          /\ t.hold = [tx[c].hold EXCEPT ![x] = [hold[x] EXCEPT !.status = "RELEASED"]]
          /\ t.delta = [tx[c].delta EXCEPT ![HoldAccount(x)] =
                            [available |-> hold[x].amount, locked |-> -hold[x].amount]]
      BY <1>5, <3>2 DEF Tx
    <3>6. /\ t.hold[x].status = "RELEASED"
          /\ \A y \in Orders \ {x} : t.hold[y] = NoHold
      BY <1>1, <1>4, <1>5, <3>5 DEF Tx, HoldRow
    <3>7. \A a \in Accounts : t.delta[a].locked = IF a = HoldAccount(x) THEN -hold[x].amount ELSE 0
      BY <1>4, <1>5, <3>5 DEF Tx, ZeroBalance
    <3>8. HoldSeen(c, x)'.status = "RELEASED"
      BY <1>1, <3>4, <3>6 DEF HoldSeen, NoHold
    <3> HIDE DEF x
    <3> QED
      BY <2>1, <3>4, <3>5, <3>6, <3>7, <3>8 DEF x
  <2>2. CASE hold[x].status # "ACTIVE"
    <3>1. tx' = tx
      BY <2>2 DEF ReleaseHold
    <3>2. HoldSeen(c, x)' = hold[x]
      BY <1>1, <1>4, <3>1 DEF HoldSeen
    <3> QED
      BY <1>4, <2>2, <3>1, <3>2 DEF ZeroBalance
  <2> QED
    BY <2>1, <2>2
<1> QED
  BY <1>1, <1>6

\* Then it gives back what the hold has, and the engine drops the order.
LEMMA ReleaseAll ==
    ASSUME Inv, GuardInv, NEW c \in CancelCalls, ReleaseHold(c), OthersStay(c),
           NEW x \in Orders, AllCovered(x)
    PROVE  AllCovered(x)'
<1>1. /\ c \in Calls /\ c \notin Orders
      /\ cancel[c].pc = "marked" /\ cancel'[c].pc = "released"
      /\ UNCHANGED <<order, hold, price, target>>
      /\ book' = {e \in book : e.id # target[c]}
      /\ tx'[c].order = tx[c].order /\ HoldSeen(c, target[c])'.status # "ACTIVE"
  BY ReleaseEffect
<1>2. RowKept(x) /\ PriceKept(x)
  BY <1>1 DEF RowKept, PriceKept
<1>3. ASSUME x \in WorksOn(c)' PROVE CallCovered(c, x)'
  <2>1. x = target[c] /\ x \in WorksOn(c)
    BY <1>1, <1>3 DEF WorksOn, InFlight, CancelEnds
  <2>2. OrderSeen(c, x).status = "CANCELLED"
    BY <1>1, <2>1 DEF AllCovered, CallCovered, CancelCovered
  <2>3. OrderSeen(c, x)'.status = "CANCELLED"
    BY <1>1, <2>2 DEF OrderSeen
  <2>4. CancelCovered(c)'
    BY <1>1, <2>1, <2>3 DEF CancelCovered
  <2> QED
    BY <1>1, <2>4 DEF CallCovered
<1> QED
  BY <1>1, <1>2, <1>3, ActKeeps

\* A cancellation commits its row without a hold.
LEMMA CommitCancelAll ==
    ASSUME Inv, ShapeInv, NEW c \in CancelCalls, CommitCancel(c), OthersStay(c),
           NEW x \in Orders, AllCovered(x), Single(x)
    PROVE  AllCovered(x)'
<1>1. /\ cancel[c].pc = "released" /\ cancel'[c].pc = "done" /\ c \in Calls /\ c \notin Orders
      /\ UNCHANGED <<book, price>> /\ Commit(c)
  BY ExchangeAssumption DEF CommitCancel, engine, inputs, Canceller, Calls, Inv, TypeInv, TypeOK
<1>2. /\ ~InFlight(c)'
      /\ Wrote(c, x) => x \in WorksOn(c)
  BY <1>1 DEF InFlight, CancelEnds, ShapeInv, WritesLocal
<1>3. ASSUME x \in WorksOn(c)
      PROVE  /\ Covered(x, OrderSeen(c, x), HoldSeen(c, x), 0)
             /\ OrderSeen(c, x).status = "CANCELLED" => \A e \in book : e.id # x
             /\ create'[x].pc # "placed"
  <2>1. CancelCovered(c) /\ x = target[c]
    BY <1>1, <1>3 DEF AllCovered, CallCovered, WorksOn
  <2>2. Covered(x, OrderSeen(c, x), HoldSeen(c, x), 0)
    BY <1>1, <2>1 DEF CancelCovered, Covered, OpenStatuses
  <2>3. create'[x].pc # "placed"
    <3>1. x \in WorksOn(x) => x = c
      BY <1>1, <1>3 DEF Single, Calls
    <3>2. create[x].pc # "placed"
      BY <1>1, <3>1 DEF WorksOn, InFlight, CreateEnds
    <3> QED
      BY <1>1, <3>2 DEF OthersStay
  <2> QED
    BY <1>1, <2>1, <2>2, <2>3 DEF CancelCovered
<1> QED
  BY <1>1, <1>2, <1>3, CommitAll

\* A rollback forgets what its call has made.
LEMMA RollAll ==
    ASSUME Inv, NEW p \in Calls, Rolls(p), NEW x \in Orders, AllCovered(x)
    PROVE  AllCovered(x)'
<1>1. /\ OthersStay(p) /\ UNCHANGED <<order, hold, book, price>> /\ ~InFlight(p)'
      /\ p \in Orders => create'[p] \in {Handler("failed"), Handler("insufficient")}
  BY RollEffect DEF db
<1>2. RowKept(x) /\ PriceKept(x) /\ x \notin WorksOn(p)'
  BY <1>1 DEF RowKept, PriceKept, WorksOn
<1>3. p \in Orders => create'[p].pc # "placed"
  BY <1>1 DEF Handler
<1> QED
  BY <1>1, <1>2, <1>3, ActKeeps

\* After a restart no call works on anything, and open orders are on the book.
LEMMA RestartAll ==
    ASSUME Inv, Restart, NEW x \in Orders, AllCovered(x)
    PROVE  AllCovered(x)'
<1>1. /\ UNCHANGED <<order, hold, price, request>>
      /\ \A q \in Orders : create'[q] = IF InFlight(q) THEN Handler("lost") ELSE create[q]
      /\ \A c \in CancelCalls : cancel'[c] = IF InFlight(c) THEN Canceller("lost") ELSE cancel[c]
      /\ \A e \in book' : order[e.id].status \in OpenStatuses
  BY DEF Restart, db, inputs, EngineOrder
<1>2. \A q \in Calls : ~InFlight(q)'
  BY <1>1, ExchangeAssumption DEF InFlight, Handler, Canceller, CreateEnds, CancelEnds, Calls
<1>3. create'[x].pc = "placed" => create[x].pc = "placed"
  BY <1>1 DEF Handler
<1>4. Covered(x, order[x], hold[x], 0)'
  BY <1>1 DEF AllCovered, RowCovered, Covered, reserveAmount
<1>5. RowCovered(x)'
  BY <1>1, <1>3, <1>4 DEF AllCovered, RowCovered, OpenStatuses
<1> QED
  BY <1>2, <1>5 DEF AllCovered, WorksOn

\* Every step of a call keeps an order covered that no two calls work on.
LEMMA ActsAll ==
    ASSUME Inv, FreshInv, GuardInv, FillsInv, ShapeInv, NEW p \in Calls, Acts(p),
           NEW x \in Orders, AllCovered(x), Single(x)
    PROVE  AllCovered(x)'
<1>1. OthersStay(p)
  BY ActsAlone
<1>2. CASE p \in Orders /\ ReceiveOrder(p)
  BY <1>1, <1>2, ReceiveOrderAll
<1>3. CASE p \in Orders /\ PlaceOrder(p)
  BY <1>1, <1>3, PlaceAll
<1>4. CASE p \in Orders /\ SubmitOrder(p)
  BY <1>1, <1>4, SubmitAll
<1>5. CASE p \in Orders /\ Block(p)
  BY <1>1, <1>5, BlockAll
<1>6. CASE p \in Orders /\ CommitSettlement(p)
  BY <1>1, <1>6, CommitSettlementAll
<1>7. CASE p \in CancelCalls /\ ReceiveCancel(p)
  BY <1>1, <1>7, ReceiveCancelAll
<1>8. CASE p \in CancelCalls /\ MarkCancelled(p)
  BY <1>1, <1>8, MarkAll
<1>9. CASE p \in CancelCalls /\ ReleaseHold(p)
  BY <1>1, <1>9, ReleaseAll
<1>10. CASE p \in CancelCalls /\ CommitCancel(p)
  BY <1>1, <1>10, CommitCancelAll
<1>11. CASE Rolls(p)
  BY <1>11, RollAll
<1> QED
  BY <1>2, <1>3, <1>4, <1>5, <1>6, <1>7, <1>8, <1>9, <1>10, <1>11 DEF Acts
-----------------------------------------------------------------------------
(* What the transactions lock and unlock *)

\* Holds that differ in the same way keep amounts locked that do.
LEMMA HeldDiffers ==
    ASSUME NEW h \in [Orders -> HoldRow], NEW k \in [Orders -> HoldRow],
           NEW g \in [Orders -> HoldRow], NEW j \in [Orders -> HoldRow], NEW a,
           \A x \in Orders : Locks(k[x], x, a) - Locks(j[x], x, a)
                                = Locks(h[x], x, a) - Locks(g[x], x, a)
    PROVE  Held(k, a) - Held(j, a) = Held(h, a) - Held(g, a)
<1> DEFINE F(f) == [x \in Orders |-> Locks(f[x], x, a)]
           s == [x \in Orders |-> Locks(k[x], x, a) + Locks(g[x], x, a)]
<1>1. /\ Held(h, a) = NatSum(F(h), Orders) /\ F(h) \in [Orders -> Nat]
      /\ Held(k, a) = NatSum(F(k), Orders) /\ F(k) \in [Orders -> Nat]
      /\ Held(g, a) = NatSum(F(g), Orders) /\ F(g) \in [Orders -> Nat]
      /\ Held(j, a) = NatSum(F(j), Orders) /\ F(j) \in [Orders -> Nat]
  BY HeldSum
<1>2. IsFiniteSet(Orders)
  BY ExchangeAssumption
<1>3. \A x \in Orders : /\ Locks(k[x], x, a) \in Nat /\ Locks(g[x], x, a) \in Nat
                        /\ Locks(h[x], x, a) \in Nat /\ Locks(j[x], x, a) \in Nat
  BY <1>1
<1>4. s \in [Orders -> Nat]
  BY <1>3
<1>5. NatSum(s, Orders) = NatSum(F(k), Orders) + NatSum(F(g), Orders)
  <2>1. ASSUME NEW x \in Orders PROVE s[x] = F(k)[x] + F(g)[x]
    BY <1>3
  <2> HIDE DEF F, s
  <2> QED
    BY <1>1, <1>2, <1>4, <2>1, NatSumAdd
<1>6. NatSum(s, Orders) = NatSum(F(h), Orders) + NatSum(F(j), Orders)
  <2>1. ASSUME NEW x \in Orders PROVE s[x] = F(h)[x] + F(j)[x]
    <3>1. Locks(k[x], x, a) + Locks(g[x], x, a) = Locks(h[x], x, a) + Locks(j[x], x, a)
      <4>1. Locks(k[x], x, a) - Locks(j[x], x, a) = Locks(h[x], x, a) - Locks(g[x], x, a)
        OBVIOUS
      <4>2. PICK m, n, r, t \in Nat : /\ m = Locks(k[x], x, a) /\ n = Locks(j[x], x, a)
                                      /\ r = Locks(h[x], x, a) /\ t = Locks(g[x], x, a)
        BY <1>3
      <4>3. m - n = r - t
        BY <4>1, <4>2
      <4> QED
        BY <4>2, <4>3
    <3> QED
      BY <3>1
  <2> HIDE DEF F, s
  <2> QED
    BY <1>1, <1>2, <1>4, <2>1, NatSumAdd
<1>7. /\ Held(h, a) \in Nat /\ Held(k, a) \in Nat /\ Held(g, a) \in Nat /\ Held(j, a) \in Nat
  BY HeldType
<1> HIDE DEF F, s
<1> QED
  BY <1>1, <1>5, <1>6, <1>7

\* The transactions of other calls unlock what their holds give up, as long as
\* the holds they have written do not change under them.
LEMMA OthersLocked ==
    ASSUME Inv, Inv', request' = request, NEW q \in Calls, tx'[q] = tx[q], NEW a \in Accounts,
           LockedBy(q, a),
           \A x \in Orders : HoldAccount(x) = a /\ tx[q].hold[x] # NoHold => hold'[x] = hold[x]
    PROVE  LockedBy(q, a)'
<1>1. PICK h, k \in [Orders -> HoldRow] :
              /\ \A x \in Orders : h[x] = HoldSeen(q, x) /\ k[x] = HoldSeen(q, x)'
              /\ Held(HoldsSeen(q), a) = Held(h, a) /\ Held(HoldsSeen(q), a)' = Held(k, a)
              /\ hold \in [Orders -> HoldRow] /\ hold' \in [Orders -> HoldRow]
              /\ Held(hold, a)' = Held(hold', a)
  BY SeenChange
<1>2. ASSUME NEW x \in Orders
      PROVE  Locks(k[x], x, a) - Locks(hold'[x], x, a) = Locks(h[x], x, a) - Locks(hold[x], x, a)
  <2>1. CASE HoldAccount(x) # a
    BY <2>1 DEF Locks
  <2>2. CASE HoldAccount(x) = a /\ tx[q].hold[x] # NoHold
    BY <1>1, <2>2 DEF HoldSeen
  <2>3. CASE tx[q].hold[x] = NoHold
    <3>1. k[x] = hold'[x] /\ h[x] = hold[x]
      BY <1>1, <2>3 DEF HoldSeen
    <3>2. Locks(hold'[x], x, a) \in Nat /\ Locks(hold[x], x, a) \in Nat
      BY <1>1 DEF Locks, HoldRow
    <3> QED
      BY <3>1, <3>2
  <2> QED
    BY <2>1, <2>2, <2>3
<1>3. Held(k, a) - Held(hold', a) = Held(h, a) - Held(hold, a)
  BY <1>1, <1>2, HeldDiffers
<1> QED
  BY <1>1, <1>3 DEF LockedBy

\* A transaction that has written nothing unlocks nothing.
LEMMA NothingLocked ==
    ASSUME Inv, NEW p \in Calls, tx[p] = NoTx, NEW a \in Accounts
    PROVE  LockedBy(p, a)
<1>1. \A x \in Orders : HoldSeen(p, x) = hold[x]
  BY NothingWrote
<1>2. hold \in [Orders -> HoldRow] /\ HoldsSeen(p) = hold
  BY <1>1 DEF Inv, TypeInv, TypeOK, HoldsSeen
<1>3. Held(hold, a) \in Nat /\ tx[p].delta[a].locked = 0
  BY <1>2, HeldType, NoTxFields DEF ZeroBalance
<1> QED
  BY <1>2, <1>3 DEF LockedBy

\* The same, after a step.
LEMMA NothingLockedNext ==
    ASSUME Inv, Inv', request' = request, NEW p \in Calls, tx'[p] = NoTx, NEW a \in Accounts
    PROVE  LockedBy(p, a)'
<1>1. PICK h, k \in [Orders -> HoldRow] :
              /\ \A x \in Orders : k[x] = HoldSeen(p, x)'
              /\ Held(HoldsSeen(p), a)' = Held(k, a) /\ Held(k, a) \in Nat
              /\ hold' \in [Orders -> HoldRow] /\ Held(hold, a)' = Held(hold', a)
  BY SeenChange
<1>2. tx'[p].delta[a].locked = 0 /\ \A x \in Orders : HoldSeen(p, x)' = hold'[x]
  BY NoTxFields DEF ZeroBalance, HoldSeen
<1>3. k = hold'
  BY <1>1, <1>2
<1> QED
  BY <1>1, <1>2, <1>3 DEF LockedBy

\* What is locked on the account is what its holds keep locked.
AccountCovered(a) == account[a].locked = Held(hold, a) /\ \A p \in Calls : LockedBy(p, a)

\* A commit unlocks what the holds it writes give up.
LEMMA CommitLocks ==
    ASSUME Inv, Inv', ShapeInv, NEW p \in Calls, Commit(p), OthersStay(p), NEW a \in Accounts,
           AccountCovered(a), \A x \in Orders : HoldAccount(x) = a => Single(x)
    PROVE  AccountCovered(a)'
<1>1. /\ request' = request
      /\ \A x \in Orders : hold'[x] = HoldSeen(p, x)
      /\ hold' = HoldsSeen(p) /\ tx'[p] = NoTx
      /\ account'[a].locked = account[a].locked + tx[p].delta[a].locked
  BY DEF Commit, HoldsSeen, OthersStay, Inv, TypeInv, TypeOK
<1>2. account'[a].locked = Held(hold, a)'
  <2>1. PICK h : h = HoldsSeen(p)
    OBVIOUS
  <2>2. Held(hold, a)' = Held(h, a) /\ Held(HoldsSeen(p), a) = Held(h, a)
    BY <1>1, <2>1 DEF Held, HoldAccount
  <2>3. /\ Held(HoldsSeen(p), a) \in Nat /\ account[a].locked \in Int
        /\ tx[p].delta[a].locked \in Int
    BY HoldsSeenType
  <2> QED
    BY <1>1, <2>2, <2>3 DEF AccountCovered, LockedBy
<1>3. LockedBy(p, a)'
  BY <1>1, NothingLockedNext
<1>4. ASSUME NEW q \in Calls \ {p} PROVE LockedBy(q, a)'
  <2>1. ASSUME NEW x \in Orders, HoldAccount(x) = a, tx[q].hold[x] # NoHold
        PROVE  hold'[x] = hold[x]
    <3>1. x \in WorksOn(q)
      BY <2>1 DEF ShapeInv, WritesLocal, Wrote
    <3>2. x \notin WorksOn(p)
      BY <2>1, <3>1 DEF Single
    <3>3. tx[p].hold[x] = NoHold
      BY <3>2 DEF ShapeInv, WritesLocal, Wrote
    <3> QED
      BY <1>1, <3>3 DEF HoldSeen
  <2> QED
    BY <1>1, <2>1, OthersLocked DEF AccountCovered, OthersStay
<1> QED
  BY <1>2, <1>3, <1>4 DEF AccountCovered, Calls

\* A placed order locks what its hold reserves.
LEMMA PlaceLocks ==
    ASSUME Inv, Inv', FreshInv, NEW o \in Orders, PlaceOrder(o), OthersStay(o), NEW a \in Accounts,
           AccountCovered(a)
    PROVE  AccountCovered(a)'
<1>1. /\ create[o].pc = "placing" /\ request' = request /\ tx' = tx
      /\ hold \in [Orders -> HoldRow]
  BY DEF PlaceOrder, OthersStay, Inv, TypeInv, TypeOK
<1>2. hold[o] = NoHold /\ \A q \in Calls : tx[q].hold[o] = NoHold
  BY <1>1 DEF FreshInv, Fresh, NoRow
<1>3. CASE UNCHANGED <<account, order, hold>>
  <2>1. Held(hold, a)' = Held(hold, a)
    BY <1>1, <1>3 DEF Held, HoldAccount
  <2>2. \A q \in Calls : LockedBy(q, a)'
    BY <1>1, <1>3, OthersLocked DEF AccountCovered
  <2> QED
    BY <1>3, <2>1, <2>2 DEF AccountCovered, Calls
<1>4. CASE /\ hold'[o] = [status |-> "ACTIVE",
                          amount |-> reserveAmount(o, request[o].quantity)]
           /\ \A x \in Orders \ {o} : order'[x] = order[x] /\ hold'[x] = hold[x]
           /\ \A b \in Accounts :
                 account'[b].locked
                   = account[b].locked
                     + (IF b = HoldAccount(o) THEN reserveAmount(o, request[o].quantity) ELSE 0)
           /\ hold' \in [Orders -> HoldRow]
  <2>1. \A q \in Calls : LockedBy(q, a)'
    <3>1. ASSUME NEW q \in Calls PROVE LockedBy(q, a)'
      <4>1. \A x \in Orders : HoldAccount(x) = a /\ tx[q].hold[x] # NoHold => hold'[x] = hold[x]
        BY <1>2, <1>4
      <4> QED
        BY <1>1, <4>1, OthersLocked DEF AccountCovered
    <3> QED
      BY <3>1
  <2>2. account'[a].locked = Held(hold, a)'
    <3>1. PICK h, n : h = hold' /\ n = reserveAmount(o, request[o].quantity)
      OBVIOUS
    <3>2. Held(h, a) - Held(hold, a) = Locks(h[o], o, a) - Locks(hold[o], o, a)
      BY <1>1, <1>4, <3>1, HeldChange
    <3>3. Held(h, a) \in Nat /\ Held(hold, a) \in Nat
      BY <1>1, <1>4, <3>1, HeldType
    <3>4. Locks(hold[o], o, a) = 0 /\ Locks(h[o], o, a) = IF a = HoldAccount(o) THEN n ELSE 0
      BY <1>2, <1>4, <3>1 DEF Locks, NoHold
    <3>5. Held(hold, a)' = Held(h, a)
      BY <1>1, <3>1 DEF Held, HoldAccount
    <3>6. account'[a].locked = account[a].locked + (IF a = HoldAccount(o) THEN n ELSE 0)
      BY <1>4, <3>1
    <3>7. account[a].locked = Held(hold, a) /\ n \in Nat
      BY <3>1, ReserveType, RequestType DEF AccountCovered, Inv, TypeInv
    <3> QED
      BY <3>2, <3>3, <3>4, <3>5, <3>6, <3>7
  <2> QED
    BY <2>1, <2>2 DEF AccountCovered, Calls
<1> QED
  BY <1>3, <1>4, PlacedRow

\* A release unlocks what its hold has.
LEMMA ReleaseLocks ==
    ASSUME Inv, Inv', GuardInv, NEW c \in CancelCalls, ReleaseHold(c), NEW a \in Accounts
    PROVE  LockedBy(c, a)'
<1>0. PICK x : x = target[c]
  OBVIOUS
<1>1. /\ x \in Orders /\ c \in Calls /\ hold' = hold /\ request' = request
      /\ \A y \in Orders \ {x} : tx'[c].hold[y] = NoHold
      /\ HoldSeen(c, x)'.status # "ACTIVE"
      /\ tx'[c].delta[a].locked
            = IF hold[x].status = "ACTIVE" /\ a = HoldAccount(x) THEN -hold[x].amount ELSE 0
  <2>1. target' = target /\ HoldSeen(c, target[c])'.status # "ACTIVE"
    BY ReleaseEffect
  <2>2. HoldSeen(c, x)'.status # "ACTIVE"
    BY <1>0, <2>1
  <2> QED
    BY <1>0, <2>2, ReleaseEffect
<1>2. PICK h, k \in [Orders -> HoldRow] :
              /\ \A y \in Orders : k[y] = HoldSeen(c, y)'
              /\ Held(HoldsSeen(c), a)' = Held(k, a) /\ Held(k, a) \in Nat
              /\ hold \in [Orders -> HoldRow] /\ Held(hold, a) \in Nat
              /\ Held(hold, a)' = Held(hold', a)
  BY <1>1, SeenChange
<1>3. /\ \A y \in Orders \ {x} : k[y] = hold[y]
      /\ k[x].status # "ACTIVE"
  <2>1. k[x].status # "ACTIVE"
    BY <1>1, <1>2
  <2>2. ASSUME NEW y \in Orders \ {x} PROVE k[y] = hold[y]
    <3>1. HoldSeen(c, y)' = hold[y]
      BY <1>1, <2>2 DEF HoldSeen
    <3> QED
      BY <1>2, <3>1
  <2> QED
    BY <2>1, <2>2
<1>4. Held(k, a) - Held(hold, a) = Locks(k[x], x, a) - Locks(hold[x], x, a)
  BY <1>1, <1>2, <1>3, HeldChange
<1>5. /\ Locks(k[x], x, a) = 0 /\ hold[x].amount \in Nat
      /\ Locks(hold[x], x, a)
            = IF hold[x].status = "ACTIVE" /\ a = HoldAccount(x) THEN hold[x].amount ELSE 0
  BY <1>1, <1>2, <1>3 DEF Locks, HoldRow
<1> QED
  BY <1>1, <1>2, <1>4, <1>5 DEF LockedBy

\* A step that keeps the holds and the accounts keeps what is locked covered, if
\* its own transaction does.
LEMMA ActLocks ==
    ASSUME Inv, Inv', NEW p \in Calls, OthersStay(p), UNCHANGED <<account, hold>>,
           NEW a \in Accounts, AccountCovered(a),
           tx'[p] = tx[p] \/ LockedBy(p, a)'
    PROVE  AccountCovered(a)'
<1>1. request' = request /\ Held(hold, a)' = Held(hold, a)
  BY DEF OthersStay, Held, HoldAccount
<1>2. ASSUME NEW q \in Calls PROVE LockedBy(q, a)'
  BY <1>1, OthersLocked DEF AccountCovered, OthersStay
<1> QED
  BY <1>1, <1>2 DEF AccountCovered, Calls

\* Every step of a call keeps an account covered none of whose orders two calls
\* work on.
LEMMA ActsLocks ==
    ASSUME Inv, Inv', FreshInv, GuardInv, FillsInv, ShapeInv, NEW p \in Calls, Acts(p),
           NEW a \in Accounts, AccountCovered(a),
           \A x \in Orders : HoldAccount(x) = a => Single(x) /\ AllCovered(x)
    PROVE  AccountCovered(a)'
<1>1. OthersStay(p)
  BY ActsAlone
<1>2. CASE p \in Orders /\ ReceiveOrder(p)
  BY <1>1, <1>2, ActLocks DEF ReceiveOrder, db
<1>3. CASE p \in Orders /\ PlaceOrder(p)
  BY <1>1, <1>3, PlaceLocks
<1>4. CASE p \in Orders /\ SubmitOrder(p)
  BY <1>1, <1>4, ActLocks DEF SubmitOrder, db
<1>5. CASE p \in Orders /\ Block(p)
  <2>1. create[p].pc \in SettlingPcs /\ UNCHANGED <<account, hold>>
    BY <1>5, BlockFills, Blocks DEF Alone, db
  <2>2. ASSUME NEW x \in WorksOn(p), HoldAccount(x) = a PROVE OrderCovered(p, x)
    <3>1. x \in Orders
      <4>1. \A t \in Unsettled(p) : t.maker \in Orders
        BY <1>5, UnsettledType DEF Trade
      <4> QED
        BY <1>5, <4>1 DEF WorksOn
    <3> QED
      BY <1>5, <2>1, <2>2, <3>1 DEF AllCovered, CallCovered
  <2>3. LockedBy(p, a)'
    BY <1>5, <2>2, BlockLocks DEF AccountCovered
  <2> QED
    BY <1>1, <2>1, <2>3, ActLocks
<1>6. CASE p \in Orders /\ CommitSettlement(p)
  BY <1>1, <1>6, CommitLocks DEF CommitSettlement
<1>7. CASE p \in CancelCalls /\ ReceiveCancel(p)
  BY <1>1, <1>7, ActLocks DEF ReceiveCancel, db
<1>8. CASE p \in CancelCalls /\ MarkCancelled(p)
  <2>1. UNCHANGED <<account, hold>>
    BY <1>8 DEF MarkCancelled, db
  <2>2. tx'[p].hold = tx[p].hold /\ tx'[p].delta = tx[p].delta
    <3>1. tx[p] \in Tx /\ tx \in [Calls -> Tx]
      BY DEF Inv, TypeInv, TypeOK
    <3> QED
      BY <1>8, <3>1 DEF MarkCancelled, Tx
  <2>3. LockedBy(p, a)'
    <3>1. request' = request
      BY <1>1 DEF OthersStay
    <3>2. HoldsSeen(p)' = HoldsSeen(p)
      BY <2>1, <2>2 DEF HoldsSeen, HoldSeen
    <3>3. Held(HoldsSeen(p), a)' = Held(HoldsSeen(p), a) /\ Held(hold, a)' = Held(hold, a)
      BY <2>1, <3>1, <3>2 DEF Held, HoldAccount
    <3> QED
      BY <2>2, <3>3 DEF AccountCovered, LockedBy
  <2> QED
    BY <1>1, <2>1, <2>3, ActLocks
<1>9. CASE p \in CancelCalls /\ ReleaseHold(p)
  BY <1>1, <1>9, ReleaseLocks, ActLocks DEF ReleaseHold, db
<1>10. CASE p \in CancelCalls /\ CommitCancel(p)
  BY <1>1, <1>10, CommitLocks DEF CommitCancel
<1>11. CASE Rolls(p)
  <2>1. UNCHANGED <<account, hold, request>> /\ tx'[p] = NoTx
    BY <1>1, <1>11, RollEffect DEF db, OthersStay
  <2>2. LockedBy(p, a)'
    BY <2>1, NothingLockedNext
  <2> QED
    BY <1>1, <2>1, <2>2, ActLocks
<1> QED
  BY <1>2, <1>3, <1>4, <1>5, <1>6, <1>7, <1>8, <1>9, <1>10, <1>11 DEF Acts

LEMMA RestartLocks ==
    ASSUME Inv, Inv', Restart, NEW a \in Accounts, AccountCovered(a)
    PROVE  AccountCovered(a)'
<1>1. UNCHANGED <<account, hold, request>> /\ \A p \in Calls : tx'[p] = NoTx
  BY DEF Restart, db, inputs
<1>2. Held(hold, a)' = Held(hold, a)
  BY <1>1 DEF Held, HoldAccount
<1>3. \A p \in Calls : LockedBy(p, a)'
  BY <1>1, NothingLockedNext
<1> QED
  BY <1>1, <1>2, <1>3 DEF AccountCovered, Calls

\* Orders that no two calls have worked on, and accounts with no other orders,
\* are covered.
OverlapInv ==
    /\ Contended \subseteq shared
    /\ \A x \in Orders \ shared : AllCovered(x)
    /\ \A a \in UserAccounts : Clean(a) => AccountCovered(a)

\* An order that is not in contention is worked on by one call.
LEMMA Uncontended ==
    ASSUME NEW x, x \notin Contended
    PROVE  Single(x)
BY DEF Contended, Busy, Single

\* Covering is about the state only.
LEMMA CoveredSame ==
    ASSUME UNCHANGED vars
    PROVE  /\ \A x : AllCovered(x)' <=> AllCovered(x)
           /\ \A a : AccountCovered(a)' <=> AccountCovered(a)
           /\ Contended' = Contended
<1>1. UNCHANGED <<account, order, hold, trades, book, request, price, target, create,
                  cancel, tx, restarts>>
  BY DEF vars, db, engine, inputs
<1>2. /\ \A p : InFlight(p)' <=> InFlight(p)
      /\ \A p : Unsettled(p)' = Unsettled(p) /\ NextFill(p)' = NextFill(p)
  BY <1>1 DEF InFlight, Unsettled, TradeOf, NextFill
<1>3. \A p : WorksOn(p)' = WorksOn(p)
  BY <1>1, <1>2 DEF WorksOn
<1>4. Contended' = Contended
  BY <1>3 DEF Contended, Busy
<1>5. /\ \A p, x : OrderSeen(p, x)' = OrderSeen(p, x) /\ HoldSeen(p, x)' = HoldSeen(p, x)
      /\ \A p : Buyer(p)' = Buyer(p) /\ Seller(p)' = Seller(p) /\ HoldsSeen(p)' = HoldsSeen(p)
  BY <1>1, <1>2 DEF OrderSeen, HoldSeen, Buyer, Seller, HoldsSeen
<1>6. /\ \A x, row, h, n : Covered(x, row, h, n)' <=> Covered(x, row, h, n)
      /\ \A o, x : Reduced(o, x)' = Reduced(o, x) /\ (Reduces(o, x)' <=> Reduces(o, x))
      /\ \A o : VolumeOf(o, Unsettled(o))' = VolumeOf(o, Unsettled(o))
  BY <1>1, <1>2, <1>5, CoveredStays
     DEF Reduced, Reduces, VolumeOf, Volume, TradesOf, NatSum, Tokens
<1>7. /\ \A x : RowCovered(x)' <=> RowCovered(x)
      /\ \A o, x : OrderCovered(o, x)' <=> OrderCovered(o, x)
      /\ \A c : CancelCovered(c)' <=> CancelCovered(c)
  BY <1>1, <1>2, <1>5, <1>6
     DEF RowCovered, OrderCovered, HoldRead, NotCancelled, RestKnown, CancelCovered, Covered,
         reserveAmount
<1>8. \A a : Held(hold, a)' = Held(hold, a) /\ \A p : Held(HoldsSeen(p), a)' = Held(HoldsSeen(p), a)
  BY <1>1, <1>5 DEF Held, HoldAccount
<1> QED
  BY <1>1, <1>3, <1>4, <1>7, <1>8
     DEF AllCovered, CallCovered, AccountCovered, LockedBy

\* Every step keeps what no two calls have worked on covered.
LEMMA StepOverlaps ==
    ASSUME Inv, Inv', FreshInv, GuardInv, FillsInv, ShapeInv, OverlapInv,
           [HistoryNext]_historyVars
    PROVE  OverlapInv'
<1>1. CASE UNCHANGED vars /\ shared' = shared
  <2>1. \A a : Clean(a)' <=> Clean(a)
    BY <1>1 DEF Clean, HoldAccount, vars, inputs
  <2> QED
    BY <1>1, <2>1, CoveredSame DEF OverlapInv
<1>2. CASE HistoryNext
  <2>1. [Next]_vars /\ shared' = shared \cup Contended' /\ request' = request
    <3>1. Next /\ shared' = shared \cup Contended'
      BY <1>2 DEF HistoryNext, Remember
    <3>2. CASE \E p \in Calls : Acts(p)
      BY <3>1, <3>2, ActsAlone DEF OthersStay
    <3>3. CASE Restart
      BY <3>1, <3>3 DEF Restart, inputs
    <3>4. CASE UNCHANGED vars
      BY <3>1, <3>4 DEF vars, inputs
    <3> QED
      BY <3>1, <3>2, <3>3, <3>4, StepOfCall
  <2>2. ASSUME NEW x \in Orders \ shared' PROVE AllCovered(x)'
    <3>1. AllCovered(x) /\ Single(x)
      BY <2>1, <2>2, Uncontended DEF OverlapInv
    <3>2. CASE \E p \in Calls : Acts(p)
      BY <2>2, <3>1, <3>2, ActsAll
    <3>3. CASE Restart
      BY <2>2, <3>1, <3>3, RestartAll
    <3>4. CASE UNCHANGED vars
      BY <3>1, <3>4, CoveredSame
    <3> QED
      BY <2>1, <3>2, <3>3, <3>4, StepOfCall
  <2>3. ASSUME NEW a \in UserAccounts, Clean(a)' PROVE AccountCovered(a)'
    <3>1. \A x \in Orders : HoldAccount(x) = a => x \notin shared'
      BY <2>1, <2>3 DEF Clean, HoldAccount
    <3>2. \A x \in Orders : HoldAccount(x) = a => Single(x) /\ AllCovered(x)
      BY <2>1, <3>1, Uncontended DEF OverlapInv
    <3>3. AccountCovered(a) /\ a \in Accounts
      BY <2>1, <3>1 DEF OverlapInv, Clean, UserAccounts, Accounts
    <3>4. CASE \E p \in Calls : Acts(p)
      BY <3>2, <3>3, <3>4, ActsLocks
    <3>5. CASE Restart
      BY <3>3, <3>5, RestartLocks
    <3>6. CASE UNCHANGED vars
      BY <3>3, <3>6, CoveredSame
    <3> QED
      BY <2>1, <3>4, <3>5, <3>6, StepOfCall
  <2> QED
    BY <2>1, <2>2, <2>3 DEF OverlapInv, UserAccounts
<1> QED
  BY <1>1, <1>2 DEF historyVars, history

\* At the start nothing is held and no call is open.
LEMMA InitOverlaps ==
    ASSUME HistoryInit
    PROVE  OverlapInv
<1>1. Init /\ Inv
  BY InitInv DEF HistoryInit
<1>2. \A p \in Calls : ~InFlight(p) /\ WorksOn(p) = {}
  BY <1>1 DEF Init, InFlight, WorksOn, Handler, Canceller, Calls, CreateEnds, CancelEnds
<1>3. \A x \in Orders : AllCovered(x)
  BY <1>1, <1>2 DEF AllCovered, RowCovered, Init, Covered, NoOrder, NoHold, OpenStatuses, Handler
<1>4. ASSUME NEW a \in UserAccounts PROVE AccountCovered(a)
  <2>1. account[a].locked = 0 /\ a \in Accounts
    BY <1>1, <1>4 DEF Init, InitialAccount, UserAccounts, Accounts
  <2>2. hold \in [Orders -> HoldRow]
    BY <1>1 DEF Inv, TypeInv, TypeOK
  <2>3. /\ Held(hold, a) = NatSum([x \in Orders |-> Locks(hold[x], x, a)], Orders)
        /\ [x \in Orders |-> Locks(hold[x], x, a)] \in [Orders -> Nat]
    BY <2>2, HeldSum
  <2>4. PICK f : f = [x \in Orders |-> Locks(hold[x], x, a)]
    OBVIOUS
  <2>5. f \in [Orders -> Int] /\ \A x \in Orders : f[x] = 0
    BY <1>1, <2>4 DEF Init, Locks, NoHold
  <2>6. NatSum(f, Orders) = 0
    BY <2>5, NatSumZero, ExchangeAssumption
  <2>7. \A p \in Calls : tx[p] = NoTx
    BY <1>1 DEF Init
  <2>8. \A p \in Calls : LockedBy(p, a)
    BY <1>1, <2>1, <2>7, NothingLocked
  <2> QED
    BY <2>1, <2>3, <2>4, <2>6, <2>8 DEF AccountCovered
<1>5. Contended = {}
  BY <1>2 DEF Contended, Busy
<1> QED
  BY <1>3, <1>4, <1>5 DEF OverlapInv

HistoryInv == Inv /\ FreshInv /\ GuardInv /\ FillsInv /\ ShapeInv

LEMMA InitHistory ==
    ASSUME HistoryInit
    PROVE  HistoryInv /\ OverlapInv
BY InitInv, InitFresh, InitGuards, InitFollows, InitShape, InitOverlaps
   DEF HistoryInit, HistoryInv

LEMMA StepHistory ==
    ASSUME HistoryInv, [HistoryNext]_historyVars
    PROVE  HistoryInv' /\ [Next]_vars
<1>1. [Next]_vars
  BY DEF HistoryNext, historyVars
<1>2. Inv' /\ FreshInv' /\ GuardInv' /\ FillsInv' /\ ShapeInv'
  BY <1>1, StepInv, StepFresh, StepGuards, StepFollows, StepShape DEF HistoryInv
<1> QED
  BY <1>1, <1>2 DEF HistoryInv

\* The rows that a call has seen of an order that no other has worked on are
\* covered by its hold, and what is locked for such orders is what they hold,
\* through all of createOrder, the fills of its settlement, cancelOrder, failures
\* and restarts (orders.service.ts 41-133, settlement.service.ts,
\* matching.service.ts 59-76).
THEOREM OverlapsCorrect == HistorySpec => [](HistoryInv /\ OverlapInv)
<1> DEFINE I == HistoryInv /\ OverlapInv
<1>1. HistoryInit => I
  BY InitHistory
<1>2. I /\ [HistoryNext]_historyVars => I'
  BY StepHistory, StepOverlaps DEF HistoryInv
<1> QED
  BY <1>1, <1>2, PTL DEF HistorySpec

\* However many calls overlap, are cancelled, fail or are lost: the locked funds
\* of an account are those of its active holds, until two calls have worked on
\* the same of its orders (ledger-design.md, "System-wide invariants" 4;
\* balances.service.ts moves the one and the other in two statements).
THEOREM LockedIsWhatIsHeld == HistorySpec => []LockedFollowsHolds
<1>1. OverlapInv => LockedFollowsHolds
  BY DEF OverlapInv, LockedFollowsHolds, Clean, AccountCovered, Held, HeldOn
<1> QED
  BY <1>1, OverlapsCorrect, PTL

\* However many calls overlap, are cancelled, fail or are lost: an order that can
\* still trade has exactly the funds it needs reserved, and one that cannot has
\* none, unless two calls have worked on that order (orders.service.ts 75-79,
\* matching.service.ts 153-157).
THEOREM HoldsCoverOrders == HistorySpec => []HoldCoversRemaining
<1>1. HistoryInv /\ OverlapInv => HoldCoversRemaining
  <2>1. ASSUME HistoryInv, OverlapInv, NEW o \in Orders \ shared
        PROVE  /\ order[o].status \in OpenStatuses =>
                     hold[o] = [status |-> "ACTIVE",
                                amount |-> reserveAmount(o, order[o].remaining)]
               /\ order[o].status \notin OpenStatuses => hold[o].status # "ACTIVE"
    <3>1. /\ Covered(o, order[o], hold[o], 0) /\ order[o].remaining \in Int
          /\ order[o].status \in OpenStatuses => order[o].remaining > 0
      BY <2>1 DEF OverlapInv, AllCovered, RowCovered, HistoryInv, ShapeInv, RowsShaped,
        Shaped, Inv, TypeInv, TypeOK, OrderRow
    <3>2. order[o].remaining - 0 = order[o].remaining
      BY <3>1
    <3> QED
      BY <3>1, <3>2 DEF Covered
  <2> QED
    BY <2>1 DEF HoldCoversRemaining
<1> QED
  BY <1>1, OverlapsCorrect, PTL
-----------------------------------------------------------------------------
(* The book and the orders *)

\* No call has cancelled x.
NoCancel(x) == \A p \in Calls : OrderSeen(p, x).status # "CANCELLED"

\* A cancellation that is committed is not taken back.
KeepsCancelled(x) ==
    order[x].status = "CANCELLED" => \A p \in Calls : OrderSeen(p, x).status = "CANCELLED"

\* What x has left is on the book, matched or to be cancelled.
Aligned(x) ==
    x \in Placed /\ request[x].type = "LIMIT" /\ create[x].pc # "placed" /\ NoCancel(x) =>
        InEngine(x) + RestOf(x) = order[x].remaining

\* Orders come to the book in the order of their creation, but for the overtaken.
InOrder ==
    \A d, e \in book : d.sequence < e.sequence /\ e.id \notin overtaken =>
        order[d.id].created < order[e.id].created

\* Two books that have the same entry of an order offer the same of it.
LEMMA OfferSame ==
    ASSUME NEW bk, Distinct(bk), NEW ck, Distinct(ck), NEW x,
           \A e : e.id = x => (e \in bk <=> e \in ck)
    PROVE  OfferIn(ck, x) = OfferIn(bk, x)
<1>1. CASE \E e \in bk : e.id = x
  <2>1. PICK e \in bk : e.id = x
    BY <1>1
  <2>2. e \in ck /\ e.remaining \in Nat
    BY <2>1 DEF Distinct, BookEntry
  <2>3. OfferIn(bk, x) = e.remaining
    BY <2>1, <2>2, OfferOne DEF Distinct
  <2>4. OfferIn(ck, x) = e.remaining
    BY <2>1, <2>2, OfferOne DEF Distinct
  <2> QED
    BY <2>3, <2>4
<1>2. CASE \A e \in bk : e.id # x
  <2>1. \A e \in ck : e.id # x
    BY <1>2
  <2> QED
    BY <1>2, <2>1, OfferNone
<1> QED
  BY <1>1, <1>2

\* What an engine has of an order is on the book or matched.
LEMMA EngineHas ==
    \A x : /\ InEngine(x) = OfferIn(book, x) + VolumeOf(x, Matching)
           /\ InEngine(x)' = OfferIn(book', x) + VolumeOf(x, Matching')
BY DEF InEngine, OfferIn, VolumeOf, Matching, TradesOf, Volume

\* A call works on the orders of what it has matched and not settled.
LEMMA TradesWork ==
    ASSUME Inv, FillsInv, NEW o \in Orders, NEW t \in Unsettled(o)
    PROVE  o \in WorksOn(o) /\ t.maker \in WorksOn(o) /\ t.taker = o
<1>1. o \in Calls /\ t.taker = o
  BY UnsettledType DEF Calls
<1>2. InFlight(o)
  <2>1. ASSUME ~InFlight(o) PROVE Unsettled(o) = {}
    <3>1. tx[o] = NoTx /\ create[o].fills = {}
      BY <1>1, <2>1, NotOpen
    <3> QED
      BY <3>1, NoTrades DEF Unsettled
  <2> QED
    BY <2>1
<1> QED
  BY <1>1, <1>2 DEF WorksOn

\* What no call has to do with is not matched.
LEMMA Unmatched ==
    ASSUME Inv, FillsInv, NEW x, NEW o \in Orders, x \notin WorksOn(o)
    PROVE  TradesOf(x, Unsettled(o)) = {}
<1>1. \A t \in Unsettled(o) : t.maker # x /\ t.taker # x
  BY TradesWork
<1> QED
  BY <1>1 DEF TradesOf

\* Of an order that only p works on, p has all that is matched.
LEMMA MatchingOne ==
    ASSUME Inv, FillsInv, NEW p \in Calls, OthersStay(p), NEW x,
           \A q \in Calls \ {p} : x \notin WorksOn(q)
    PROVE  /\ VolumeOf(x, Matching) = IF p \in Orders THEN VolumeOf(x, Unsettled(p)) ELSE 0
           /\ VolumeOf(x, Matching') = IF p \in Orders THEN VolumeOf(x, Unsettled(p)') ELSE 0
<1>1. \A q \in Orders \ {p} : /\ TradesOf(x, Unsettled(q)) = {}
                             /\ TradesOf(x, Unsettled(q)') = {}
  <2>1. ASSUME NEW q \in Orders \ {p} PROVE TradesOf(x, Unsettled(q)) = {}
    BY Unmatched DEF Calls
  <2>2. \A q \in Orders \ {p} : Unsettled(q)' = Unsettled(q)
    BY OthersWork DEF Calls
  <2> QED
    BY <2>1, <2>2
<1>2. TradesOf(x, {}) = {} /\ VolumeOf(x, {}) = 0
  BY NoTrades DEF TradesOf
<1>3. TradesOf(x, Matching) = TradesOf(x, IF p \in Orders THEN Unsettled(p) ELSE {})
  BY <1>1, <1>2 DEF Matching, TradesOf
<1>4. TradesOf(x, Matching') = TradesOf(x, IF p \in Orders THEN Unsettled(p)' ELSE {})
  BY <1>1, <1>2 DEF Matching, TradesOf
<1> QED
  BY <1>2, <1>3, <1>4 DEF VolumeOf

\* A call that keeps what it has matched of an order changes nothing for it.
LEMMA MatchingSame ==
    ASSUME NEW p \in Calls, OthersStay(p), NEW x,
           p \in Orders => TradesOf(x, Unsettled(p)') = TradesOf(x, Unsettled(p))
    PROVE  VolumeOf(x, Matching') = VolumeOf(x, Matching)
<1>1. \A q \in Orders : TradesOf(x, Unsettled(q)') = TradesOf(x, Unsettled(q))
  BY OthersWork DEF Calls
<1>2. TradesOf(x, Matching') = TradesOf(x, Matching)
  BY <1>1 DEF Matching, TradesOf
<1> QED
  BY <1>2 DEF VolumeOf

\* A step that keeps the row of x and what the engine has of it.
LEMMA AlignedStays ==
    ASSUME NEW p \in Calls, OthersStay(p), NEW x \in Orders, Aligned(x),
           order'[x] = order[x], OfferIn(book', x) = OfferIn(book, x),
           p \in Orders => TradesOf(x, Unsettled(p)') = TradesOf(x, Unsettled(p)),
           create'[x].pc # "placed" /\ NoCancel(x)' =>
                create[x].pc # "placed" /\ NoCancel(x) /\ RestOf(x)' = RestOf(x)
    PROVE  Aligned(x)'
<1>1. InEngine(x)' = InEngine(x)
  BY EngineHas, MatchingSame
<1>2. request' = request /\ (x \in Placed' <=> x \in Placed)
  BY DEF OthersStay, Placed
<1> QED
  BY <1>1, <1>2 DEF Aligned

\* A call that works on nothing more sees the same of an order that is kept.
LEMMA OthersSee ==
    ASSUME NEW p, OthersStay(p), NEW q \in Calls \ {p}, NEW x, order'[x] = order[x]
    PROVE  OrderSeen(q, x)' = OrderSeen(q, x)
BY DEF OthersStay, OrderSeen

\* A cancellation that is committed stays, if p does not take it back.
LEMMA CancelledStays ==
    ASSUME NEW p, OthersStay(p), NEW x, KeepsCancelled(x), order'[x] = order[x],
           OrderSeen(p, x).status = "CANCELLED" => OrderSeen(p, x)'.status = "CANCELLED"
    PROVE  KeepsCancelled(x)' /\ (NoCancel(x)' => NoCancel(x))
<1>1. \A q \in Calls \ {p} : OrderSeen(q, x)' = OrderSeen(q, x)
  BY OthersSee
<1>2. Calls' = Calls
  BY DEF Calls
<1> QED
  BY <1>1, <1>2 DEF KeepsCancelled, NoCancel

\* A block neither takes a cancellation back nor forgets a rest but by cancelling it.
LEMMA BlockCancels ==
    ASSUME Inv, FillsInv, ShapeInv, NEW o \in Orders, Block(o), NEW x \in Orders,
           x \in WorksOn(o) => OrderCovered(o, x)
    PROVE  /\ OrderSeen(o, x).status = "CANCELLED" => OrderSeen(o, x)'.status = "CANCELLED"
           /\ OrderSeen(o, x)'.status # "CANCELLED" => RestOf(x)' = RestOf(x)
<1>1. /\ \A q \in Orders \ {o} : create'[q] = create[q]
      /\ create[o].pc \in SettlingPcs /\ create'[o].pc \in SettlingPcs
      /\ o \in WorksOn(o)
  BY Blocks, BlockFills, BlockWorks DEF Alone
<1>2. x # o => RestOf(x)' = RestOf(x)
  BY <1>1 DEF RestOf
<1>3. CASE create[o].pc = "remainder"
  <2>1. OrderSeen(o, o)' = [OrderSeen(o, o) EXCEPT !.status = "CANCELLED"]
        /\ \A y \in Orders \ {o} : OrderSeen(o, y)' = OrderSeen(o, y)
    BY <1>3, BlockOrders
  <2>2. OrderSeen(o, o)'.status = "CANCELLED"
    <3>1. OrderSeen(o, o) \in OrderRow
      BY CallTypes
    <3> QED
      BY <2>1, <3>1 DEF OrderRow
  <2> QED
    BY <1>2, <2>1, <2>2
<1>4. CASE create[o].pc # "remainder"
  <2>1. RestOf(o)' = RestOf(o)
    <3>1. KeepsRest(o)
      BY <1>4, ExactBlocks DEF Exact, Moves
    <3> QED
      BY <1>1, <3>1 DEF RestOf, KeepsRest
  <2>2. ASSUME OrderSeen(o, x).status = "CANCELLED"
        PROVE  OrderSeen(o, x)'.status = "CANCELLED"
    <3>1. CASE create[o].pc \in {"maker", "taker"}
      <4>1. PICK m : m = NextFill(o).maker
        OBVIOUS
      <4>2. x # o /\ (create[o].pc = "maker" => x # m)
        <5>1. ASSUME x = o \/ (create[o].pc = "maker" /\ x = m) PROVE FALSE
          <6>1. x \in WorksOn(o)
            BY <1>1, <3>1, <4>1, <5>1, BlockWorks
          <6>2. OrderSeen(o, x).status \in OpenStatuses
            BY <3>1, <4>1, <5>1, <6>1, FillFits
          <6> QED
            BY <2>2, <6>2 DEF OpenStatuses
        <5> QED
          BY <5>1
      <4>3. OrderSeen(o, x)' = OrderSeen(o, x)
        BY <3>1, <4>1, <4>2, BlockOrders
      <4> QED
        BY <2>2, <4>3
    <3>2. CASE create[o].pc \notin {"maker", "taker"}
      BY <1>4, <2>2, <3>2, BlockOrders
    <3> QED
      BY <3>1, <3>2
  <2> QED
    BY <1>2, <2>1, <2>2
<1> QED
  BY <1>3, <1>4

\* A block takes nothing from the engine.
LEMMA BlockMirrors ==
    ASSUME Inv, FillsInv, ShapeInv, NEW o \in Orders, Block(o), OthersStay(o),
           NEW x \in Orders, AllCovered(x), KeepsCancelled(x)
    PROVE  KeepsCancelled(x)' /\ (Aligned(x) => Aligned(x)')
<1>1. /\ order' = order /\ book' = book /\ o \in Calls
      /\ create[o].pc \in SettlingPcs /\ create'[o].pc \in SettlingPcs
      /\ Unsettled(o)' = Unsettled(o)
  BY Blocks, BlockFills, BlockUnsettled DEF Alone, db, engine, Calls
<1>2. x \in WorksOn(o) => OrderCovered(o, x)
  BY <1>1 DEF AllCovered, CallCovered
<1>3. /\ OrderSeen(o, x).status = "CANCELLED" => OrderSeen(o, x)'.status = "CANCELLED"
      /\ OrderSeen(o, x)'.status # "CANCELLED" => RestOf(x)' = RestOf(x)
  BY <1>2, BlockCancels
<1>4. KeepsCancelled(x)' /\ (NoCancel(x)' => NoCancel(x))
  BY <1>1, <1>3, CancelledStays
<1>5. NoCancel(x)' => RestOf(x)' = RestOf(x)
  BY <1>1, <1>3 DEF NoCancel, Calls
<1>6. create'[x].pc # "placed" => create[x].pc # "placed"
  BY <1>1 DEF OthersStay, SettlingPcs
<1> QED
  BY <1>1, <1>4, <1>5, <1>6, AlignedStays

\* A request that is received changes neither orders nor engine.
LEMMA ReceiveOrderMirrors ==
    ASSUME Inv, FillsInv, NEW o \in Orders, ReceiveOrder(o), OthersStay(o),
           NEW x \in Orders, KeepsCancelled(x)
    PROVE  KeepsCancelled(x)' /\ (Aligned(x) => Aligned(x)')
<1>1. /\ create[o].pc = "new" /\ create'[o].pc \in {"rejected", "placing"}
      /\ create'[o].fills = {} /\ o \in Calls
      /\ UNCHANGED <<order, book, tx>>
  BY DEF ReceiveOrder, db, engine, Handler, Calls, Inv, TypeInv, TypeOK
<1>2. create[o].fills = {}
  BY <1>1 DEF FillsInv, SettlementsOK, FillsOf, SettlingPcs
<1>3. Unsettled(o)' = Unsettled(o)
  BY <1>1, <1>2 DEF Unsettled
<1>4. OrderSeen(o, x)' = OrderSeen(o, x)
  BY <1>1 DEF OrderSeen
<1>5. RestOf(x)' = RestOf(x) /\ (create'[x].pc # "placed" => create[x].pc # "placed")
  BY <1>1 DEF RestOf, SettlingPcs, OthersStay
<1> QED
  BY <1>1, <1>3, <1>4, <1>5, CancelledStays, AlignedStays

\* A cancellation that only marks its order leaves the book.
LEMMA MarkMirrors ==
    ASSUME Inv, NEW c \in CancelCalls, ReceiveCancel(c) \/ MarkCancelled(c), OthersStay(c),
           NEW x \in Orders, KeepsCancelled(x)
    PROVE  KeepsCancelled(x)' /\ (Aligned(x) => Aligned(x)')
<1>1. UNCHANGED <<order, book, create>> /\ c \in Calls /\ c \notin Orders
  BY ExchangeAssumption DEF ReceiveCancel, MarkCancelled, db, engine, Calls
<1>2. OrderSeen(c, x)' = OrderSeen(c, x) \/ OrderSeen(c, x)'.status = "CANCELLED"
  <2>1. CASE ReceiveCancel(c)
    BY <2>1 DEF ReceiveCancel, OrderSeen, db
  <2>2. CASE MarkCancelled(c)
    <3>1. PICK y \in Orders : y = target[c]
      BY DEF Inv, TypeInv, TypeOK
    <3>2. tx[c] \in Tx /\ order[y] \in OrderRow
      BY <1>1, <2>2 DEF Inv, TypeInv, TypeOK
    <3>3. tx'[c].order = [tx[c].order EXCEPT ![y] = [order[y] EXCEPT !.status = "CANCELLED"]]
      BY <1>1, <2>2, <3>1, <3>2 DEF MarkCancelled, Inv, TypeInv, TypeOK, Tx
    <3>4. /\ tx'[c].order[y] = [order[y] EXCEPT !.status = "CANCELLED"]
          /\ x # y => tx'[c].order[x] = tx[c].order[x]
      BY <3>2, <3>3 DEF Tx
    <3>5. tx'[c].order[y].status = "CANCELLED" /\ tx'[c].order[y] # NoOrder
      BY <3>2, <3>4 DEF OrderRow, NoOrder
    <3> QED
      BY <1>1, <3>4, <3>5 DEF OrderSeen
  <2> QED
    BY <2>1, <2>2
<1>3. KeepsCancelled(x)' /\ (NoCancel(x)' => NoCancel(x))
  BY <1>1, <1>2, CancelledStays
<1>4. RestOf(x)' = RestOf(x)
  BY <1>1 DEF RestOf
<1> QED
  BY <1>1, <1>3, <1>4, AlignedStays

\* A cancellation takes its order off the book.
LEMMA ReleaseMirrors ==
    ASSUME Inv, GuardInv, FillsInv, ShapeInv, NEW c \in CancelCalls, ReleaseHold(c), OthersStay(c),
           NEW x \in Orders, AllCovered(x), KeepsCancelled(x)
    PROVE  KeepsCancelled(x)' /\ (Aligned(x) => Aligned(x)')
<1>1. /\ c \in Calls /\ c \notin Orders /\ cancel[c].pc = "marked" /\ target[c] \in Orders
      /\ order' = order /\ book' = {e \in book : e.id # target[c]}
      /\ tx'[c].order = tx[c].order /\ create' = create
  BY ReleaseEffect DEF ReleaseHold
<1>2. OrderSeen(c, x)' = OrderSeen(c, x)
  BY <1>1 DEF OrderSeen
<1>3. KeepsCancelled(x)' /\ (NoCancel(x)' => NoCancel(x))
  BY <1>1, <1>2, CancelledStays
<1>4. CASE x = target[c]
  <2>1. x \in WorksOn(c)
    BY <1>1, <1>4 DEF WorksOn, InFlight, CancelEnds
  <2>2. OrderSeen(c, x).status = "CANCELLED"
    BY <1>1, <1>4, <2>1 DEF AllCovered, CallCovered, CancelCovered
  <2>3. ~NoCancel(x)'
    BY <1>1, <1>2, <2>2 DEF NoCancel, Calls
  <2> QED
    BY <1>3, <2>3 DEF Aligned
<1>5. CASE x # target[c]
  <2>1. OfferIn(book', x) = OfferIn(book, x)
    <3>1. PICK bk : bk = book'
      OBVIOUS
    <3>2. Distinct(book)
      BY BookOffers DEF Offering, ShapeInv
    <3>3. IsFiniteSet(bk)
      BY <1>1, <3>1, <3>2, FS_Subset DEF Distinct
    <3>4. Distinct(bk)
      BY <1>1, <3>1, <3>2, <3>3 DEF Distinct
    <3>5. OfferIn(bk, x) = OfferIn(book, x)
      BY <1>1, <1>5, <3>1, <3>2, <3>4, OfferSame
    <3> QED
      BY <3>1, <3>5
  <2>2. RestOf(x)' = RestOf(x)
    BY <1>1 DEF RestOf
  <2> QED
    BY <1>1, <1>3, <2>1, <2>2, AlignedStays
<1> QED
  BY <1>4, <1>5

\* A submit takes from the book what it matches, and puts the rest on it.
LEMMA SubmitMirrors ==
    ASSUME Inv, FillsInv, ShapeInv, NEW o \in Orders, SubmitOrder(o), OthersStay(o),
           NEW x \in Orders, Single(x), KeepsCancelled(x)
    PROVE  KeepsCancelled(x)' /\ (Aligned(x) => Aligned(x)')
<1> DEFINE T == TradesWith(book, TakerOf(o))
<1>1. /\ UNCHANGED <<order, request, tx>> /\ create[o].pc = "placed" /\ o \in Calls
      /\ o \in WorksOn(o)
  BY SubmitEffect DEF Calls, WorksOn, InFlight, CreateEnds
<1>2. OrderSeen(o, x)' = OrderSeen(o, x)
  BY <1>1 DEF OrderSeen
<1>3. KeepsCancelled(x)' /\ (NoCancel(x)' => NoCancel(x))
  BY <1>1, <1>2, CancelledStays
<1>4. /\ Unsettled(o)' = T /\ EntriesOK
      /\ x \in Placed' <=> x \in Placed
  BY <1>1, SubmitExact DEF ShapeInv, Placed
<1>5. /\ Matching' \subseteq Matching \cup T /\ Matching \cap T = {}
      /\ IsFiniteSet(T) /\ T \subseteq Trade /\ VolumeOf(o, Matching) = 0
  BY SubmitMatching
<1>6. IsFiniteSet(Matching) /\ Matching \subseteq Trade /\ IsFiniteSet(book) /\ book \subseteq BookEntry
  BY MatchingType DEF Inv, TypeInv, TypeOK
<1>7. /\ IsFiniteSet(book') /\ book' \subseteq BookEntry
  BY SubmitBook
<1> HIDE DEF T
<1>8. /\ OfferIn(book, x) \in Nat /\ OfferIn(book', x) \in Nat
      /\ VolumeOf(x, Matching) \in Nat /\ VolumeOf(x, T) \in Nat
  BY <1>5, <1>6, <1>7, OfferType, VolumeType
<1>9. CASE x = o
  <2>1. VolumeOf(o, Matching') = VolumeOf(o, T)
    <3>1. \A q \in Calls \ {o} : o \notin WorksOn(q)
      BY <1>1, <1>9 DEF Single
    <3> QED
      BY <1>1, <1>4, <3>1, MatchingOne
  <2>2. order[o].remaining = RestOf(o)' + OfferIn(book', o) + VolumeOf(o, T)
    BY <1>4, SubmitLeaves
  <2>3. RestOf(o)' \in Nat
    BY SubmitExact
  <2>4. InEngine(o)' + RestOf(o)' = order'[o].remaining
    BY <1>1, <1>8, <1>9, <2>1, <2>2, <2>3, EngineHas
  <2> QED
    BY <1>3, <1>9, <2>4 DEF Aligned
<1>10. CASE x # o
  <2>1. VolumeOf(x, Matching') = VolumeOf(x, Matching) + VolumeOf(x, T)
    <3>1. Matching' = Matching \cup T
      <4>1. Unsettled(o) \subseteq T
        <5>1. tx[o] = NoTx /\ create[o].fills = {}
          BY <1>1, SubmitEffect DEF FillsInv, SettlementsOK, FillsOf, SettlingPcs
        <5> QED
          BY <5>1, NoTrades DEF Unsettled
      <4>2. \A q \in Orders \ {o} : Unsettled(q)' = Unsettled(q)
        BY OthersWork DEF Calls
      <4>3. \A q \in Orders : Unsettled(q) \subseteq Unsettled(q)'
        BY <1>4, <4>1, <4>2
      <4>4. Matching \subseteq Matching' /\ T \subseteq Matching'
        BY <1>4, <4>3 DEF Matching
      <4> QED
        BY <1>5, <4>4
    <3> QED
      BY <1>5, <1>6, <3>1, VolumeUnion
  <2>2. OfferIn(book, x) = OfferIn(book', x) + VolumeOf(x, T)
    BY <1>4, <1>10, SubmitLeaves
  <2>3. InEngine(x)' = InEngine(x)
    BY <1>8, <2>1, <2>2, EngineHas
  <2>4. RestOf(x)' = RestOf(x) /\ create'[x] = create[x]
    BY <1>10 DEF RestOf, OthersStay
  <2> QED
    BY <1>1, <1>3, <1>4, <2>3, <2>4 DEF Aligned
<1> QED
  BY <1>9, <1>10

\* An order that is placed has not come to the engine.
LEMMA PlaceMirrors ==
    ASSUME Inv, FreshInv, FillsInv, NEW o \in Orders, PlaceOrder(o), OthersStay(o),
           NEW x \in Orders, KeepsCancelled(x)
    PROVE  KeepsCancelled(x)' /\ (Aligned(x) => Aligned(x)')
<1>1. /\ create[o].pc = "placing" /\ create'[o].pc \in {"placed", "rejected"}
      /\ create'[o].fills = {} /\ o \in Calls /\ UNCHANGED <<book, tx>>
  BY DEF PlaceOrder, engine, Handler, Inv, TypeInv, TypeOK, Calls
<1>2. create[o].fills = {}
  BY <1>1 DEF FillsInv, SettlementsOK, FillsOf, SettlingPcs
<1>3. Unsettled(o)' = Unsettled(o)
  BY <1>1, <1>2 DEF Unsettled
<1>4. RestOf(x)' = RestOf(x)
  BY <1>1 DEF RestOf, SettlingPcs, OthersStay
<1>5. CASE order'[x] = order[x] /\ ~(x = o /\ create'[o].pc = "placed")
  <2>1. OrderSeen(o, x)' = OrderSeen(o, x)
    BY <1>1, <1>5 DEF OrderSeen
  <2>2. create'[x].pc # "placed" => create[x].pc # "placed"
    BY <1>1, <1>5 DEF OthersStay
  <2>3. KeepsCancelled(x)' /\ (NoCancel(x)' => NoCancel(x))
    BY <1>5, <2>1, CancelledStays
  <2> QED
    BY <1>1, <1>3, <1>4, <1>5, <2>2, <2>3, AlignedStays
<1>6. CASE /\ x = o /\ create'[o].pc = "placed"
           /\ order'[o] = [status |-> "OPEN", filled |-> 0,
                           remaining |-> request[o].quantity,
                           created |-> Cardinality(Placed) + 1]
  <2>1. order'[x].status # "CANCELLED"
    BY <1>6
  <2>2. KeepsCancelled(x)'
    BY <2>1 DEF KeepsCancelled
  <2>3. create'[x].pc = "placed"
    BY <1>6
  <2>4. Aligned(x)'
    BY <2>3 DEF Aligned
  <2> QED
    BY <2>2, <2>4
<1> QED
  BY <1>5, <1>6, PlacedRow

\* A commit takes from an order what it takes from what was matched of it.
LEMMA CommitMirrors ==
    ASSUME Inv, FillsInv, ShapeInv, NEW p \in Calls, InFlight(p), Commit(p), OthersStay(p),
           UNCHANGED book,
           p \in Orders => /\ create[p].pc = "fill" /\ create[p].fills = {}
                           /\ ~create[p].cancelRest /\ create'[p] = Handler("done"),
           NEW x \in Orders, Single(x), KeepsCancelled(x)
    PROVE  KeepsCancelled(x)' /\ (Aligned(x) => Aligned(x)')
<1>1. tx'[p] = NoTx /\ order'[x] = OrderSeen(p, x) /\ OrderSeen(p, x)' = order'[x]
  <2>1. tx'[p] = NoTx
    BY DEF Commit, Inv, TypeInv, TypeOK
  <2> QED
    BY <2>1, NoTxFields DEF Commit, OrderSeen
<1>2. /\ order'[x].remaining = order[x].remaining - VolumeOf(x, tx[p].trades)
      /\ x \in Placed' <=> x \in Placed
      /\ VolumeOf(x, tx[p].trades) \in Nat /\ order[x].remaining \in Nat
  <2>1. p \in Orders => create[p].pc = "fill"
    OBVIOUS
  <2> QED
    BY <2>1, CommitRows, CommitTrades, RemainingNat
<1>3. p \in Orders => Unsettled(p) = tx[p].trades /\ Unsettled(p)' = {}
  BY <1>1, NoTrades DEF Unsettled, Handler
<1>4. p \notin Orders => tx[p].trades = {}
  BY DEF Calls, FillsInv, WritesOK
<1>6. CASE x \in WorksOn(p)
  <2>1. \A q \in Calls \ {p} : x \notin WorksOn(q)
    BY <1>6 DEF Single
  <2>2. \A q \in Calls \ {p} : OrderSeen(q, x) = order[x] /\ OrderSeen(q, x)' = order'[x]
    <3>1. \A q \in Calls \ {p} : ~Wrote(q, x) /\ tx'[q] = tx[q]
      BY <2>1 DEF ShapeInv, WritesLocal, OthersStay
    <3> QED
      BY <3>1 DEF Wrote, OrderSeen
  <2>3. KeepsCancelled(x)' /\ (NoCancel(x)' => NoCancel(x))
    <3>1. KeepsCancelled(x)'
      BY <1>1, <2>2 DEF KeepsCancelled, Calls
    <3>2. NoCancel(x)' => OrderSeen(p, x).status # "CANCELLED" /\ order[x].status # "CANCELLED"
      BY <1>1 DEF NoCancel, KeepsCancelled, Calls
    <3> QED
      BY <2>2, <3>1, <3>2 DEF NoCancel
  <2>4. /\ VolumeOf(x, Matching) = VolumeOf(x, tx[p].trades)
        /\ VolumeOf(x, Matching') = 0
    BY <1>3, <1>4, <2>1, MatchingOne, NoTrades
  <2>5. OfferIn(book, x) \in Nat
    BY OfferType DEF Inv, TypeInv, TypeOK
  <2>6. InEngine(x)' = InEngine(x) - VolumeOf(x, tx[p].trades)
        /\ InEngine(x) \in Nat
    BY <1>2, <2>4, <2>5, EngineHas
  <2>7. create'[x].pc # "placed" => create[x].pc # "placed"
    BY DEF OthersStay
  <2>8. RestOf(x) \in Nat /\ RestOf(x)' = RestOf(x)
    <3>1. create[x] \in Handlers
      BY CallTypes
    <3> QED
      BY <3>1 DEF RestOf, Handlers, Handler, OthersStay
  <2> QED
    BY <1>2, <2>3, <2>6, <2>7, <2>8 DEF Aligned, OthersStay
<1>7. CASE x \notin WorksOn(p)
  <2>1. order'[x] = order[x] /\ OrderSeen(p, x)' = OrderSeen(p, x)
    BY <1>1, <1>7 DEF ShapeInv, WritesLocal, Wrote, OrderSeen
  <2>2. p \in Orders => TradesOf(x, Unsettled(p)') = TradesOf(x, Unsettled(p))
    BY <1>3, <1>7, Unmatched DEF TradesOf
  <2>3. x # p
    <3>1. p \in Orders => p \in WorksOn(p)
      BY DEF WorksOn
    <3> QED
      BY <1>7, <3>1
  <2>4. create'[x] = create[x] /\ RestOf(x)' = RestOf(x)
    BY <2>3 DEF OthersStay, RestOf
  <2> QED
    BY <2>1, <2>2, <2>4, CancelledStays, AlignedStays
<1> QED
  BY <1>6, <1>7

\* A rollback leaves the orders alone that its call did not work on.
LEMMA RollMirrors ==
    ASSUME Inv, FillsInv, ShapeInv, NEW p \in Calls, Rolls(p), NEW x \in Orders, KeepsCancelled(x)
    PROVE  /\ KeepsCancelled(x)'
           /\ x \notin UndoneNow /\ Aligned(x) => Aligned(x)'
<1>1. /\ OthersStay(p) /\ UNCHANGED <<order, book>> /\ tx'[p] = NoTx /\ InFlight(p)
      /\ ~Undone(p) /\ Undone(p)'
      /\ p \in Orders => create'[p] \in {Handler("failed"), Handler("insufficient")}
  BY RollEffect DEF db
<1>2. OrderSeen(p, x)' = order[x]
  BY <1>1, NoTxFields DEF OrderSeen
<1>3. KeepsCancelled(x)'
  BY <1>1, <1>2, CancelledStays DEF KeepsCancelled, Calls
<1>4. ASSUME x \notin UndoneNow, Aligned(x) PROVE Aligned(x)'
  <2>1. x \notin WorksOn(p)
    BY <1>1, <1>4 DEF UndoneNow
  <2>2. x # p
    <3>1. p \in Orders => p \in WorksOn(p)
      BY <1>1 DEF WorksOn
    <3> QED
      BY <2>1, <3>1
  <2>3. OrderSeen(p, x) = order[x]
    BY <2>1 DEF ShapeInv, WritesLocal, Wrote, OrderSeen
  <2>4. p \in Orders => TradesOf(x, Unsettled(p)') = TradesOf(x, Unsettled(p))
    <3>1. p \in Orders => Unsettled(p)' = {}
      BY <1>1, NoTrades DEF Unsettled, Handler
    <3> QED
      BY <2>1, <3>1, Unmatched DEF TradesOf
  <2>5. create'[x] = create[x] /\ RestOf(x)' = RestOf(x)
    BY <1>1, <2>2 DEF OthersStay, RestOf
  <2>6. NoCancel(x)' => NoCancel(x)
    BY <1>1, <1>2, <2>3, CancelledStays
  <2> QED
    BY <1>1, <1>4, <2>4, <2>5, <2>6, AlignedStays
<1> QED
  BY <1>3, <1>4
-----------------------------------------------------------------------------
(* Every step keeps the book the mirror of such orders *)

\* But for a submit no call puts anything on the book, and nothing is created again.
LEMMA ActsOnBook ==
    ASSUME Inv, FreshInv, FillsInv, NEW p \in Calls, Acts(p), ~(p \in Orders /\ SubmitOrder(p))
    PROVE  book' \subseteq book /\ \A x \in Placed : order'[x].created = order[x].created
<1>1. CASE Rolls(p)
  BY <1>1, RollEffect DEF db
<1>2. CASE p \in Orders /\ ReceiveOrder(p)
  BY <1>2 DEF ReceiveOrder, db, engine
<1>3. CASE p \in Orders /\ PlaceOrder(p)
  <2>1. p \notin Placed
    BY <1>3 DEF PlaceOrder, FreshInv, Fresh, NoRow, NoOrder, Placed
  <2>2. \A x \in Orders \ {p} : order'[x] = order[x]
    BY <1>3, PlacedRow
  <2> QED
    BY <1>3, <2>1, <2>2 DEF PlaceOrder, engine, Placed
<1>4. CASE p \in Orders /\ Block(p)
  BY <1>4, Blocks DEF Alone, db, engine
<1>5. CASE p \in Orders /\ CommitSettlement(p)
  <2>1. Commit(p) /\ create[p].pc = "fill" /\ book' = book
    BY <1>5 DEF CommitSettlement, engine
  <2>2. \A x \in Orders : order'[x].created = order[x].created
    BY <2>1, CommitRows
  <2> QED
    BY <2>1, <2>2 DEF Placed
<1>6. CASE p \in CancelCalls /\ (ReceiveCancel(p) \/ MarkCancelled(p) \/ ReleaseHold(p))
  BY <1>6 DEF ReceiveCancel, MarkCancelled, ReleaseHold, db, engine
<1>7. CASE p \in CancelCalls /\ CommitCancel(p)
  <2>1. Commit(p) /\ p \notin Orders /\ book' = book
    BY <1>7, ExchangeAssumption DEF CommitCancel, engine
  <2>2. \A x \in Orders : order'[x].created = order[x].created
    BY <2>1, CommitRows
  <2> QED
    BY <2>1, <2>2 DEF Placed
<1> QED
  BY <1>1, <1>2, <1>3, <1>4, <1>5, <1>6, <1>7 DEF Acts

\* A submit puts its order behind all others, which are older unless it was overtaken.
LEMMA SubmitInOrder ==
    ASSUME Inv, FillsInv, NEW o \in Orders, SubmitOrder(o), InOrder,
           overtaken' = overtaken \cup OvertakenNow
    PROVE  InOrder'
<1>1. /\ create[o].pc = "placed" /\ create'[o].pc \in {"done", "fill"}
      /\ order' = order /\ book' = Matched(book, TakerOf(o))
  BY SubmitEffect
<1>2. /\ Distinct(book) /\ Newcomer(book, TakerOf(o)) /\ o \in Placed
      /\ TakerOf(o).id = o /\ TakerOf(o).sequence = arrivals + 1
  BY <1>1, SubmitTaker
<1>3. \A b \in book' : \/ \E a \in book : a.id = b.id /\ a.sequence = b.sequence
                       \/ b.id = o /\ b.sequence = arrivals + 1
  <2>1. \A b \in book' : (\E a : Remains(book, TakerOf(o), a, b)) \/ Rest(book, TakerOf(o), b)
    BY <1>1, <1>2, MatchedEntries DEF Newcomer
  <2> QED
    BY <1>2, <2>1 DEF Remains, Rest
<1>4. \A b \in book : b.sequence <= arrivals /\ b.sequence \in Nat /\ b.id \in Placed /\ b.id # o
  BY <1>2 DEF FillsInv, BookOK, EntryOf, Newcomer, Inv, TypeInv, TypeOK, BookEntry
<1>5. arrivals \in Nat
  BY DEF Inv, TypeInv, TypeOK
<1>6. ASSUME NEW d \in book', NEW e \in book', d.sequence < e.sequence, e.id \notin overtaken'
      PROVE  order[d.id].created < order[e.id].created
  <2>1. CASE \E a \in book : a.id = e.id /\ a.sequence = e.sequence
    <3>1. \E a \in book : a.id = d.id /\ a.sequence = d.sequence
      BY <1>3, <1>4, <1>5, <1>6, <2>1
    <3>2. e.id \notin overtaken
      BY <1>6
    <3> QED
      BY <1>6, <2>1, <3>1, <3>2 DEF InOrder
  <2>2. CASE e.id = o /\ e.sequence = arrivals + 1
    <3>1. \E a \in book : a.id = d.id /\ a.sequence = d.sequence
      BY <1>3, <1>4, <1>5, <1>6, <2>2
    <3>2. d.id \in Placed /\ d.id # o
      BY <1>4, <3>1
    <3>3. o \notin OvertakenNow
      BY <1>6, <2>2
    <3>4. ~(order[d.id].created > order[o].created)
      BY <1>1, <3>2, <3>3 DEF OvertakenNow
    <3>5. order[d.id].created # order[o].created
      BY <1>2, <3>2 DEF FillsInv, RowsOK
    <3>6. order[d.id].created \in Nat /\ order[o].created \in Nat
      BY <3>2 DEF Placed, Inv, TypeInv, TypeOK, OrderRow
    <3> QED
      BY <2>2, <3>4, <3>5, <3>6
  <2> QED
    BY <1>3, <1>6, <2>1, <2>2
<1> QED
  BY <1>1, <1>6 DEF InOrder

\* A rebuilt book has the open orders as they were, oldest first.
LEMMA RestartMirrors ==
    ASSUME Inv, FillsInv, ShapeInv, Restart
    PROVE  InOrder' /\ \A x \in Orders : KeepsCancelled(x)' /\ Aligned(x)'
<1>1. /\ UNCHANGED <<order, request, price>> /\ \A q \in Calls : tx'[q] = NoTx
      /\ \A q \in Orders : create'[q] = IF InFlight(q) THEN Handler("lost") ELSE create[q]
      /\ book' = {EngineOrder(x, order[x].remaining, order[x].created) : x \in OpenLimitOrders}
  BY DEF Restart, db, inputs, OpenLimitOrders
<1>2. \A q \in Orders : create'[q].fills = {} /\ create'[q].pc \notin SettlingPcs \cup {"placed"}
  BY <1>1, NotOpen DEF Handler, Calls, SettlingPcs
<1>3. Matching' = {}
  BY <1>1, <1>2, NoTrades DEF Matching, Unsettled, Calls
<1>4. \A q \in Calls, x \in Orders : OrderSeen(q, x)' = order[x]
  BY <1>1, NoTxFields DEF OrderSeen
<1>5. ASSUME NEW x \in Orders PROVE KeepsCancelled(x)'
  BY <1>1, <1>4 DEF KeepsCancelled, Calls
<1>6. ASSUME NEW x \in Orders, x \in Placed', request'[x].type = "LIMIT", NoCancel(x)'
      PROVE  (InEngine(x) + RestOf(x))' = order'[x].remaining
  <2>1. RestOf(x)' = 0
    BY <1>2 DEF RestOf
  <2>2. InEngine(x)' = OfferIn(book', x) + 0
    BY <1>3, EngineHas, NoTrades
  <2>3. order[x].remaining \in Nat /\ order[x] \in OrderRow
    BY RemainingNat DEF Inv, TypeInv, TypeOK
  <2>4. CASE x \in OpenLimitOrders
    <3>1. PICK e : e = EngineOrder(x, order[x].remaining, order[x].created)
      OBVIOUS
    <3>2. e \in book' /\ e.id = x /\ e.remaining = order[x].remaining
      BY <1>1, <2>4, <3>1 DEF EngineOrder
    <3>3. \A d \in book' : d.id = x => d = e
      BY <1>1, <3>1 DEF EngineOrder
    <3>4. OfferIn(book', x) = order[x].remaining
      BY <2>3, <3>2, <3>3, OfferOne
    <3> QED
      BY <1>1, <2>1, <2>2, <2>3, <3>4
  <2>5. CASE x \notin OpenLimitOrders
    <3>1. order[x].status = "FILLED"
      <4>1. order[x].status # "CANCELLED"
        BY <1>4, <1>6 DEF NoCancel, Calls
      <4>2. order[x].status # "NONE" /\ order[x].status \notin OpenStatuses
        BY <1>1, <1>6, <2>5 DEF Placed, OpenLimitOrders
      <4> QED
        BY <2>3, <4>1, <4>2 DEF OrderRow, OrderStatuses
    <3>2. order[x].remaining = 0
      BY <3>1 DEF ShapeInv, RowsShaped, Shaped
    <3>3. \A e \in book' : e.id # x
      BY <1>1, <2>5 DEF EngineOrder
    <3>4. OfferIn(book', x) = 0
      BY <3>3, OfferNone
    <3> QED
      BY <1>1, <2>1, <2>2, <3>2, <3>4
  <2> QED
    BY <2>4, <2>5
<1>7. InOrder'
  BY <1>1 DEF InOrder, EngineOrder
<1> QED
  BY <1>5, <1>6, <1>7 DEF Aligned

\* The book has the orders that no two calls have worked on and none left adrift.
MirrorInv ==
    /\ \A x \in Orders \ shared : KeepsCancelled(x) /\ (x \notin adrift => Aligned(x))
    /\ InOrder

\* Every step of a call keeps the book the mirror of an order that no two work on.
LEMMA ActsMirror ==
    ASSUME Inv, FreshInv, GuardInv, FillsInv, ShapeInv, NEW p \in Calls, Acts(p),
           NEW x \in Orders, AllCovered(x), Single(x), KeepsCancelled(x)
    PROVE  /\ KeepsCancelled(x)'
           /\ x \notin UndoneNow /\ Aligned(x) => Aligned(x)'
<1>1. OthersStay(p)
  BY ActsAlone
<1>2. CASE p \in Orders /\ ReceiveOrder(p)
  BY <1>1, <1>2, ReceiveOrderMirrors
<1>3. CASE p \in Orders /\ PlaceOrder(p)
  BY <1>1, <1>3, PlaceMirrors
<1>4. CASE p \in Orders /\ SubmitOrder(p)
  BY <1>1, <1>4, SubmitMirrors
<1>5. CASE p \in Orders /\ Block(p)
  BY <1>1, <1>5, BlockMirrors
<1>6. CASE p \in Orders /\ CommitSettlement(p)
  <2>1. /\ create[p].pc = "fill" /\ create[p].fills = {} /\ ~create[p].cancelRest /\ Commit(p)
        /\ book' = book /\ create'[p] = Handler("done")
    BY <1>6 DEF CommitSettlement, engine, Inv, TypeInv, TypeOK
  <2>2. InFlight(p)
    BY <1>6, <2>1 DEF InFlight, CreateEnds
  <2> QED
    BY <1>1, <2>1, <2>2, CommitMirrors
<1>7. CASE p \in CancelCalls /\ (ReceiveCancel(p) \/ MarkCancelled(p))
  BY <1>1, <1>7, MarkMirrors
<1>8. CASE p \in CancelCalls /\ ReleaseHold(p)
  BY <1>1, <1>8, ReleaseMirrors
<1>9. CASE p \in CancelCalls /\ CommitCancel(p)
  <2>1. /\ cancel[p].pc = "released" /\ Commit(p) /\ book' = book /\ p \notin Orders
    BY <1>9, ExchangeAssumption DEF CommitCancel, engine
  <2>2. InFlight(p)
    BY <2>1 DEF InFlight, CancelEnds
  <2> QED
    BY <1>1, <2>1, <2>2, CommitMirrors
<1>10. CASE Rolls(p)
  BY <1>10, RollMirrors
<1> QED
  BY <1>2, <1>3, <1>4, <1>5, <1>6, <1>7, <1>8, <1>9, <1>10 DEF Acts

\* Where only more is remembered.
LEMMA MirrorSame ==
    ASSUME MirrorInv, UNCHANGED vars,
           shared \subseteq shared', adrift \subseteq adrift', overtaken \subseteq overtaken'
    PROVE  MirrorInv'
<1>1. UNCHANGED <<order, request, book, create, tx>>
  BY DEF vars, db, engine, inputs
<1>2. \A p, x : OrderSeen(p, x)' = OrderSeen(p, x)
  BY <1>1 DEF OrderSeen
<1>3. \A x : KeepsCancelled(x)' <=> KeepsCancelled(x)
  BY <1>1, <1>2 DEF KeepsCancelled, Calls
<1>4. \A x : NoCancel(x)' <=> NoCancel(x)
  BY <1>2 DEF NoCancel, Calls
<1>5. \A q : Unsettled(q)' = Unsettled(q)
  BY <1>1 DEF Unsettled, TradeOf
<1>6. Matching' = Matching
  BY <1>5 DEF Matching
<1>7. \A x : InEngine(x)' = InEngine(x) /\ RestOf(x)' = RestOf(x)
  BY <1>1, <1>6, EngineHas DEF RestOf
<1>8. \A x : Aligned(x)' <=> Aligned(x)
  BY <1>1, <1>4, <1>7 DEF Aligned, Placed
<1> QED
  BY <1>1, <1>3, <1>8 DEF MirrorInv, InOrder

\* Every step keeps the book the mirror of the orders.
LEMMA StepMirror ==
    ASSUME Inv, FreshInv, GuardInv, FillsInv, ShapeInv, OverlapInv, MirrorInv,
           [HistoryNext]_historyVars
    PROVE  MirrorInv'
<1>1. CASE UNCHANGED historyVars
  BY <1>1, MirrorSame DEF historyVars, history
<1>2. CASE HistoryNext /\ restarts' # restarts
  <2>1. Restart
    BY <1>2, StepOfCall, ActsAlone DEF HistoryNext, vars
  <2> QED
    BY <2>1, RestartMirrors DEF MirrorInv
<1>3. CASE HistoryNext /\ restarts' = restarts
  <2>1. /\ [Next]_vars /\ shared' = shared \cup Contended'
        /\ adrift' = adrift \cup UndoneNow /\ overtaken' = overtaken \cup OvertakenNow
    BY <1>3 DEF HistoryNext, Remember
  <2>2. ~Restart
    BY <1>3 DEF Restart, Inv, TypeInv, TypeOK
  <2>3. CASE \E p \in Calls : Acts(p)
    <3>1. PICK p \in Calls : Acts(p)
      BY <2>3
    <3>2. ASSUME NEW x \in Orders \ shared'
          PROVE  KeepsCancelled(x)' /\ (x \notin adrift' => Aligned(x)')
      <4>1. AllCovered(x) /\ Single(x) /\ KeepsCancelled(x) /\ (x \notin adrift => Aligned(x))
        BY <2>1, <3>2, Uncontended DEF OverlapInv, MirrorInv
      <4> QED
        BY <2>1, <3>1, <4>1, ActsMirror
    <3>3. InOrder'
      <4>1. CASE p \in Orders /\ SubmitOrder(p)
        BY <2>1, <4>1, SubmitInOrder DEF MirrorInv
      <4>2. CASE ~(p \in Orders /\ SubmitOrder(p))
        <5>1. book' \subseteq book /\ \A x \in Placed : order'[x].created = order[x].created
          BY <3>1, <4>2, ActsOnBook
        <5>2. \A e \in book : e.id \in Placed
          BY DEF FillsInv, BookOK, EntryOf
        <5> QED
          BY <2>1, <5>1, <5>2 DEF MirrorInv, InOrder
      <4> QED
        BY <4>1, <4>2
    <3> QED
      BY <3>2, <3>3 DEF MirrorInv
  <2>4. CASE UNCHANGED vars
    BY <2>1, <2>4, MirrorSame
  <2> QED
    BY <2>1, <2>2, <2>3, <2>4, StepOfCall
<1> QED
  BY <1>1, <1>2, <1>3

\* A taker with something left has taken all that its makers offer.
LEMMA TakesAll ==
    ASSUME NEW bk, Offering(bk), NEW taker \in BookEntry, taker.remaining \in Nat,
           Left(bk, taker) > 0, NEW m \in Makers(bk, taker)
    PROVE  Taken(Makers(bk, taker), taker.remaining, m) = m.remaining
<1> DEFINE makers == Makers(bk, taker)
           q == taker.remaining
<1>1. /\ Distinct(bk) /\ makers \subseteq bk /\ IsFiniteSet(makers) /\ makers \subseteq BookEntry
  BY MakersType DEF Offering, Distinct
<1>2. Offered(makers) \in Nat /\ Ahead(makers, m) \in Nat /\ m.remaining \in Nat \ {0}
  BY <1>1, OfferedType, TakenType DEF Offering, Distinct, BookEntry
<1>3. Ahead(makers, m) + m.remaining <= Offered(makers)
  <2>1. Closed(makers, makers) /\ makers # {}
    BY DEF Closed
  <2> QED
    BY <2>1, LastOf
<1>4. Offered(makers) < q
  <2>1. q - Least(q, Offered(makers)) > 0
    BY DEF Left
  <2> HIDE DEF makers
  <2> QED
    BY <1>2, <2>1 DEF Least
<1> HIDE DEF makers
<1> QED
  BY <1>2, <1>3, <1>4 DEF Taken, Least, makers

LEMMA InitMirror ==
    ASSUME HistoryInit
    PROVE  MirrorInv
<1>1. /\ order = [o \in Orders |-> NoOrder] /\ book = {} /\ tx = [p \in Calls |-> NoTx]
  BY DEF HistoryInit, Init
<1>2. \A x \in Orders : order[x].status = "NONE"
  BY <1>1 DEF NoOrder
<1> QED
  BY <1>1, <1>2 DEF MirrorInv, KeepsCancelled, Aligned, Placed, InOrder

\* The engine has of an order what its row has left or a settlement has taken
\* from it, and keeps the orders by age, unless two calls have worked on the order,
\* it is adrift, or was overtaken (matching-engine.ts, matching.service.ts 59-76,
\* settlement.service.ts).
THEOREM MirrorCorrect == HistorySpec => [](HistoryInv /\ OverlapInv /\ MirrorInv)
<1> DEFINE I == HistoryInv /\ OverlapInv /\ MirrorInv
<1>1. HistoryInit => I
  BY InitHistory, InitMirror
<1>2. I /\ [HistoryNext]_historyVars => I'
  BY StepHistory, StepOverlaps, StepMirror DEF HistoryInv
<1> QED
  BY <1>1, <1>2, PTL DEF HistorySpec

\* The entry of an order that no call works on is that of its row.
LEMMA InStepBook ==
    ASSUME HistoryInv, OverlapInv, MirrorInv, NEW x \in InStep
    PROVE  /\ \A e \in book : e.id = x =>
                x \in OpenLimitOrders /\ e.remaining = order[x].remaining
           /\ x \in OpenLimitOrders => \E e \in book : e.id = x
<1> USE DEF HistoryInv
<1>1. /\ x \in Orders \ shared /\ \A p \in Calls : x \notin WorksOn(p)
      /\ x \notin adrift
  BY DEF InStep, Busy
<1>2. create[x].pc # "placed" /\ RestOf(x) = 0
  <2>1. ~InFlight(x)
    BY <1>1 DEF WorksOn, Calls
  <2> QED
    BY <1>1, <2>1 DEF InFlight, CreateEnds, RestOf, SettlingPcs
<1>3. \A p \in Calls : OrderSeen(p, x) = order[x]
  BY <1>1 DEF ShapeInv, WritesLocal, Wrote, OrderSeen
<1>4. VolumeOf(x, Matching) = 0
  <2>1. \A t \in Matching : t.maker # x /\ t.taker # x
    BY <1>1, TradesWork DEF Matching, Calls
  <2> QED
    BY <2>1, VolumeNone
<1>5. InEngine(x) = OfferIn(book, x) + 0
  BY <1>4, EngineHas
<1>6. /\ \A e \in book : e.remaining \in Nat /\ e.remaining > 0
      /\ \A d, e \in book : d.id = e.id => d = e
  BY DEF ShapeInv, EntriesOK, FillsInv, BookOK, Inv, TypeInv, TypeOK, BookEntry
<1>7. order[x].remaining \in Nat /\ order[x] \in OrderRow
  BY <1>1, RemainingNat DEF Inv, TypeInv, TypeOK
<1>8. ASSUME x \in Placed, request[x].type = "LIMIT", order[x].status # "CANCELLED"
      PROVE  OfferIn(book, x) = order[x].remaining
  <2>1. NoCancel(x) /\ Aligned(x)
    BY <1>1, <1>3, <1>8 DEF NoCancel, MirrorInv
  <2>2. InEngine(x) + RestOf(x) = order[x].remaining
    BY <1>2, <1>8, <2>1 DEF Aligned
  <2>3. OfferIn(book, x) \in Nat
    <3>1. Distinct(book)
      BY BookOffers DEF Offering, ShapeInv
    <3> QED
      BY <3>1, OfferType DEF Distinct
  <2> QED
    BY <1>2, <1>5, <2>2, <2>3
<1>9. ASSUME NEW e \in book, e.id = x
      PROVE  x \in OpenLimitOrders /\ e.remaining = order[x].remaining
  <2>1. /\ x \in Placed /\ request[x].type = "LIMIT" /\ order[x].status # "CANCELLED"
    BY <1>1, <1>9 DEF FillsInv, BookOK, EntryOf, ShapeInv, EntriesOK, OverlapInv, AllCovered,
      RowCovered
  <2>2. OfferIn(book, x) = e.remaining
    BY <1>6, <1>9, OfferOne
  <2>3. e.remaining = order[x].remaining
    BY <1>8, <2>1, <2>2
  <2>4. order[x].status # "FILLED"
    BY <1>1, <1>6, <2>3 DEF ShapeInv, RowsShaped, Shaped
  <2> QED
    BY <1>1, <1>7, <2>1, <2>3, <2>4 DEF OpenLimitOrders, OrderRow, OrderStatuses, Placed
<1>10. ASSUME x \in OpenLimitOrders PROVE \E e \in book : e.id = x
  <2>1. /\ x \in Placed /\ request[x].type = "LIMIT" /\ order[x].status # "CANCELLED"
        /\ order[x].remaining > 0
    BY <1>1, <1>10 DEF OpenLimitOrders, OpenStatuses, Placed, ShapeInv, RowsShaped, Shaped
  <2>2. OfferIn(book, x) # 0
    BY <1>7, <1>8, <2>1
  <2> QED
    BY <2>2, OfferNone
<1> QED
  BY <1>9, <1>10

\* However many calls overlap, are cancelled, fail or are lost: the engine offers
\* of an order what the database has left of it, unless a call is working on that
\* order, two have, or one was undone since the book was built (matching.service.ts
\* 59-76 and 95-216, orders.service.ts 41-175).
THEOREM BookIsMirrored == HistorySpec => []BookMirrorsOrders
<1>1. HistoryInv /\ OverlapInv /\ MirrorInv => BookMirrorsOrders
  <2>1. ASSUME HistoryInv, OverlapInv, MirrorInv, NEW x \in InStep
        PROVE  {e.remaining : e \in {e \in book : e.id = x}}
                 = IF x \in OpenLimitOrders THEN {order[x].remaining} ELSE {}
    <3>1. /\ \A e \in book : e.id = x =>
                x \in OpenLimitOrders /\ e.remaining = order[x].remaining
          /\ x \in OpenLimitOrders => \E e \in book : e.id = x
      BY <2>1, InStepBook
    <3> QED
      BY <3>1
  <2> QED
    BY <2>1 DEF BookMirrorsOrders
<1> QED
  BY <1>1, MirrorCorrect, PTL
-----------------------------------------------------------------------------
(* The book stays uncrossed *)

\* A taker that rests does not reach what is left on the other side.
LEMMA RestClear ==
    ASSUME NEW bk, Offering(bk), NEW taker, Newcomer(bk, taker), Rests(bk, taker),
           NEW e \in Matched(bk, taker), NEW d, Remains(bk, taker, d, e), d.side # taker.side
    PROVE  ~Crosses(taker, d)
<1> DEFINE makers == Makers(bk, taker)
<1>1. /\ taker \in BookEntry /\ taker.remaining \in Nat
      /\ d \in bk /\ d.remaining \in Nat /\ e.remaining > 0
  BY RestOnBook DEF Newcomer, Remains, Offering, Distinct, BookEntry
<1>2. \A own \in Reachable(bk, taker) : own.user # taker.user
  BY DEF Rests, SelfTrade
<1>3. Left(bk, taker) > 0
  BY DEF Rests
<1>4. ASSUME Crosses(taker, d) PROVE FALSE
  <2>1. d \in Reachable(bk, taker)
    BY <1>1, <1>4 DEF Reachable
  <2>2. d \in makers
    BY <1>2, <2>1 DEF Makers
  <2>3. Taken(makers, taker.remaining, d) = d.remaining
    BY <1>1, <1>3, <2>2, TakesAll
  <2>4. e.remaining = d.remaining - Taken(makers, taker.remaining, d)
    BY <2>2 DEF Remains
  <2> QED
    BY <1>1, <2>3, <2>4
<1> QED
  BY <1>4

\* An order submitted to the book makes no pair cross that did not.
LEMMA MatchedUncrosses ==
    ASSUME NEW bk, Offering(bk), NEW taker, Newcomer(bk, taker),
           NEW b \in Matched(bk, taker), NEW a \in Matched(bk, taker),
           b.side = "BUY", a.side = "SELL", b.price >= a.price
    PROVE  \E d, e \in bk : /\ d.id = b.id /\ d.side = "BUY" /\ d.price = b.price
                            /\ e.id = a.id /\ e.side = "SELL" /\ e.price = a.price
<1> DEFINE M == Matched(bk, taker)
<1>1. /\ taker \in BookEntry /\ taker.remaining \in Nat /\ Distinct(bk)
  BY DEF Newcomer, Offering
<1>2. \A e \in M : (\E d : Remains(bk, taker, d, e)) \/ Rest(bk, taker, e)
  BY <1>1, MatchedEntries
<1>3. Offering(M) /\ (~Rests(bk, taker) => \A e \in M : \E d : Remains(bk, taker, d, e))
  BY RestOnBook
<1>4. /\ taker.side \in Sides /\ taker.price \in Nat /\ b.price \in Nat /\ a.price \in Nat
  BY <1>1, <1>3 DEF Offering, Distinct, BookEntry
<1>5. ASSUME NEW d, Remains(bk, taker, d, b), Rest(bk, taker, a), Rests(bk, taker)
      PROVE  FALSE
  <2>1. d.side = "BUY" /\ d.price = b.price /\ taker.side = "SELL" /\ taker.price = a.price
    BY <1>5 DEF Remains, Rest
  <2>2. ~Crosses(taker, d)
    BY <1>5, <2>1, RestClear
  <2> QED
    BY <1>4, <2>1, <2>2 DEF Crosses
<1>6. ASSUME Rest(bk, taker, b), NEW e, Remains(bk, taker, e, a), Rests(bk, taker)
      PROVE  FALSE
  <2>1. e.side = "SELL" /\ e.price = a.price /\ taker.side = "BUY" /\ taker.price = b.price
    BY <1>6 DEF Remains, Rest
  <2>2. ~Crosses(taker, e)
    BY <1>6, <2>1, RestClear
  <2> QED
    BY <1>4, <2>1, <2>2 DEF Crosses
<1>7. ~(Rest(bk, taker, b) /\ Rest(bk, taker, a))
  BY DEF Rest
<1>8. PICK d, e : Remains(bk, taker, d, b) /\ Remains(bk, taker, e, a)
  BY <1>2, <1>3, <1>5, <1>6, <1>7
<1> QED
  BY <1>8 DEF Remains

\* No step of a call makes orders on the book cross.
LEMMA ActsUncrosses ==
    ASSUME Inv, FreshInv, FillsInv, ShapeInv, NEW p \in Calls, Acts(p)
    PROVE  CrossingPairs' \subseteq CrossingPairs
<1>1. CASE p \in Orders /\ SubmitOrder(p)
  <2>1. create[p].pc = "placed" /\ book' = Matched(book, TakerOf(p))
    BY <1>1, SubmitEffect
  <2>2. Newcomer(book, TakerOf(p)) /\ Offering(book)
    BY <1>1, <2>1, SubmitTaker, BookOffers DEF ShapeInv
  <2>3. ASSUME NEW pair \in CrossingPairs' PROVE pair \in CrossingPairs
    <3>1. PICK b \in book', a \in book' : /\ b.side = "BUY" /\ a.side = "SELL"
                                          /\ b.price >= a.price /\ pair = <<b.id, a.id>>
      BY DEF CrossingPairs
    <3>2. PICK d \in book, e \in book : /\ d.id = b.id /\ d.side = "BUY" /\ d.price = b.price
                                        /\ e.id = a.id /\ e.side = "SELL" /\ e.price = a.price
      BY <2>1, <2>2, <3>1, MatchedUncrosses
    <3>3. <<d, e>> \in {q \in book \X book : /\ q[1].side = "BUY" /\ q[2].side = "SELL"
                                             /\ q[1].price >= q[2].price}
      BY <3>1, <3>2
    <3> QED
      BY <3>1, <3>2, <3>3 DEF CrossingPairs
  <2> QED
    BY <2>3
<1>2. CASE ~(p \in Orders /\ SubmitOrder(p))
  <2>1. book' \subseteq book
    BY <1>2, ActsOnBook
  <2> QED
    BY <2>1 DEF CrossingPairs
<1> QED
  BY <1>1, <1>2

\* An entry of the rebuilt book of an order that no call works on is the old one,
\* placed by the age of the order, and the old one is there again.
LEMMA Rebuilt ==
    ASSUME HistoryInv, OverlapInv, MirrorInv, Restart, NEW x \in InStep
    PROVE  /\ \A e \in book' : e.id = x =>
                \E d \in book : /\ d.id = x /\ d.side = e.side /\ d.price = e.price
                                /\ d.remaining = e.remaining
                                /\ e.sequence = order[x].created
           /\ \A d \in book : d.id = x =>
                \E e \in book' : /\ e.id = x /\ d.side = e.side /\ d.price = e.price
                                 /\ d.remaining = e.remaining
                                 /\ e.sequence = order[x].created
<1>1. book' = {EngineOrder(y, order[y].remaining, order[y].created) : y \in OpenLimitOrders}
  BY DEF Restart, OpenLimitOrders
<1>2. /\ \A e \in book : e.id = x => x \in OpenLimitOrders /\ e.remaining = order[x].remaining
      /\ x \in OpenLimitOrders => \E e \in book : e.id = x
  BY InStepBook
<1>3. \A d \in book : d.id = x => d.side = request[x].side /\ d.price = price[x]
  BY DEF HistoryInv, FillsInv, BookOK, EntryOf, ShapeInv, EntriesOK
<1>4. ASSUME NEW e \in book', e.id = x
      PROVE  \E d \in book : /\ d.id = x /\ d.side = e.side /\ d.price = e.price
                             /\ d.remaining = e.remaining /\ e.sequence = order[x].created
  <2>1. /\ x \in OpenLimitOrders /\ e.side = request[x].side /\ e.price = price[x]
        /\ e.remaining = order[x].remaining /\ e.sequence = order[x].created
    BY <1>1, <1>4 DEF EngineOrder
  <2> QED
    BY <1>2, <1>3, <2>1
<1>5. ASSUME NEW d \in book, d.id = x
      PROVE  \E e \in book' : /\ e.id = x /\ d.side = e.side /\ d.price = e.price
                              /\ d.remaining = e.remaining /\ e.sequence = order[x].created
  <2>1. PICK e : e = EngineOrder(x, order[x].remaining, order[x].created)
    OBVIOUS
  <2>2. e \in book'
    BY <1>1, <1>2, <1>5, <2>1
  <2> QED
    BY <1>2, <1>3, <1>5, <2>1, <2>2 DEF EngineOrder
<1> QED
  BY <1>4, <1>5

\* However many calls overlap, are cancelled, fail or are lost: no submit and no
\* cancellation lets a bid on the book reach an ask, and a restart only with an
\* order that was worked on, had been by two calls, or was adrift
\* (matching-engine.ts submit, matching.service.ts 59-76).
THEOREM BookStaysUncrossed == HistorySpec => BookUncrossed
<1> DEFINE I == HistoryInv /\ OverlapInv /\ MirrorInv
           Kept == \A pair \in CrossingPairs' \ CrossingPairs :
                        restarts' # restarts /\ ~({pair[1], pair[2]} \subseteq InStep)
<1>1. ASSUME I, [HistoryNext]_historyVars PROVE Kept
  <2>1. [Next]_vars
    BY <1>1 DEF HistoryNext, historyVars
  <2>2. CASE \E p \in Calls : Acts(p)
    BY <1>1, <2>2, ActsUncrosses DEF HistoryInv
  <2>3. CASE Restart
    <3>1. restarts' # restarts
      BY <2>3, <1>1 DEF Restart, HistoryInv, Inv, TypeInv, TypeOK
    <3>2. ASSUME NEW pair \in CrossingPairs', {pair[1], pair[2]} \subseteq InStep
          PROVE  pair \in CrossingPairs
      <4>1. PICK b \in book', a \in book' : /\ b.side = "BUY" /\ a.side = "SELL"
                                            /\ b.price >= a.price /\ pair = <<b.id, a.id>>
        BY DEF CrossingPairs
      <4>2. b.id \in InStep /\ a.id \in InStep
        BY <3>2, <4>1
      <4>3. PICK d \in book : d.id = b.id /\ d.side = b.side /\ d.price = b.price
        BY <1>1, <2>3, <4>1, <4>2, Rebuilt
      <4>4. PICK e \in book : e.id = a.id /\ e.side = a.side /\ e.price = a.price
        BY <1>1, <2>3, <4>1, <4>2, Rebuilt
      <4>5. <<d, e>> \in {q \in book \X book : /\ q[1].side = "BUY" /\ q[2].side = "SELL"
                                               /\ q[1].price >= q[2].price}
        BY <4>1, <4>3, <4>4
      <4> QED
        BY <4>1, <4>3, <4>4, <4>5 DEF CrossingPairs
    <3> QED
      BY <3>1, <3>2
  <2>4. CASE UNCHANGED vars
    BY <2>4 DEF CrossingPairs, vars, engine
  <2> QED
    BY <2>1, <2>2, <2>3, <2>4, StepOfCall
<1> QED
  BY <1>1, MirrorCorrect, PTL DEF HistorySpec, BookUncrossed

\* Two orders of the rebuilt book stand as they stood, unless one of them came to
\* the engine after a newer one was created.
LEMMA PriorityKept ==
    ASSUME HistoryInv, OverlapInv, MirrorInv, Restart,
           NEW o \in InStep \ overtaken, NEW x \in InStep \ overtaken
    PROVE  <<o, x>> \in Priority <=> <<o, x>> \in Priority'
<1>1. /\ \A d, e \in book : d.id = e.id \/ d.sequence = e.sequence => d = e
      /\ \A e \in book : e.sequence \in Nat /\ e.id \in Placed
  BY DEF HistoryInv, FillsInv, BookOK, EntryOf, Inv, TypeInv, TypeOK, BookEntry
<1>2. order[o].created \in Nat /\ order[x].created \in Nat
  BY DEF HistoryInv, Inv, TypeInv, TypeOK, OrderRow, InStep
<1>3. ASSUME NEW d \in book, NEW e \in book, d.id = o, e.id = x
      PROVE  d.sequence < e.sequence <=> order[o].created < order[x].created
  <2>1. d.sequence < e.sequence => order[o].created < order[x].created
    BY <1>3 DEF MirrorInv, InOrder
  <2>2. e.sequence < d.sequence => order[x].created < order[o].created
    BY <1>3 DEF MirrorInv, InOrder
  <2>3. d.sequence = e.sequence => o = x
    BY <1>1, <1>3
  <2>4. d.sequence \in Nat /\ e.sequence \in Nat
    BY <1>1
  <2> QED
    BY <1>2, <2>1, <2>2, <2>3, <2>4
<1>4. ASSUME <<o, x>> \in Priority PROVE <<o, x>> \in Priority'
  <2>1. PICK d \in book, e \in book : /\ d.side = e.side /\ Before(d, e)
                                      /\ d.id = o /\ e.id = x
    BY <1>4 DEF Priority
  <2>2. PICK b \in book' : /\ b.id = o /\ d.side = b.side /\ d.price = b.price
                           /\ b.sequence = order[o].created
    BY <2>1, Rebuilt
  <2>3. PICK a \in book' : /\ a.id = x /\ e.side = a.side /\ e.price = a.price
                           /\ a.sequence = order[x].created
    BY <2>1, Rebuilt
  <2>4. b.side = a.side /\ Before(b, a)
    BY <1>3, <2>1, <2>2, <2>3 DEF Before
  <2>5. <<b, a>> \in {q \in book' \X book' : q[1].side = q[2].side /\ Before(q[1], q[2])}
    BY <2>4
  <2> QED
    BY <2>2, <2>3, <2>5 DEF Priority
<1>5. ASSUME <<o, x>> \in Priority' PROVE <<o, x>> \in Priority
  <2>1. PICK b \in book', a \in book' : /\ b.side = a.side /\ Before(b, a)
                                        /\ b.id = o /\ a.id = x
    BY <1>5 DEF Priority
  <2>2. PICK d \in book : /\ d.id = o /\ d.side = b.side /\ d.price = b.price
                          /\ b.sequence = order[o].created
    BY <2>1, Rebuilt
  <2>3. PICK e \in book : /\ e.id = x /\ e.side = a.side /\ e.price = a.price
                          /\ a.sequence = order[x].created
    BY <2>1, Rebuilt
  <2>4. d.side = e.side /\ Before(d, e)
    BY <1>3, <2>1, <2>2, <2>3 DEF Before
  <2>5. <<d, e>> \in {q \in book \X book : q[1].side = q[2].side /\ Before(q[1], q[2])}
    BY <2>4
  <2> QED
    BY <2>2, <2>3, <2>5 DEF Priority
<1> QED
  BY <1>4, <1>5

\* However many calls overlap, are cancelled, fail or are lost: a restart puts the
\* orders that no call works on, that no two have and that are not adrift, back
\* with what they had left, in the priority they had unless one was overtaken
\* (matching.service.ts 59-76).
THEOREM RestartRebuildsBook == HistorySpec => RestartReproducesBook
<1> DEFINE I == HistoryInv /\ OverlapInv /\ MirrorInv
           Same == restarts' # restarts =>
                     /\ {r \in Resting : r.id \in InStep} = {r \in Resting' : r.id \in InStep}
                     /\ \A o, x \in InStep \ overtaken :
                            <<o, x>> \in Priority <=> <<o, x>> \in Priority'
<1>1. ASSUME I, [HistoryNext]_historyVars PROVE Same
  <2>1. SUFFICES ASSUME restarts' # restarts
                 PROVE  /\ \A r : r.id \in InStep => (r \in Resting <=> r \in Resting')
                        /\ \A o, x \in InStep \ overtaken :
                                <<o, x>> \in Priority <=> <<o, x>> \in Priority'
    OBVIOUS
  <2>2. Restart
    <3>1. [Next]_vars
      BY <1>1 DEF HistoryNext, historyVars
    <3>2. ~UNCHANGED vars
      BY <2>1 DEF vars
    <3>3. \A p \in Calls : ~Acts(p)
      BY <1>1, <2>1, ActsAlone DEF HistoryInv
    <3> QED
      BY <3>1, <3>2, <3>3, StepOfCall
  <2>3. ASSUME NEW r, r.id \in InStep, r \in Resting PROVE r \in Resting'
    <3>1. PICK d \in book : r = [id |-> d.id, remaining |-> d.remaining]
      BY <2>3 DEF Resting
    <3>2. PICK e \in book' : e.id = d.id /\ d.remaining = e.remaining
      BY <1>1, <2>2, <2>3, <3>1, Rebuilt
    <3> QED
      BY <3>1, <3>2 DEF Resting
  <2>4. ASSUME NEW r, r.id \in InStep, r \in Resting' PROVE r \in Resting
    <3>1. PICK e \in book' : r = [id |-> e.id, remaining |-> e.remaining]
      BY <2>4 DEF Resting
    <3>2. PICK d \in book : e.id = d.id /\ d.remaining = e.remaining
      BY <1>1, <2>2, <2>4, <3>1, Rebuilt
    <3> QED
      BY <3>1, <3>2 DEF Resting
  <2>5. \A o, x \in InStep \ overtaken : <<o, x>> \in Priority <=> <<o, x>> \in Priority'
    BY <1>1, <2>2, PriorityKept
  <2> QED
    BY <2>3, <2>4, <2>5
<1> QED
  BY <1>1, MirrorCorrect, PTL DEF HistorySpec, RestartReproducesBook
=============================================================================
