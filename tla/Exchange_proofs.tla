-------------------------- MODULE Exchange_proofs ---------------------------
(***************************************************************************)
(* For every set of traders, orders, dtos and cancellations, every fee and *)
(* slippage, and any number of calls in flight, failures and restarts: the *)
(* rows of Exchange are well formed, and its funds and holds are sound.    *)
(*                                                                         *)
(* What open transactions will change is covered by what is committed,     *)
(* balances to nothing, and is behind row locks.  Hence no available       *)
(* balance goes below zero, and the funds of each asset are conserved.     *)
(*                                                                         *)
(* An order that is not placed yet is known to no table, transaction,      *)
(* book, settlement or cancellation, so createHold never meets a hold;     *)
(* and no transaction that kept a hold active commits after another one    *)
(* closed it.  Hence a closed hold stays closed.                           *)
(***************************************************************************)
EXTENDS Exchange, SumLemmas

(* What is well formed *)

\* A settlement that is at a fill has one.
AtFill == \A o \in Orders :
    create[o].pc \in {"buyer", "seller", "maker", "taker"} => create[o].fills # {}

TypeInv == TypeOK /\ AtFill

\* The dto of a call, and the finite sets the sums range over.
LEMMA RequestType ==
    ASSUME TypeOK, NEW o \in Orders
    PROVE  /\ request[o].user \in Users /\ request[o].side \in Sides
           /\ request[o].type \in OrderTypes
           /\ request[o].price \in Nat \ {0} /\ request[o].quantity \in Nat \ {0}
           /\ price[o] \in Nat
<1>1. request[o] \in Requests /\ price[o] \in Nat
  BY DEF TypeOK
<1>2. QED
  BY <1>1, ExchangeAssumption

\* Whose funds an order reserves, and how much: an account and an amount.
LEMMA ReserveType ==
    ASSUME TypeOK, NEW o \in Orders
    PROVE  /\ HoldAccount(o) \in UserAccounts /\ HoldAccount(o) \in Accounts
           /\ \A q \in Nat : reserveAmount(o, q) \in Nat
<1>1. request[o].user \in Users /\ price[o] \in Nat
  BY RequestType
<1>2. HoldAccount(o) \in Users \X Assets
  BY <1>1 DEF HoldAccount, Assets
<1>3. \A q \in Nat : price[o] * q \in Nat
  BY <1>1
<1>4. QED
  BY <1>2, <1>3 DEF reserveAmount, UserAccounts, Accounts

\* What a settlement that has fills works on is one of them.
LEMMA NextFillType ==
    ASSUME TypeOK, NEW o \in Orders, create[o].fills # {}
    PROVE  /\ NextFill(o) \in create[o].fills
           /\ NextFill(o) \in Fill
           /\ NextFill(o).maker \in Orders
           /\ NextFill(o).price \in Nat /\ NextFill(o).quantity \in Nat \ {0}
           /\ Buyer(o) \in Orders /\ Seller(o) \in Orders
<1> DEFINE fills == create[o].fills
           places == {f.ahead : f \in fills}
<1>1. fills \subseteq Fill
  BY DEF TypeOK, Handlers
<1>2. places \subseteq Nat /\ places # {}
  BY <1>1 DEF Fill
<1>3. \E x \in places : \A y \in places : x <= y
  BY <1>2, NatLeast
<1>4. \E f \in fills : \A g \in fills : f.ahead <= g.ahead
  BY <1>3
<1>5. NextFill(o) \in fills
  BY <1>4 DEF NextFill
<1>6. NextFill(o) \in Fill
  BY <1>1, <1>5
<1>7. NextFill(o).maker \in Orders /\ NextFill(o).price \in Nat
      /\ NextFill(o).quantity \in Nat \ {0}
  BY <1>6 DEF Fill
<1>8. QED
  BY <1>5, <1>6, <1>7 DEF Buyer, Seller

\* The legs of a trade are changes of accounts.
LEMMA LegsType ==
    ASSUME TypeOK, NEW o \in Orders, create[o].fills # {}
    PROVE  Legs(o) \in [Accounts -> Int]
<1>1. NextFill(o).price \in Nat /\ NextFill(o).quantity \in Nat
  BY NextFillType
<1>2. NextFill(o).price * NextFill(o).quantity \in Nat
  BY <1>1
<1>3. \A amount \in Nat, rate \in {MakerFee, TakerFee} : FeeOf(amount, rate) \in Int
  <2>1. SUFFICES ASSUME NEW amount \in Nat, NEW rate \in Nat
                 PROVE  FeeOf(amount, rate) \in Int
    BY ExchangeAssumption
  <2>2. amount * rate \in Int /\ FeeScale \in Nat \ {0}
    BY ExchangeAssumption
  <2>3. QED
    BY <2>2 DEF FeeOf
<1>4. \A a \in Accounts, b, n \in Int : Leg(a, b, n) \in Int
  BY DEF Leg
<1>5. QED
  BY <1>1, <1>2, <1>3 DEF Legs, Leg

\* The rows a call waits for are rows.
LEMMA NeedsType ==
    ASSUME TypeInv, NEW p \in Calls
    PROVE  Needs(p) \subseteq Rows
<1>1. ASSUME NEW o \in Orders PROVE HoldRows(o) \subseteq Rows
  BY ReserveType DEF HoldRows, Rows, TypeInv
<1>2. ASSUME NEW o \in Orders, NEW x \in Orders
      PROVE  HoldRowsIfSeenActive(o, x) \subseteq Rows
  BY <1>1 DEF HoldRowsIfSeenActive
<1>3. ASSUME NEW o \in Orders PROVE CreateNeeds(o) \subseteq Rows
  <2>1. CASE create[o].pc \in {"buyer", "seller", "maker", "taker"}
    <3>1. NextFill(o).maker \in Orders /\ Buyer(o) \in Orders /\ Seller(o) \in Orders
      BY <2>1, NextFillType DEF TypeInv, AtFill
    <3>2. {<<"account", a>> : a \in LegAccounts(o)} \subseteq Rows
      BY DEF Rows, LegAccounts
    <3>3. {<<"order", NextFill(o).maker>>} \subseteq Rows /\ {<<"order", o>>} \subseteq Rows
      BY <3>1 DEF Rows
    <3>4. QED
      BY <1>2, <2>1, <3>1, <3>2, <3>3 DEF CreateNeeds
  <2>2. CASE create[o].pc \notin {"buyer", "seller", "maker", "taker"}
    <3>1. <<"account", HoldAccount(o)>> \in Rows /\ <<"order", o>> \in Rows
      BY ReserveType DEF Rows, TypeInv
    <3>2. QED
      BY <1>2, <2>2, <3>1 DEF CreateNeeds
  <2>3. QED
    BY <2>1, <2>2
<1>4. ASSUME NEW c \in CancelCalls PROVE CancelNeeds(c) \subseteq Rows
  <2>1. target[c] \in Orders
    BY DEF TypeInv, TypeOK
  <2>2. QED
    BY <1>1, <2>1 DEF CancelNeeds, Rows
<1>5. QED
  BY <1>3, <1>4 DEF Needs, Calls
-----------------------------------------------------------------------------
(* What the engine returns *)

\* What the orders in a finite set offer is a natural number.
LEMMA OfferedType ==
    ASSUME NEW S, IsFiniteSet(S), S \subseteq BookEntry
    PROVE  Offered(S) \in Nat
<1>1. [e \in S |-> e.remaining] \in [S -> Int]
  BY DEF BookEntry
<1>2. QED
  BY <1>1, NatSumType DEF Offered

\* What a taker takes of an order, and what others took before, are numbers.
LEMMA TakenType ==
    ASSUME NEW makers, IsFiniteSet(makers), makers \subseteq BookEntry,
           NEW quantity \in Nat, NEW e \in makers
    PROVE  Ahead(makers, e) \in Nat /\ Taken(makers, quantity, e) \in Int
<1>1. IsFiniteSet({f \in makers : Before(f, e)})
      /\ {f \in makers : Before(f, e)} \subseteq BookEntry
  BY FS_Subset
<1>2. Ahead(makers, e) \in Nat
  BY <1>1, OfferedType DEF Ahead
<1>3. e.remaining \in Int
  BY DEF BookEntry
<1>4. QED
  BY <1>2, <1>3 DEF Taken, Least

\* The makers of a taker are finitely many orders on the book.
LEMMA MakersType ==
    ASSUME NEW bk, IsFiniteSet(bk), bk \subseteq BookEntry, NEW taker
    PROVE  /\ Makers(bk, taker) \subseteq bk /\ IsFiniteSet(Makers(bk, taker))
           /\ Makers(bk, taker) \subseteq BookEntry
<1>1. Makers(bk, taker) \subseteq bk
  BY DEF Makers, Reachable
<1>2. QED
  BY <1>1, FS_Subset

\* The fills of a taker, and what is left of it.
LEMMA FillsType ==
    ASSUME NEW bk, IsFiniteSet(bk), bk \subseteq BookEntry,
           NEW taker \in BookEntry, taker.remaining \in Nat
    PROVE  Fills(bk, taker) \subseteq Fill /\ Left(bk, taker) \in Nat
<1> DEFINE makers == Makers(bk, taker)
<1>1. makers \subseteq bk /\ IsFiniteSet(makers) /\ makers \subseteq BookEntry
  BY MakersType
<1>2. Left(bk, taker) \in Nat
  BY <1>1, OfferedType DEF Left, Least
<1>3. ASSUME NEW f \in Fills(bk, taker) PROVE f \in Fill
  <2>1. PICK e \in makers : /\ Taken(makers, taker.remaining, e) > 0
                            /\ f = FillOf(makers, taker.remaining, e)
    BY <1>3 DEF Fills
  <2>2. Ahead(makers, e) \in Nat /\ Taken(makers, taker.remaining, e) \in Int
    BY <1>1, TakenType
  <2>3. e.id \in Orders /\ e.price \in Nat
    BY <1>1 DEF BookEntry
  <2>4. QED
    BY <2>1, <2>2, <2>3 DEF FillOf, Fill
<1>4. QED
  BY <1>2, <1>3

\* The book after a call.
LEMMA MatchedType ==
    ASSUME NEW bk, IsFiniteSet(bk), bk \subseteq BookEntry,
           NEW taker \in BookEntry, taker.remaining \in Nat
    PROVE  Matched(bk, taker) \subseteq BookEntry /\ IsFiniteSet(Matched(bk, taker))
<1> DEFINE makers == Makers(bk, taker)
           taken(e) == Taken(makers, taker.remaining, e)
           partly == {m \in makers : taken(m) < m.remaining}
           reduced == {[e EXCEPT !.remaining = @ - taken(e)] : e \in partly}
           rest == [taker EXCEPT !.remaining = Left(bk, taker)]
           resting == IF Rests(bk, taker) THEN {rest} ELSE {}
<1>1. makers \subseteq bk /\ IsFiniteSet(makers) /\ makers \subseteq BookEntry
  BY MakersType
<1>2. Matched(bk, taker) = ((bk \ makers) \cup reduced) \cup resting
  BY DEF Matched, AfterFills
<1>3. resting \subseteq BookEntry /\ IsFiniteSet(resting)
  <2>1. rest \in BookEntry
    BY FillsType DEF BookEntry
  <2>2. QED
    BY <2>1, FS_EmptySet, FS_Singleton
<1>4. reduced \subseteq BookEntry
  <2>1. SUFFICES ASSUME NEW e \in partly
                 PROVE  [e EXCEPT !.remaining = @ - taken(e)] \in BookEntry
    OBVIOUS
  <2>2. taken(e) \in Int /\ e \in BookEntry
    BY <1>1, TakenType
  <2> HIDE DEF taken
  <2>3. QED
    BY <2>2 DEF BookEntry
<1>5. IsFiniteSet(reduced)
  <2> DEFINE g == [e \in partly |-> [e EXCEPT !.remaining = @ - taken(e)]]
  <2>1. g \in Surjection(partly, reduced)
    BY Zenon DEF Surjection
  <2>2. IsFiniteSet(partly)
    BY <1>1, FS_Subset
  <2>3. QED
    BY <2>1, <2>2, FS_Surjection
<1>6. IsFiniteSet(bk \ makers)
  BY FS_Difference
<1> HIDE DEF reduced, resting, makers
<1>7. IsFiniteSet((bk \ makers) \cup reduced)
  BY <1>5, <1>6, FS_Union
<1>8. IsFiniteSet(Matched(bk, taker))
  BY <1>2, <1>3, <1>7, FS_Union
<1>9. QED
  BY <1>2, <1>3, <1>4, <1>8
-----------------------------------------------------------------------------
(* What a transaction writes *)

\* A transaction that has written nothing.
LEMMA NoTxType == NoTx \in Tx /\ NoOrder \in OrderRow /\ NoHold \in HoldRow
<1>1. ZeroBalance \in Balance /\ NoOrder \in OrderRow /\ NoHold \in HoldRow
  BY DEF ZeroBalance, Balance, NoOrder, OrderRow, OrderStatuses, NoHold, HoldRow
<1>2. QED
  BY <1>1 DEF NoTx, Tx

\* The rows a statement reads.
LEMMA SeenType ==
    ASSUME TypeOK, NEW p \in Calls, NEW o \in Orders
    PROVE  OrderSeen(p, o) \in OrderRow /\ HoldSeen(p, o) \in HoldRow
<1>1. tx[p] \in Tx /\ order[o] \in OrderRow /\ hold[o] \in HoldRow
  BY DEF TypeOK
<1>2. tx[p].order[o] \in OrderRow /\ tx[p].hold[o] \in HoldRow
  BY <1>1 DEF Tx
<1>3. QED
  BY <1>1, <1>2 DEF OrderSeen, HoldSeen

\* Applying a fill to an order row.
LEMMA AppliedType ==
    ASSUME NEW row \in OrderRow, NEW q \in Int
    PROVE  Applied(row, q) \in OrderRow
<1>1. row.filled + q \in Int /\ row.remaining - q \in Int
  BY DEF OrderRow
<1>2. "FILLED" \in OrderStatuses /\ "PARTIALLY_FILLED" \in OrderStatuses
  BY DEF OrderStatuses, OpenStatuses
<1>3. QED
  BY <1>1, <1>2 DEF Applied, OrderRow

\* reduceHold moves the amount from locked to available on one account, and
\* writes one hold row; or it writes nothing.
LEMMA ReduceHoldType ==
    ASSUME TypeOK, NEW p \in Orders, NEW o \in Orders, NEW amount \in Nat,
           NEW t \in Tx
    PROVE  reduceHold(t, p, o, amount) \in Tx
<1> DEFINE a == HoldAccount(o)
           seen == create[p].seenHold
           row == IF seen.amount - amount <= 0
                  THEN [status |-> "CONSUMED", amount |-> 0]
                  ELSE [status |-> HoldSeen(p, o).status,
                        amount |-> seen.amount - amount]
           balance == [available |-> t.delta[a].available + amount,
                       locked |-> t.delta[a].locked - amount]
<1>1. seen \in HoldRow /\ HoldSeen(p, o) \in HoldRow /\ a \in Accounts
  BY SeenType, ReserveType DEF TypeOK, Calls, Handlers
<1>2. row \in HoldRow
  BY <1>1 DEF HoldRow
<1>3. balance \in Balance
  BY <1>1 DEF Tx, Balance
<1>4. reduceHold(t, p, o, amount) =
        IF seen.status # "ACTIVE" THEN t
        ELSE [t EXCEPT !.delta = [t.delta EXCEPT ![a] = balance],
                       !.hold = [t.hold EXCEPT ![o] = row]]
  BY <1>1 DEF reduceHold, Tx
<1> HIDE DEF row, balance, a, seen
<1>5. [t.delta EXCEPT ![a] = balance] \in [Accounts -> Balance]
  BY <1>3 DEF Tx
<1>6. [t.hold EXCEPT ![o] = row] \in [Orders -> HoldRow]
  BY <1>2 DEF Tx
<1>7. QED
  BY <1>4, <1>5, <1>6 DEF Tx

\* releaseHold moves what the cancellation read from locked to available.
LEMMA ReleaseHoldType ==
    ASSUME TypeOK, NEW c \in CancelCalls
    PROVE  releaseHold(c) \in Tx
<1> DEFINE o == target[c]
           a == HoldAccount(o)
           amount == cancel[c].seenHold.amount
           row == [hold[o] EXCEPT !.status = "RELEASED"]
           change == [available |-> amount, locked |-> -amount]
<1>1. o \in Orders /\ tx[c] \in Tx /\ cancel[c] \in Cancellers /\ hold[o] \in HoldRow
  BY DEF TypeOK, Calls
<1>2. a \in Accounts
  BY <1>1, ReserveType
<1>3. change \in Balance /\ row \in HoldRow
  BY <1>1 DEF Cancellers, HoldRow, Balance
<1>4. releaseHold(c) = [tx[c] EXCEPT !.delta = [tx[c].delta EXCEPT ![a] = change],
                                     !.hold = [tx[c].hold EXCEPT ![o] = row]]
  BY <1>1, <1>2 DEF releaseHold, Tx
<1> HIDE DEF row, change, a, o
<1>5. [tx[c].delta EXCEPT ![a] = change] \in [Accounts -> Balance]
  BY <1>1, <1>3 DEF Tx
<1>6. [tx[c].hold EXCEPT ![o] = row] \in [Orders -> HoldRow]
  BY <1>1, <1>3 DEF Tx
<1>7. QED
  BY <1>1, <1>4, <1>5, <1>6 DEF Tx

\* The transaction after reduceHold of the seller, the trade and its legs.
LEMMA FillTxType ==
    ASSUME TypeInv, NEW o \in Orders, create[o].pc = "seller"
    PROVE  FillTx(o) \in Tx
<1> DEFINE t == reduceHold(tx[o], o, Seller(o), NextFill(o).quantity)
           f == NextFill(o)
<1>1. create[o].fills # {}
  BY DEF TypeInv, AtFill
<1>2. f.maker \in Orders /\ f.price \in Nat /\ f.quantity \in Nat \ {0}
      /\ Seller(o) \in Orders
  BY <1>1, NextFillType DEF TypeInv
<1>3. t \in Tx
  <2>1. tx[o] \in Tx
    BY DEF TypeInv, TypeOK, Calls
  <2>2. QED
    BY <1>2, <2>1, ReduceHoldType DEF TypeInv
<1>4. TradeOf(o, f) \in Trade
  BY <1>2 DEF TradeOf, Trade
<1>5. Legs(o) \in [Accounts -> Int]
  BY <1>1, LegsType DEF TypeInv
<1>6. FillTx(o) = [t EXCEPT !.trades = t.trades \cup {TradeOf(o, f)},
                           !.delta = [b \in Accounts |->
                                [t.delta[b] EXCEPT !.available = @ + Legs(o)[b]]]]
  BY DEF FillTx
<1> HIDE DEF t, f
<1>7. [b \in Accounts |-> [t.delta[b] EXCEPT !.available = @ + Legs(o)[b]]]
        \in [Accounts -> Balance]
  BY <1>3, <1>5 DEF Tx, Balance
<1>8. QED
  BY <1>3, <1>4, <1>6, <1>7 DEF Tx
-----------------------------------------------------------------------------
(* Type correctness *)

AtFillPcs == {"buyer", "seller", "maker", "taker"}

\* A handler that has just reached a point without fills.
LEMMA HandlerType ==
    /\ \A pc \in CreateEnds \cup {"new", "placing", "placed", "fill"} :
            Handler(pc) \in Handlers /\ Handler(pc).pc \notin AtFillPcs
    /\ \A pc \in CancelEnds \cup CancellingPcs \cup {"new"} : Canceller(pc) \in Cancellers
BY NoTxType DEF Handler, Handlers, Canceller, Cancellers, CreateEnds, SettlingPcs, AtFillPcs

\* A call moves on, its handler well formed.
LEMMA CreateMoves ==
    ASSUME TypeInv, NEW o \in Orders, NEW h \in Handlers,
           h.pc \in AtFillPcs => h.fills # {},
           create' = [create EXCEPT ![o] = h]
    PROVE  create' \in [Orders -> Handlers] /\ AtFill'
BY DEF TypeInv, TypeOK, AtFill, AtFillPcs

\* A call received: its dto resolves a price, or it is rejected.
LEMMA ReceiveOrderType ==
    ASSUME TypeInv, NEW o \in Orders, ReceiveOrder(o)
    PROVE  TypeInv'
<1>1. \A side \in Sides : BestPrice(side) \subseteq Nat
  BY DEF TypeInv, TypeOK, BookEntry, BestPrice, Opposing
<1>2. \A p \in Nat : (p * SlipNum) \div SlipDen \in Nat
  <2>1. SUFFICES ASSUME NEW p \in Nat PROVE (p * SlipNum) \div SlipDen \in Nat
    OBVIOUS
  <2>2. p * SlipNum \in Nat /\ SlipDen \in Nat \ {0}
    BY ExchangeAssumption
  <2>3. QED
    BY <2>2
<1>3. ResolvedPrice(request[o]) \subseteq Nat
  BY <1>1, <1>2, RequestType DEF ResolvedPrice, Sides, TypeInv
<1>4. \E h \in Handlers : h.pc \notin AtFillPcs /\ create' = [create EXCEPT ![o] = h]
  <2>1. Handler("rejected") \in Handlers /\ Handler("placing") \in Handlers
        /\ Handler("rejected").pc \notin AtFillPcs /\ Handler("placing").pc \notin AtFillPcs
    BY HandlerType DEF CreateEnds
  <2>2. QED
    BY <2>1 DEF ReceiveOrder
<1>5. create' \in [Orders -> Handlers] /\ AtFill'
  BY <1>4, CreateMoves
<1>6. price' \in [Orders -> Nat]
  BY <1>3 DEF ReceiveOrder, TypeInv, TypeOK
<1>7. QED
  BY <1>5, <1>6 DEF ReceiveOrder, TypeInv, TypeOK, db, engine, inputs

\* The order and its hold.
LEMMA PlaceOrderType ==
    ASSUME TypeInv, NEW o \in Orders, PlaceOrder(o)
    PROVE  TypeInv'
<1> DEFINE a == HoldAccount(o)
           amount == reserveAmount(o, request[o].quantity)
<1>1. a \in Accounts /\ amount \in Nat /\ request[o].quantity \in Nat
  BY ReserveType, RequestType DEF TypeInv
<1>2. Cardinality(Placed) \in Nat
  BY ExchangeAssumption, FS_Subset, FS_CardinalityType DEF Placed
<1>3. \E h \in Handlers : h.pc \notin AtFillPcs /\ create' = [create EXCEPT ![o] = h]
  <2>1. Handler("rejected") \in Handlers /\ Handler("placed") \in Handlers
        /\ Handler("rejected").pc \notin AtFillPcs /\ Handler("placed").pc \notin AtFillPcs
    BY HandlerType DEF CreateEnds
  <2>2. QED
    BY <2>1 DEF PlaceOrder
<1>4. create' \in [Orders -> Handlers] /\ AtFill'
  BY <1>3, CreateMoves
<1>5. account' \in [Accounts -> Balance]
  <2>1. [available |-> account[a].available - amount,
         locked |-> account[a].locked + amount] \in Balance
    BY <1>1 DEF TypeInv, TypeOK, Balance
  <2>2. QED
    BY <2>1 DEF PlaceOrder, TypeInv, TypeOK
<1>6. order' \in [Orders -> OrderRow]
  <2>1. [status |-> "OPEN", filled |-> 0, remaining |-> request[o].quantity,
         created |-> Cardinality(Placed) + 1] \in OrderRow
    BY <1>1, <1>2 DEF OrderRow, OrderStatuses, OpenStatuses
  <2>2. QED
    BY <2>1 DEF PlaceOrder, TypeInv, TypeOK
<1>7. hold' \in [Orders -> HoldRow]
  <2>1. [status |-> "ACTIVE", amount |-> amount] \in HoldRow
    BY <1>1 DEF HoldRow
  <2>2. QED
    BY <2>1 DEF PlaceOrder, TypeInv, TypeOK
<1>8. UNCHANGED <<trades, engine, inputs, price, cancel, tx, restarts>>
  BY DEF PlaceOrder
<1>9. QED
  BY <1>4, <1>5, <1>6, <1>7, <1>8 DEF TypeInv, TypeOK, engine, inputs

\* The order in the engine.
LEMMA SubmitOrderType ==
    ASSUME TypeInv, NEW o \in Orders, SubmitOrder(o)
    PROVE  TypeInv'
<1> DEFINE taker == EngineOrder(o, request[o].quantity, arrivals + 1)
           h == IF Fills(book, taker) = {} /\ Rests(book, taker) THEN Handler("done")
                ELSE [Handler("fill") EXCEPT
                        !.fills = Fills(book, taker),
                        !.left = Left(book, taker),
                        !.cancelRest = ~Rests(book, taker) /\ Left(book, taker) > 0]
<1>1. taker \in BookEntry /\ taker.remaining \in Nat
  BY RequestType DEF TypeInv, TypeOK, EngineOrder, BookEntry
<1>2. book \subseteq BookEntry /\ IsFiniteSet(book)
  BY DEF TypeInv, TypeOK
<1>3. book' = Matched(book, taker) /\ arrivals' = arrivals + 1
      /\ create' = [create EXCEPT ![o] = h]
      /\ UNCHANGED <<db, inputs, price, cancel, tx, restarts>>
  BY DEF SubmitOrder
<1> HIDE DEF taker
<1>4. book' \subseteq BookEntry /\ IsFiniteSet(book')
  BY <1>1, <1>2, <1>3, MatchedType
<1>5. h \in Handlers /\ h.pc \notin AtFillPcs
  <2>1. Fills(book, taker) \subseteq Fill /\ Left(book, taker) \in Nat
    BY <1>1, <1>2, FillsType
  <2>2. /\ Handler("done") \in Handlers /\ Handler("done").pc \notin AtFillPcs
        /\ Handler("fill") \in Handlers /\ Handler("fill").pc \notin AtFillPcs
    BY HandlerType DEF CreateEnds
  <2>3. (~Rests(book, taker) /\ Left(book, taker) > 0) \in BOOLEAN
    OBVIOUS
  <2>4. QED
    BY <2>1, <2>2, <2>3 DEF Handlers
<1> HIDE DEF h
<1>6. create' \in [Orders -> Handlers] /\ AtFill'
  BY <1>3, <1>5, CreateMoves
<1>7. QED
  BY <1>3, <1>4, <1>6 DEF TypeInv, TypeOK, db, inputs
\* One more block of a settlement.
LEMMA SettleType ==
    ASSUME TypeInv, NEW o \in Orders, NEW t \in Tx, NEW h \in Handlers,
           h.pc \in AtFillPcs => h.fills # {},
           Settle(o, t, h)
    PROVE  TypeInv'
<1>1. create' \in [Orders -> Handlers] /\ AtFill'
  BY CreateMoves DEF Settle
<1>2. tx' \in [Calls -> Tx]
  <2>1. o \in Calls /\ t.rows \cup Needs(o) \subseteq Rows
    BY NeedsType DEF Calls, Tx
  <2>2. [t EXCEPT !.rows = t.rows \cup Needs(o)] \in Tx
    BY <2>1 DEF Tx
  <2>3. tx' = [tx EXCEPT ![o] = [t EXCEPT !.rows = t.rows \cup Needs(o)]]
    BY DEF Settle
  <2>4. tx \in [Calls -> Tx]
    BY DEF TypeInv, TypeOK
  <2>5. QED
    BY <2>2, <2>3, <2>4
<1>3. UNCHANGED <<db, engine, inputs, price, cancel, restarts>>
  BY DEF Settle
<1>4. QED
  BY <1>1, <1>2, <1>3 DEF TypeInv, TypeOK, db, engine, inputs

\* The handler of a settlement is well formed, and so is what it read.
LEMMA SettlingType ==
    ASSUME TypeInv, NEW o \in Orders
    PROVE  /\ o \in Calls /\ tx[o] \in Tx /\ create[o] \in Handlers
           /\ create[o].seenOrder \in OrderRow
           /\ \A x \in Orders : OrderSeen(o, x) \in OrderRow /\ HoldSeen(o, x) \in HoldRow
<1>1. o \in Calls /\ tx[o] \in Tx /\ create[o] \in Handlers
  BY DEF TypeInv, TypeOK, Calls
<1>2. QED
  BY <1>1, SeenType DEF TypeInv, Handlers

LEMMA ReadBuyerHoldType ==
    ASSUME TypeInv, NEW o \in Orders, ReadBuyerHold(o)
    PROVE  TypeInv'
<1> DEFINE h == [create[o] EXCEPT !.pc = "buyer", !.seenHold = HoldSeen(o, Buyer(o))]
<1>1. Buyer(o) \in Orders /\ create[o].fills # {}
  BY NextFillType DEF ReadBuyerHold, TypeInv
<1>2. h \in Handlers /\ h.fills # {}
  BY <1>1, SettlingType DEF Handlers, SettlingPcs
<1>3. QED
  BY <1>2, SettlingType, SettleType DEF ReadBuyerHold

LEMMA ReduceBuyerHoldType ==
    ASSUME TypeInv, NEW o \in Orders, ReduceBuyerHold(o)
    PROVE  TypeInv'
<1> DEFINE h == [create[o] EXCEPT !.pc = "seller", !.seenHold = HoldSeen(o, Seller(o))]
           amount == reserveAmount(Buyer(o), NextFill(o).quantity)
           t == reduceHold(tx[o], o, Buyer(o), amount)
<1>1. create[o].fills # {}
  BY DEF ReduceBuyerHold, TypeInv, AtFill
<1>2. Buyer(o) \in Orders /\ Seller(o) \in Orders /\ NextFill(o).quantity \in Nat
  BY <1>1, NextFillType DEF TypeInv
<1>3. h \in Handlers /\ h.fills # {}
  BY <1>1, <1>2, SettlingType DEF Handlers, SettlingPcs
<1>4. amount \in Nat
  BY <1>2, ReserveType DEF TypeInv
<1>5. t \in Tx
  BY <1>2, <1>4, SettlingType, ReduceHoldType DEF TypeInv
<1>6. Settle(o, t, h)
  BY DEF ReduceBuyerHold
<1>7. QED
  BY <1>3, <1>5, <1>6, SettleType

LEMMA PostFillType ==
    ASSUME TypeInv, NEW o \in Orders, PostFill(o)
    PROVE  TypeInv'
<1> DEFINE h == [create[o] EXCEPT !.pc = "maker",
                                  !.seenOrder = OrderSeen(o, NextFill(o).maker)]
<1>1. create[o].fills # {} /\ create[o].pc = "seller"
  BY DEF PostFill, TypeInv, AtFill
<1>2. NextFill(o).maker \in Orders
  BY <1>1, NextFillType DEF TypeInv
<1>3. h \in Handlers /\ h.fills # {}
  BY <1>1, <1>2, SettlingType DEF Handlers, SettlingPcs
<1>4. FillTx(o) \in Tx
  BY <1>1, FillTxType
<1>5. Settle(o, FillTx(o), h)
  BY DEF PostFill
<1>6. QED
  BY <1>3, <1>4, <1>5, SettleType

\* A transaction that writes an order row.
LEMMA OrderWriteType ==
    ASSUME NEW t \in Tx, NEW x \in Orders, NEW row \in OrderRow
    PROVE  [t EXCEPT !.order[x] = row] \in Tx
<1>1. [t.order EXCEPT ![x] = row] \in [Orders -> OrderRow]
  BY DEF Tx
<1>2. QED
  BY <1>1 DEF Tx

LEMMA FillMakerType ==
    ASSUME TypeInv, NEW o \in Orders, FillMaker(o)
    PROVE  TypeInv'
<1> DEFINE f == NextFill(o)
           row == Applied(create[o].seenOrder, f.quantity)
           t == [tx[o] EXCEPT !.order[f.maker] = row]
           h == [create[o] EXCEPT !.pc = "taker", !.seenOrder = OrderSeen(o, o)]
<1>1. create[o].fills # {} /\ Settle(o, t, h)
  BY DEF FillMaker, TypeInv, AtFill
<1>2. f.maker \in Orders /\ f.quantity \in Nat
  BY <1>1, NextFillType DEF TypeInv
<1>3. row \in OrderRow
  BY <1>2, AppliedType, SettlingType
<1>4. h \in Handlers /\ h.fills # {}
  BY <1>1, SettlingType DEF Handlers, SettlingPcs
<1> HIDE DEF f, row, h
<1>5. t \in Tx
  BY <1>2, <1>3, SettlingType, OrderWriteType
<1> HIDE DEF t
<1>6. QED
  BY <1>1, <1>4, <1>5, SettleType

LEMMA FillTakerType ==
    ASSUME TypeInv, NEW o \in Orders, FillTaker(o)
    PROVE  TypeInv'
<1> DEFINE f == NextFill(o)
           row == Applied(create[o].seenOrder, f.quantity)
           t == [tx[o] EXCEPT !.order[o] = row]
           h == [create[o] EXCEPT !.pc = "fill", !.fills = @ \ {f},
                                  !.seenHold = NoHold, !.seenOrder = NoOrder]
<1>1. create[o].fills # {} /\ Settle(o, t, h)
  BY DEF FillTaker, TypeInv, AtFill
<1>2. f.quantity \in Nat
  BY <1>1, NextFillType DEF TypeInv
<1>3. row \in OrderRow
  BY <1>2, AppliedType, SettlingType
<1>4. h \in Handlers /\ h.pc \notin AtFillPcs
  BY SettlingType, NoTxType DEF Handlers, SettlingPcs, AtFillPcs
<1> HIDE DEF f, row, h
<1>5. t \in Tx
  BY <1>3, SettlingType, OrderWriteType
<1> HIDE DEF t
<1>6. QED
  BY <1>1, <1>4, <1>5, SettleType

LEMMA ReadRemainderHoldType ==
    ASSUME TypeInv, NEW o \in Orders, ReadRemainderHold(o)
    PROVE  TypeInv'
<1> DEFINE h == [create[o] EXCEPT !.pc = "remainder", !.seenHold = HoldSeen(o, o)]
<1>1. h \in Handlers /\ h.pc \notin AtFillPcs
  BY SettlingType DEF Handlers, SettlingPcs, AtFillPcs
<1>2. QED
  BY <1>1, SettlingType, SettleType DEF ReadRemainderHold

LEMMA CancelRemainderType ==
    ASSUME TypeInv, NEW o \in Orders, CancelRemainder(o)
    PROVE  TypeInv'
<1> DEFINE amount == reserveAmount(o, create[o].left)
           r == reduceHold(tx[o], o, o, amount)
           row == [OrderSeen(o, o) EXCEPT !.status = "CANCELLED"]
           t == [r EXCEPT !.order[o] = row]
           h == [create[o] EXCEPT !.pc = "fill", !.cancelRest = FALSE,
                                  !.seenHold = NoHold]
<1>1. Settle(o, t, h)
  BY DEF CancelRemainder
<1>2. h \in Handlers /\ h.pc \notin AtFillPcs
  BY SettlingType, NoTxType DEF Handlers, SettlingPcs, AtFillPcs
<1>3. row \in OrderRow
  BY SettlingType DEF OrderRow, OrderStatuses
<1>4. amount \in Nat
  BY SettlingType, ReserveType DEF TypeInv, Handlers
<1> HIDE DEF amount, row, h
<1>5. r \in Tx
  BY <1>4, SettlingType, ReduceHoldType DEF TypeInv
<1> HIDE DEF r
<1>6. t \in Tx
  BY <1>3, <1>5, OrderWriteType
<1> HIDE DEF t
<1>7. QED
  BY <1>1, <1>2, <1>6, SettleType
\* The rows a transaction leaves when it commits.
LEMMA CommitType ==
    ASSUME TypeOK, NEW p \in Calls, Commit(p)
    PROVE  /\ account' \in [Accounts -> Balance]
           /\ order' \in [Orders -> OrderRow]
           /\ hold' \in [Orders -> HoldRow]
           /\ trades' \subseteq Trade
           /\ tx' \in [Calls -> Tx]
<1>1. tx \in [Calls -> Tx] /\ tx[p].delta \in [Accounts -> Balance]
      /\ tx[p].trades \subseteq Trade
  BY DEF TypeOK, Tx
<1>2. account' \in [Accounts -> Balance]
  BY <1>1 DEF Commit, TypeOK, Balance
<1>3. order' \in [Orders -> OrderRow] /\ hold' \in [Orders -> HoldRow]
  BY SeenType DEF Commit
<1>4. tx' \in [Calls -> Tx]
  BY <1>1, NoTxType DEF Commit
<1>5. QED
  BY <1>1, <1>2, <1>3, <1>4 DEF Commit, TypeOK

LEMMA CommitSettlementType ==
    ASSUME TypeInv, NEW o \in Orders, CommitSettlement(o)
    PROVE  TypeInv'
<1>1. o \in Calls /\ Commit(o) /\ create' = [create EXCEPT ![o] = Handler("done")]
      /\ UNCHANGED <<engine, inputs, price, cancel, restarts>>
  BY DEF CommitSettlement, Calls
<1>2. create' \in [Orders -> Handlers] /\ AtFill'
  <2>1. Handler("done") \in Handlers /\ Handler("done").pc \notin AtFillPcs
    BY HandlerType DEF CreateEnds
  <2>2. QED
    BY <1>1, <2>1, CreateMoves
<1>3. QED
  BY <1>1, <1>2, CommitType DEF TypeInv, TypeOK, engine, inputs

\* A settlement that ends without a commit.
LEMMA SettlementShortType ==
    ASSUME TypeInv, NEW o \in Orders, SettlementShort(o)
    PROVE  TypeInv'
<1>1. create' \in [Orders -> Handlers] /\ AtFill'
  <2>1. Handler("insufficient") \in Handlers /\ Handler("insufficient").pc \notin AtFillPcs
    BY HandlerType DEF CreateEnds
  <2>2. QED
    BY <2>1, CreateMoves DEF SettlementShort
<1>2. tx' \in [Calls -> Tx]
  BY NoTxType DEF SettlementShort, TypeInv, TypeOK
<1>3. UNCHANGED <<db, engine, inputs, price, cancel, restarts>>
  BY DEF SettlementShort
<1>4. QED
  BY <1>1, <1>2, <1>3 DEF TypeInv, TypeOK, db, engine, inputs

LEMMA CreateType ==
    ASSUME TypeInv, NEW o \in Orders, CreateStep(o)
    PROVE  TypeInv'
BY PlaceOrderType, SubmitOrderType, ReadBuyerHoldType, ReduceBuyerHoldType,
   PostFillType, SettlementShortType, FillMakerType, FillTakerType,
   ReadRemainderHoldType, CancelRemainderType, CommitSettlementType DEF CreateStep

\* The steps of a cancellation.
LEMMA CancelType ==
    ASSUME TypeInv, NEW c \in CancelCalls, ReceiveCancel(c) \/ CancelStep(c)
    PROVE  TypeInv'
<1>1. c \in Calls /\ target[c] \in Orders /\ tx \in [Calls -> Tx] /\ tx[c] \in Tx
      /\ cancel \in [CancelCalls -> Cancellers] /\ cancel[c] \in Cancellers
      /\ hold[target[c]] \in HoldRow /\ order[target[c]] \in OrderRow
      /\ Needs(c) \subseteq Rows
  BY NeedsType DEF TypeInv, TypeOK, Calls
<1>2. CASE ReceiveCancel(c)
  <2>1. Canceller("checked") \in Cancellers /\ Canceller("refused") \in Cancellers
    BY HandlerType DEF CancelEnds, CancellingPcs
  <2>2. cancel' \in [CancelCalls -> Cancellers]
    BY <1>1, <1>2, <2>1 DEF ReceiveCancel
  <2>3. UNCHANGED <<db, engine, inputs, price, create, tx, restarts>>
    BY <1>2 DEF ReceiveCancel
  <2>4. QED
    BY <2>2, <2>3 DEF TypeInv, TypeOK, AtFill, db, engine, inputs
<1>3. CASE MarkCancelled(c)
  <2> DEFINE row == [order[target[c]] EXCEPT !.status = "CANCELLED"]
             t == [[tx[c] EXCEPT !.order[target[c]] = row] EXCEPT !.rows = Needs(c)]
  <2>1. row \in OrderRow
    BY <1>1 DEF OrderRow, OrderStatuses
  <2>2. [tx[c] EXCEPT !.order[target[c]] = row] \in Tx
    BY <1>1, <2>1, OrderWriteType
  <2>3. t \in Tx
    BY <1>1, <2>2 DEF Tx
  <2>4. tx' = [tx EXCEPT ![c] = t]
    BY <1>1, <1>3 DEF MarkCancelled
  <2> HIDE DEF t
  <2>5. tx' \in [Calls -> Tx]
    BY <1>1, <2>3, <2>4
  <2>6. [pc |-> "marked", seenHold |-> hold[target[c]]] \in Cancellers
    BY <1>1 DEF Cancellers, CancellingPcs
  <2>7. cancel' \in [CancelCalls -> Cancellers]
        /\ UNCHANGED <<db, engine, inputs, price, create, restarts>>
    BY <1>1, <1>3, <2>6 DEF MarkCancelled
  <2>8. QED
    BY <2>5, <2>7 DEF TypeInv, TypeOK, AtFill, db, engine, inputs
<1>4. CASE ReleaseHold(c)
  <2>1. releaseHold(c) \in Tx
    BY ReleaseHoldType DEF TypeInv
  <2>2. [releaseHold(c) EXCEPT !.rows = releaseHold(c).rows \cup Needs(c)] \in Tx
    BY <1>1, <2>1 DEF Tx
  <2>3. tx' \in [Calls -> Tx]
    BY <1>1, <1>4, <2>2 DEF ReleaseHold
  <2>4. book' \subseteq BookEntry /\ IsFiniteSet(book')
    BY <1>4, FS_Subset DEF ReleaseHold, TypeInv, TypeOK
  <2>5. Canceller("released") \in Cancellers
    BY HandlerType DEF CancellingPcs
  <2>6. cancel' \in [CancelCalls -> Cancellers]
        /\ UNCHANGED <<db, arrivals, inputs, price, create, restarts>>
    BY <1>1, <1>4, <2>5 DEF ReleaseHold
  <2>7. QED
    BY <2>3, <2>4, <2>6 DEF TypeInv, TypeOK, AtFill, db, inputs
<1>5. CASE CommitCancel(c)
  <2>1. Canceller("done") \in Cancellers
    BY HandlerType DEF CancelEnds
  <2>2. cancel' \in [CancelCalls -> Cancellers] /\ Commit(c)
        /\ UNCHANGED <<engine, inputs, price, create, restarts>>
    BY <1>1, <1>5, <2>1 DEF CommitCancel
  <2>3. QED
    BY <1>1, <2>2, CommitType DEF TypeInv, TypeOK, AtFill, engine, inputs
<1>6. QED
  BY <1>2, <1>3, <1>4, <1>5 DEF CancelStep

LEMMA FailType ==
    ASSUME TypeInv, NEW p \in Calls, FailTransaction(p)
    PROVE  TypeInv'
<1>1. tx' \in [Calls -> Tx]
  BY NoTxType DEF FailTransaction, TypeInv, TypeOK
<1>2. create' \in [Orders -> Handlers] /\ AtFill'
  <2>1. Handler("failed") \in Handlers /\ Handler("failed").pc \notin AtFillPcs
    BY HandlerType DEF CreateEnds
  <2>2. CASE p \in Orders /\ create' = [create EXCEPT ![p] = Handler("failed")]
    BY <2>1, <2>2, CreateMoves
  <2>3. CASE UNCHANGED create
    BY <2>3 DEF TypeInv, TypeOK, AtFill
  <2>4. QED
    BY <2>2, <2>3 DEF FailTransaction
<1>3. cancel' \in [CancelCalls -> Cancellers]
  <2>1. Canceller("failed") \in Cancellers
    BY HandlerType DEF CancelEnds
  <2>2. QED
    BY <2>1 DEF FailTransaction, TypeInv, TypeOK
<1>4. UNCHANGED <<db, engine, inputs, price, restarts>>
  BY DEF FailTransaction
<1>5. QED
  BY <1>1, <1>2, <1>3, <1>4 DEF TypeInv, TypeOK, db, engine, inputs

LEMMA RestartType ==
    ASSUME TypeInv, Restart
    PROVE  TypeInv'
<1>1. create' \in [Orders -> Handlers] /\ AtFill'
  <2>1. Handler("lost") \in Handlers /\ Handler("lost").pc \notin AtFillPcs
    BY HandlerType DEF CreateEnds
  <2>2. QED
    BY <2>1 DEF Restart, TypeInv, TypeOK, AtFill, AtFillPcs
<1>2. cancel' \in [CancelCalls -> Cancellers]
  <2>1. Canceller("lost") \in Cancellers
    BY HandlerType DEF CancelEnds
  <2>2. QED
    BY <2>1 DEF Restart, TypeInv, TypeOK
<1>3. tx' \in [Calls -> Tx]
  BY NoTxType DEF Restart
<1>4. book' \subseteq BookEntry /\ IsFiniteSet(book')
  <2> DEFINE open == {x \in Orders : /\ order[x].status \in OpenStatuses
                                    /\ request[x].type = "LIMIT"}
             entry(o) == EngineOrder(o, order[o].remaining, order[o].created)
             g == [o \in open |-> entry(o)]
  <2>1. \A o \in Orders : entry(o) \in BookEntry
    BY RequestType DEF TypeInv, TypeOK, OrderRow, EngineOrder, BookEntry
  <2>2. book' = {entry(o) : o \in open}
    BY DEF Restart
  <2> HIDE DEF entry
  <2>3. g \in Surjection(open, {entry(o) : o \in open})
    BY Zenon DEF Surjection
  <2>4. IsFiniteSet(open)
    BY ExchangeAssumption, FS_Subset
  <2>5. QED
    BY <2>1, <2>2, <2>3, <2>4, FS_Surjection
<1>5. arrivals' \in Nat
  BY ExchangeAssumption, FS_Subset, FS_CardinalityType DEF Restart, Placed
<1>6. restarts' \in 0 .. MaxRestarts
  BY ExchangeAssumption DEF Restart, TypeInv, TypeOK
<1>7. UNCHANGED <<db, inputs, price>>
  BY DEF Restart
<1>8. QED
  BY <1>1, <1>2, <1>3, <1>4, <1>5, <1>6, <1>7 DEF TypeInv, TypeOK, db, inputs

LEMMA InitType ==
    ASSUME Init
    PROVE  TypeInv
<1>1. account \in [Accounts -> Balance]
  BY ExchangeAssumption DEF Init, InitialAccount, UserAccounts, Accounts, Balance,
     ZeroBalance
<1>2. create \in [Orders -> Handlers] /\ cancel \in [CancelCalls -> Cancellers] /\ AtFill
  BY HandlerType DEF Init, AtFill, AtFillPcs
<1>3. QED
  BY <1>1, <1>2, NoTxType, FS_EmptySet, ExchangeAssumption DEF Init, TypeInv, TypeOK

LEMMA StepType ==
    ASSUME TypeInv, [Next]_vars
    PROVE  TypeInv'
<1>1. CASE UNCHANGED vars
  BY <1>1 DEF vars, TypeInv, TypeOK, AtFill, db, engine, inputs
<1>2. QED
  BY <1>1, ReceiveOrderType, CreateType, CancelType, FailType, RestartType DEF Next

\* The rows, the calls and the engine are well formed, and a settlement that
\* works on a fill has one.
THEOREM TypeCorrect == Spec => []TypeInv
BY InitType, StepType, PTL DEF Spec

THEOREM TypeCorrectness == Spec => []TypeOK
<1>1. TypeInv => TypeOK
  BY DEF TypeInv
<1>2. QED
  BY <1>1, TypeCorrect, PTL
-----------------------------------------------------------------------------
(* Sums over the accounts of an asset *)

\* There are finitely many accounts, the users' and the fee revenue's.
LEMMA AccountsFinite ==
    /\ IsFiniteSet(Accounts)
    /\ \A asset \in Assets : IsFiniteSet(AccountsIn(asset)) /\ AccountsIn(asset) \subseteq Accounts
<1>1. IsFiniteSet({"base"} \cup {"quote"})
  BY FS_Singleton, FS_Union
<1>2. IsFiniteSet(Assets)
  BY <1>1 DEF Assets
<1>3. IsFiniteSet(Users \cup {FeeRevenue})
  BY ExchangeAssumption, FS_Singleton, FS_Union
<1>4. IsFiniteSet(Accounts)
  BY <1>2, <1>3, FS_Product DEF Accounts
<1>5. QED
  BY <1>4, FS_Subset DEF AccountsIn

\* Balances that differ by a change have totals that differ by its total.
LEMMA TotalAdd ==
    ASSUME NEW f \in [Accounts -> Balance], NEW g \in [Accounts -> Balance],
           NEW h \in [Accounts -> Balance],
           \A a \in Accounts : h[a].available + h[a].locked
                = (f[a].available + f[a].locked) + (g[a].available + g[a].locked),
           NEW asset \in Assets
    PROVE  Total(h, asset) = Total(f, asset) + Total(g, asset)
<1> DEFINE S == AccountsIn(asset)
           fs == [a \in S |-> f[a].available + f[a].locked]
           gs == [a \in S |-> g[a].available + g[a].locked]
           hs == [a \in S |-> h[a].available + h[a].locked]
<1>1. IsFiniteSet(S) /\ S \subseteq Accounts
  BY AccountsFinite
<1>2. \A a \in S : /\ f[a].available + f[a].locked \in Int
                   /\ g[a].available + g[a].locked \in Int
                   /\ h[a].available + h[a].locked \in Int
  BY <1>1 DEF Balance
<1>3. fs \in [S -> Int] /\ gs \in [S -> Int] /\ hs \in [S -> Int]
  BY <1>2
<1>4. \A a \in S : hs[a] = fs[a] + gs[a]
  BY <1>1
<1>5. IntSum(hs, S) = IntSum(fs, S) + IntSum(gs, S)
  <2> HIDE DEF fs, gs, hs, S
  <2>1. QED
    BY ONLY <1>1, <1>3, <1>4, IntSumAdd
<1>6. QED
  BY <1>5 DEF Total

\* Moving funds between available and locked changes no total.
LEMMA TotalSame ==
    ASSUME NEW f, NEW h,
           \A a \in Accounts : h[a].available + h[a].locked = f[a].available + f[a].locked,
           NEW asset \in Assets
    PROVE  Total(h, asset) = Total(f, asset)
<1>1. AccountsIn(asset) \subseteq Accounts
  BY AccountsFinite
<1>2. [a \in AccountsIn(asset) |-> h[a].available + h[a].locked]
        = [a \in AccountsIn(asset) |-> f[a].available + f[a].locked]
  BY <1>1
<1>3. QED
  BY <1>2 DEF Total

LEMMA TotalType ==
    ASSUME NEW f \in [Accounts -> Balance], NEW asset \in Assets
    PROVE  Total(f, asset) \in Int
<1> DEFINE S == AccountsIn(asset)
           fs == [a \in S |-> f[a].available + f[a].locked]
<1>1. IsFiniteSet(S) /\ S \subseteq Accounts
  BY AccountsFinite
<1>2. \A a \in S : f[a].available + f[a].locked \in Int
  BY <1>1 DEF Balance
<1>3. fs \in [S -> Int]
  BY <1>2
<1>4. IntSum(fs, S) \in Int
  <2> HIDE DEF fs, S
  <2>1. QED
    BY <1>1, <1>3, IntSumType
<1>5. QED
  BY <1>4 DEF Total

\* A transaction that has written nothing changes no total.
LEMMA TotalZero ==
    ASSUME NEW f, \A a \in Accounts : f[a].available + f[a].locked = 0,
           NEW asset \in Assets
    PROVE  Total(f, asset) = 0
<1> DEFINE S == AccountsIn(asset)
           fs == [a \in S |-> f[a].available + f[a].locked]
<1>1. IsFiniteSet(S) /\ S \subseteq Accounts
  BY AccountsFinite
<1>2. fs \in [S -> Int] /\ \A a \in S : fs[a] = 0
  BY <1>1
<1>3. IntSum(fs, S) = 0
  <2> HIDE DEF fs, S
  <2>1. QED
    BY <1>1, <1>2, IntSumZero
<1>4. QED
  BY <1>3 DEF Total

\* One leg sums to its amount.
LEMMA LegSum ==
    ASSUME NEW S, IsFiniteSet(S), NEW to \in S, NEW amount \in Int
    PROVE  IntSum([a \in S |-> Leg(a, to, amount)], S) = amount
<1> DEFINE f == [a \in S |-> Leg(a, to, amount)]
<1>1. f \in [S -> Int] /\ f[to] = amount /\ \A a \in S : a # to => f[a] = 0
  BY DEF Leg
<1> HIDE DEF f
<1>2. IntSum(f, S) = f[to]
  BY <1>1, IntSumSingle
<1>3. QED
  BY <1>1, <1>2 DEF f

\* The sum of three functions that add up pointwise.
LEMMA ThreeSums ==
    ASSUME NEW S, IsFiniteSet(S), NEW f1 \in [S -> Int], NEW f2 \in [S -> Int],
           NEW f3 \in [S -> Int], NEW f \in [S -> Int]
    PROVE  (\A x \in S : f[x] = f1[x] + f2[x] + f3[x])
             => IntSum(f, S) = IntSum(f1, S) + IntSum(f2, S) + IntSum(f3, S)
<1> DEFINE f12 == [x \in S |-> f1[x] + f2[x]]
<1>1. f12 \in [S -> Int]
  OBVIOUS
<1>2. \A x \in S : f12[x] = f1[x] + f2[x]
  OBVIOUS
<1> HIDE DEF f12
<1>3. IntSum(f12, S) = IntSum(f1, S) + IntSum(f2, S)
  BY <1>1, <1>2, IntSumAdd
<1>4. SUFFICES ASSUME \A x \in S : f[x] = f1[x] + f2[x] + f3[x]
               PROVE  IntSum(f, S) = IntSum(f1, S) + IntSum(f2, S) + IntSum(f3, S)
  OBVIOUS
<1>5. \A x \in S : f[x] = f12[x] + f3[x]
  BY <1>2, <1>4
<1>6. IntSum(f, S) = IntSum(f12, S) + IntSum(f3, S)
  BY <1>1, <1>5, IntSumAdd
<1>7. QED
  BY <1>3, <1>6

\* ledger-design.md: the debits of a TRADE_FILL equal its credits, in both
\* assets, whatever the fees.
LEMMA LegsBalance ==
    ASSUME TypeOK, NEW o \in Orders, create[o].fills # {}, NEW asset \in Assets
    PROVE  IntSum([a \in AccountsIn(asset) |-> Legs(o)[a]], AccountsIn(asset)) = 0
<1> DEFINE S == AccountsIn(asset)
           f == NextFill(o)
           buyer == request[Buyer(o)].user
           seller == request[Seller(o)].user
           quote == f.price * f.quantity
           feeBase == FeeOf(f.quantity, IF Buyer(o) = o THEN TakerFee ELSE MakerFee)
           feeQuote == FeeOf(quote, IF Buyer(o) = o THEN MakerFee ELSE TakerFee)
<1>1. f.price \in Nat /\ f.quantity \in Nat /\ buyer \in Users /\ seller \in Users
  BY NextFillType, RequestType
<1>2. quote \in Nat
  BY <1>1
<1>3. feeBase \in Int /\ feeQuote \in Int
  <2>1. \A amount \in Nat, rate \in Nat : FeeOf(amount, rate) \in Int
    <3>1. SUFFICES ASSUME NEW amount \in Nat, NEW rate \in Nat
                   PROVE  FeeOf(amount, rate) \in Int
      OBVIOUS
    <3>2. amount * rate \in Int /\ FeeScale \in Nat \ {0}
      BY ExchangeAssumption
    <3>3. QED
      BY <3>2 DEF FeeOf
  <2>2. QED
    BY <1>1, <1>2, <2>1, ExchangeAssumption
<1>4. IsFiniteSet(S) /\ S \subseteq Accounts /\ \A a \in S : a[2] = asset
  BY AccountsFinite DEF AccountsIn
<1>5. \A a \in S : Legs(o)[a] =
            Leg(a, <<buyer, "quote">>, -quote)
            + Leg(a, <<seller, "quote">>, quote - feeQuote)
            + Leg(a, <<FeeRevenue, "quote">>, feeQuote)
            + Leg(a, <<seller, "base">>, -f.quantity)
            + Leg(a, <<buyer, "base">>, f.quantity - feeBase)
            + Leg(a, <<FeeRevenue, "base">>, feeBase)
  BY <1>4 DEF Legs
<1>6. <<buyer, asset>> \in S /\ <<seller, asset>> \in S /\ <<FeeRevenue, asset>> \in S
  BY <1>1 DEF AccountsIn, Accounts
<1> HIDE DEF quote, feeBase, feeQuote, buyer, seller, f, S
<1>7. \A u : \A n \in Int : \A a \in S : \A other \in Assets :
            other # asset => Leg(a, <<u, other>>, n) = 0
  BY <1>4 DEF Leg
<1>8. \A u : \A a \in S, n \in Int : Leg(a, <<u, asset>>, n) \in Int
  BY DEF Leg
<1>9. CASE asset = "quote"
  <2> DEFINE g1 == [a \in S |-> Leg(a, <<buyer, "quote">>, -quote)]
             g2 == [a \in S |-> Leg(a, <<seller, "quote">>, quote - feeQuote)]
             g3 == [a \in S |-> Leg(a, <<FeeRevenue, "quote">>, feeQuote)]
             g == [a \in S |-> Legs(o)[a]]
  <2>1. -quote + (quote - feeQuote) + feeQuote = 0
        /\ -quote \in Int /\ quote - feeQuote \in Int /\ feeQuote \in Int
    BY <1>2, <1>3
  <2>2. -f.quantity \in Int /\ f.quantity - feeBase \in Int /\ feeBase \in Int
    BY <1>1, <1>2, <1>3
  <2>3. ASSUME NEW a \in S PROVE g[a] = g1[a] + g2[a] + g3[a] /\ g[a] \in Int
    <3>1. /\ Leg(a, <<seller, "base">>, -f.quantity) = 0
          /\ Leg(a, <<buyer, "base">>, f.quantity - feeBase) = 0
          /\ Leg(a, <<FeeRevenue, "base">>, feeBase) = 0
      BY <1>7, <1>9, <2>2 DEF Assets
    <3>2. /\ Leg(a, <<buyer, "quote">>, -quote) \in Int
          /\ Leg(a, <<seller, "quote">>, quote - feeQuote) \in Int
          /\ Leg(a, <<FeeRevenue, "quote">>, feeQuote) \in Int
      BY <2>1 DEF Leg
    <3>3. Legs(o)[a] =
            Leg(a, <<buyer, "quote">>, -quote)
            + Leg(a, <<seller, "quote">>, quote - feeQuote)
            + Leg(a, <<FeeRevenue, "quote">>, feeQuote)
            + Leg(a, <<seller, "base">>, -f.quantity)
            + Leg(a, <<buyer, "base">>, f.quantity - feeBase)
            + Leg(a, <<FeeRevenue, "base">>, feeBase)
      BY <1>5
    <3>4. QED
      BY <3>1, <3>2, <3>3
  <2>4. g1 \in [S -> Int] /\ g2 \in [S -> Int] /\ g3 \in [S -> Int] /\ g \in [S -> Int]
    BY <2>1, <2>3 DEF Leg
  <2>5. <<buyer, "quote">> \in S /\ <<seller, "quote">> \in S /\ <<FeeRevenue, "quote">> \in S
    BY <1>6, <1>9
  <2>6. IntSum(g1, S) = -quote /\ IntSum(g2, S) = quote - feeQuote /\ IntSum(g3, S) = feeQuote
    BY <1>4, <2>1, <2>5, LegSum
  <2> HIDE DEF g, g1, g2, g3
  <2>7. IntSum(g, S) = IntSum(g1, S) + IntSum(g2, S) + IntSum(g3, S)
    BY <1>4, <2>3, <2>4, ThreeSums
  <2>8. IntSum(g, S) = 0
    BY <2>1, <2>6, <2>7
  <2>9. QED
    BY <2>8 DEF g, S
<1>10. CASE asset = "base"
  <2> DEFINE g1 == [a \in S |-> Leg(a, <<seller, "base">>, -f.quantity)]
             g2 == [a \in S |-> Leg(a, <<buyer, "base">>, f.quantity - feeBase)]
             g3 == [a \in S |-> Leg(a, <<FeeRevenue, "base">>, feeBase)]
             g == [a \in S |-> Legs(o)[a]]
  <2>1. -f.quantity + (f.quantity - feeBase) + feeBase = 0
        /\ -f.quantity \in Int /\ f.quantity - feeBase \in Int /\ feeBase \in Int
    BY <1>1, <1>3
  <2>2. -quote \in Int /\ quote - feeQuote \in Int /\ feeQuote \in Int
    BY <1>1, <1>2, <1>3
  <2>3. ASSUME NEW a \in S PROVE g[a] = g1[a] + g2[a] + g3[a] /\ g[a] \in Int
    <3>1. /\ Leg(a, <<buyer, "quote">>, -quote) = 0
          /\ Leg(a, <<seller, "quote">>, quote - feeQuote) = 0
          /\ Leg(a, <<FeeRevenue, "quote">>, feeQuote) = 0
      BY <1>7, <1>10, <2>2 DEF Assets
    <3>2. /\ Leg(a, <<seller, "base">>, -f.quantity) \in Int
          /\ Leg(a, <<buyer, "base">>, f.quantity - feeBase) \in Int
          /\ Leg(a, <<FeeRevenue, "base">>, feeBase) \in Int
      BY <2>1 DEF Leg
    <3>3. Legs(o)[a] =
            Leg(a, <<buyer, "quote">>, -quote)
            + Leg(a, <<seller, "quote">>, quote - feeQuote)
            + Leg(a, <<FeeRevenue, "quote">>, feeQuote)
            + Leg(a, <<seller, "base">>, -f.quantity)
            + Leg(a, <<buyer, "base">>, f.quantity - feeBase)
            + Leg(a, <<FeeRevenue, "base">>, feeBase)
      BY <1>5
    <3>4. QED
      BY <3>1, <3>2, <3>3
  <2>4. g1 \in [S -> Int] /\ g2 \in [S -> Int] /\ g3 \in [S -> Int] /\ g \in [S -> Int]
    BY <2>1, <2>3 DEF Leg
  <2>5. <<seller, "base">> \in S /\ <<buyer, "base">> \in S /\ <<FeeRevenue, "base">> \in S
    BY <1>6, <1>10
  <2>6. IntSum(g1, S) = -f.quantity /\ IntSum(g2, S) = f.quantity - feeBase /\ IntSum(g3, S) = feeBase
    BY <1>4, <2>1, <2>5, LegSum
  <2> HIDE DEF g, g1, g2, g3
  <2>7. IntSum(g, S) = IntSum(g1, S) + IntSum(g2, S) + IntSum(g3, S)
    BY <1>4, <2>3, <2>4, ThreeSums
  <2>8. IntSum(g, S) = 0
    BY <2>1, <2>6, <2>7
  <2>9. QED
    BY <2>8 DEF g, S
<1>11. QED
  BY <1>9, <1>10 DEF Assets

-----------------------------------------------------------------------------
(* What the transactions promise *)

\* A call without an open transaction has written nothing, and a cancellation
\* no balance before it releases the hold.
IdleInv ==
    /\ \A o \in Orders : create[o].pc \notin SettlingPcs => tx[o] = NoTx
    /\ \A c \in CancelCalls : cancel[c].pc \notin {"marked", "released"} => tx[c] = NoTx
    /\ \A c \in CancelCalls : cancel[c].pc = "marked" =>
            \A a \in Accounts : tx[c].delta[a] = ZeroBalance

\* Row locks are exclusive, and cover the accounts and holds a transaction writes.
LocksInv ==
    /\ \A p, q \in Calls : p # q => tx[p].rows \cap tx[q].rows = {}
    /\ \A p \in Calls, a \in Accounts :
            tx[p].delta[a] # ZeroBalance => <<"account", a>> \in tx[p].rows
    /\ \A p \in Calls, o \in Orders :
            tx[p].hold[o] # NoHold => <<"hold", o>> \in tx[p].rows

\* No transaction, if it commits, takes an account below zero.
FundsInv ==
    /\ AvailableNonNegative
    /\ \A p \in Calls, a \in UserAccounts :
            account[a].available + tx[p].delta[a].available >= 0

\* What a transaction changes adds up to nothing.
BalancedInv ==
    /\ ValueConserved
    /\ \A p \in Calls, asset \in Assets : Total(tx[p].delta, asset) = 0

\* A hold a transaction keeps active is active.
HoldInv == \A p \in Calls, o \in Orders :
    tx[p].hold[o].status = "ACTIVE" => hold[o].status = "ACTIVE"

Inv == TypeInv /\ IdleInv /\ LocksInv /\ FundsInv /\ BalancedInv /\ HoldInv

\* What one block makes of the transaction of p, before it locks its rows.
Written(p, t) ==
    /\ t \in Tx
    /\ t.rows = tx[p].rows
    /\ \A a \in Accounts :
            t.delta[a] # tx[p].delta[a] => <<"account", a>> \in Needs(p)
    /\ \A o \in Orders : t.hold[o] # tx[p].hold[o] => <<"hold", o>> \in Needs(p)
    /\ \A a \in UserAccounts : account[a].available + t.delta[a].available >= 0
    /\ \A asset \in Assets : Total(t.delta, asset) = 0
    /\ \A o \in Orders : t.hold[o].status = "ACTIVE" => hold[o].status = "ACTIVE"
-----------------------------------------------------------------------------
(* Transactions *)

LEMMA NoTxFields ==
    /\ NoTx.rows = {} /\ NoTx \in Tx
    /\ \A a \in Accounts : NoTx.delta[a] = ZeroBalance
    /\ \A o \in Orders : NoTx.hold[o] = NoHold /\ NoTx.order[o] = NoOrder
    /\ \A asset \in Assets : Total(NoTx.delta, asset) = 0
<1>1. \A a \in Accounts : NoTx.delta[a].available + NoTx.delta[a].locked = 0
  BY DEF NoTx, ZeroBalance
<1>2. \A asset \in Assets : Total(NoTx.delta, asset) = 0
  BY <1>1, TotalZero
<1>3. QED
  BY <1>2, NoTxType DEF NoTx

\* A block of p keeps what the transactions promise.
LEMMA BlockKeeps ==
    ASSUME Inv, NEW p \in Calls, NEW t, Written(p, t), Free(p),
           tx' = [tx EXCEPT ![p] = [t EXCEPT !.rows = t.rows \cup Needs(p)]],
           UNCHANGED <<account, hold>>
    PROVE  LocksInv' /\ FundsInv' /\ BalancedInv' /\ HoldInv'
<1> DEFINE u == [t EXCEPT !.rows = t.rows \cup Needs(p)]
<1>1. t \in Tx /\ tx \in [Calls -> Tx] /\ Needs(p) \subseteq Rows
  BY NeedsType DEF Inv, Written, TypeInv, TypeOK
<1>2. /\ u.rows = tx[p].rows \cup Needs(p) /\ u.delta = t.delta /\ u.hold = t.hold
  BY <1>1 DEF Written, Tx
<1>3. tx'[p] = u /\ \A q \in Calls : q # p => tx'[q] = tx[q]
  BY <1>1
<1> HIDE DEF u
<1>4. LocksInv'
  <2>1. ASSUME NEW q \in Calls, NEW r \in Calls, q # r
        PROVE  tx'[q].rows \cap tx'[r].rows = {}
    <3>1. tx[q].rows \cap tx[r].rows = {}
      BY <2>1 DEF Inv, LocksInv
    <3>2. CASE q = p
      <4>1. tx[r].rows \cap Needs(p) = {} /\ tx'[r] = tx[r] /\ tx'[q] = u
        BY <1>3, <2>1, <3>2 DEF Free
      <4>2. QED
        BY <1>2, <3>1, <3>2, <4>1
    <3>3. CASE r = p
      <4>1. tx[q].rows \cap Needs(p) = {} /\ tx'[q] = tx[q] /\ tx'[r] = u
        BY <1>3, <2>1, <3>3 DEF Free
      <4>2. QED
        BY <1>2, <3>1, <3>3, <4>1
    <3>4. CASE q # p /\ r # p
      BY <1>3, <3>1, <3>4
    <3>5. QED
      BY <3>2, <3>3, <3>4
  <2>2. ASSUME NEW q \in Calls, NEW a \in Accounts, tx'[q].delta[a] # ZeroBalance
        PROVE  <<"account", a>> \in tx'[q].rows
    BY <1>2, <1>3, <2>2 DEF Inv, LocksInv, Written
  <2>3. ASSUME NEW q \in Calls, NEW o \in Orders, tx'[q].hold[o] # NoHold
        PROVE  <<"hold", o>> \in tx'[q].rows
    BY <1>2, <1>3, <2>3 DEF Inv, LocksInv, Written
  <2>4. QED
    BY <2>1, <2>2, <2>3 DEF LocksInv
<1>5. FundsInv'
  BY <1>2, <1>3 DEF Inv, FundsInv, AvailableNonNegative, Written
<1>6. BalancedInv'
  <2>1. \A q \in Calls, asset \in Assets : Total(tx'[q].delta, asset) = 0
    BY <1>2, <1>3 DEF Inv, BalancedInv, Written
  <2>2. QED
    BY <2>1 DEF Inv, BalancedInv, ValueConserved, Total
<1>7. HoldInv'
  BY <1>2, <1>3 DEF Inv, HoldInv, Written
<1>8. QED
  BY <1>4, <1>5, <1>6, <1>7

\* So does the end of a transaction without a commit ...
LEMMA RollbackKeeps ==
    ASSUME Inv, \A p \in Calls : tx'[p] \in {tx[p], NoTx}, UNCHANGED <<account, hold>>
    PROVE  LocksInv' /\ FundsInv' /\ BalancedInv' /\ HoldInv'
<1>1. \A p \in Calls : tx'[p] = tx[p] \/ tx'[p] = NoTx
  OBVIOUS
<1>2. LocksInv'
  BY <1>1, NoTxFields DEF Inv, LocksInv
<1>3. FundsInv'
  <2>1. \A a \in UserAccounts : account[a].available \in Int /\ account[a].available >= 0
                                /\ a \in Accounts
    BY DEF Inv, TypeInv, TypeOK, FundsInv, AvailableNonNegative, UserAccounts,
           Accounts, Balance
  <2>2. \A a \in UserAccounts : account[a].available + NoTx.delta[a].available >= 0
    BY <2>1, NoTxFields DEF ZeroBalance
  <2>3. QED
    BY <1>1, <2>2 DEF Inv, FundsInv, AvailableNonNegative
<1>4. BalancedInv'
  <2>1. \A q \in Calls, asset \in Assets : Total(tx'[q].delta, asset) = 0
    BY <1>1, NoTxFields DEF Inv, BalancedInv
  <2>2. QED
    BY <2>1 DEF Inv, BalancedInv, ValueConserved, Total
<1>5. HoldInv'
  BY <1>1, NoTxFields DEF Inv, HoldInv, NoHold
<1>6. QED
  BY <1>2, <1>3, <1>4, <1>5

\* ... and a commit.
LEMMA CommitKeeps ==
    ASSUME Inv, NEW p \in Calls, Commit(p)
    PROVE  LocksInv' /\ FundsInv' /\ BalancedInv' /\ HoldInv'
<1>1. /\ tx \in [Calls -> Tx] /\ tx[p] \in Tx /\ tx' = [tx EXCEPT ![p] = NoTx]
      /\ account \in [Accounts -> Balance] /\ tx[p].delta \in [Accounts -> Balance]
      /\ UserAccounts \subseteq Accounts
  BY DEF Inv, TypeInv, TypeOK, Tx, Commit, UserAccounts, Accounts
<1>2. tx'[p] = NoTx /\ \A q \in Calls : q # p => tx'[q] = tx[q]
  BY <1>1
<1>3. ASSUME NEW a \in Accounts
      PROVE  /\ account[a].available \in Int /\ account[a].locked \in Int
             /\ tx[p].delta[a].available \in Int /\ tx[p].delta[a].locked \in Int
             /\ account'[a].available = account[a].available + tx[p].delta[a].available
             /\ account'[a].locked = account[a].locked + tx[p].delta[a].locked
  <2>1. account[a] \in Balance /\ tx[p].delta[a] \in Balance
    BY <1>1
  <2>2. account[a].available \in Int /\ account[a].locked \in Int
        /\ tx[p].delta[a].available \in Int /\ tx[p].delta[a].locked \in Int
    BY <2>1 DEF Balance
  <2>3. account'[a] =
            [available |-> account[a].available + tx[p].delta[a].available,
             locked |-> account[a].locked + tx[p].delta[a].locked]
    BY DEF Commit
  <2>4. QED
    BY <2>2, <2>3
<1>4. LocksInv'
  BY <1>2, NoTxFields DEF Inv, LocksInv
<1>5. FundsInv'
  <2>1. ASSUME NEW a \in UserAccounts
        PROVE  account'[a].available >= 0
    <3>1. account[a].available + tx[p].delta[a].available >= 0
      BY DEF Inv, FundsInv
    <3>2. a \in Accounts
      BY <1>1
    <3>3. QED
      BY <1>3, <3>1, <3>2
  <2>2. ASSUME NEW q \in Calls, NEW a \in UserAccounts
        PROVE  account'[a].available + tx'[q].delta[a].available >= 0
    <3>1. a \in Accounts /\ account'[a].available \in Int
      BY <1>1, <1>3
    <3>2. CASE q = p
      BY <1>2, <2>1, <3>1, <3>2, NoTxFields DEF ZeroBalance
    <3>3. CASE q # p /\ tx[q].delta[a] = ZeroBalance
      BY <1>2, <2>1, <3>1, <3>3 DEF ZeroBalance
    <3>4. CASE q # p /\ tx[q].delta[a] # ZeroBalance
      <4>1. <<"account", a>> \in tx[q].rows
        BY <3>1, <3>4 DEF Inv, LocksInv
      <4>2. tx[p].delta[a] = ZeroBalance
        BY <3>1, <3>4, <4>1 DEF Inv, LocksInv
      <4>3. account'[a].available = account[a].available
        BY <1>3, <3>1, <4>2 DEF ZeroBalance
      <4>4. QED
        BY <1>2, <3>4, <4>3 DEF Inv, FundsInv
    <3>5. QED
      BY <3>2, <3>3, <3>4
  <2>3. QED
    BY <2>1, <2>2 DEF FundsInv, AvailableNonNegative
<1>6. BalancedInv'
  <2>1. \A q \in Calls, asset \in Assets : Total(tx'[q].delta, asset) = 0
    BY <1>2, NoTxFields DEF Inv, BalancedInv
  <2>2. ASSUME NEW asset \in Assets
        PROVE  Total(account', asset) = Total(InitialAccount, asset)
    <3>1. account' \in [Accounts -> Balance]
      BY CommitType DEF Inv, TypeInv
    <3>2. \A a \in Accounts : account'[a].available + account'[a].locked
            = (account[a].available + account[a].locked)
              + (tx[p].delta[a].available + tx[p].delta[a].locked)
      BY <1>3
    <3>3. Total(account', asset) = Total(account, asset) + Total(tx[p].delta, asset)
      BY <1>1, <3>1, <3>2, TotalAdd
    <3>4. Total(account, asset) = Total(InitialAccount, asset)
          /\ Total(tx[p].delta, asset) = 0 /\ Total(account, asset) \in Int
      BY <1>1, TotalType DEF Inv, BalancedInv, ValueConserved
    <3>5. QED
      BY <3>3, <3>4
  <2>3. QED
    BY <2>1, <2>2 DEF BalancedInv, ValueConserved, Total
<1>7. HoldInv'
  <2>1. ASSUME NEW q \in Calls, NEW o \in Orders, tx'[q].hold[o].status = "ACTIVE"
        PROVE  hold'[o].status = "ACTIVE"
    <3>1. q # p /\ tx'[q] = tx[q]
      BY <1>2, <2>1, NoTxFields DEF NoHold
    <3>2. <<"hold", o>> \in tx[q].rows
      BY <2>1, <3>1 DEF Inv, LocksInv, NoHold
    <3>3. tx[p].hold[o] = NoHold
      BY <3>1, <3>2 DEF Inv, LocksInv
    <3>4. hold'[o] = hold[o]
      BY <3>3 DEF Commit, HoldSeen
    <3>5. QED
      BY <2>1, <3>1, <3>4 DEF Inv, HoldInv
  <2>2. QED
    BY <2>1 DEF HoldInv
<1>8. QED
  BY <1>4, <1>5, <1>6, <1>7

\* Reserving funds moves them on one account, which no transaction has locked.
LEMMA PlaceKeeps ==
    ASSUME Inv, NEW o \in Orders, PlaceOrder(o)
    PROVE  LocksInv' /\ FundsInv' /\ BalancedInv' /\ HoldInv'
<1> DEFINE a == HoldAccount(o)
           amount == reserveAmount(o, request[o].quantity)
<1>1. /\ o \in Calls /\ tx' = tx /\ tx[o] = NoTx /\ create[o].pc = "placing" /\ Free(o)
      /\ account \in [Accounts -> Balance] /\ \A q \in Calls : tx[q] \in Tx
      /\ UserAccounts \subseteq Accounts
  BY DEF PlaceOrder, Inv, IdleInv, Calls, SettlingPcs, TypeInv, TypeOK, UserAccounts, Accounts
<1>2. a \in UserAccounts /\ a \in Accounts /\ amount \in Nat
  BY ReserveType, RequestType DEF Inv, TypeInv
<1>3. CASE UNCHANGED <<account, order, hold>>
  <2>1. \A p \in Calls : tx'[p] \in {tx[p], NoTx}
    BY <1>1
  <2>2. QED
    BY <1>3, <2>1, RollbackKeeps
<1>4. CASE /\ account[a].available >= amount
           /\ account' = [account EXCEPT ![a] =
                [available |-> account[a].available - amount,
                 locked |-> account[a].locked + amount]]
           /\ hold' = [hold EXCEPT ![o] = [status |-> "ACTIVE", amount |-> amount]]
  <2>1. account[a].available \in Int /\ account[a].locked \in Int
    <3>1. account[a] \in Balance
      BY <1>1, <1>2
    <3>2. QED
      BY <3>1 DEF Balance
  <2>2. /\ account'[a].available = account[a].available - amount
        /\ account'[a].locked = account[a].locked + amount
        /\ \A b \in Accounts : b # a => account'[b] = account[b]
    BY <1>1, <1>2, <1>4
  <2>3. ASSUME NEW q \in Calls PROVE tx[q].delta[a] = ZeroBalance
    <3>1. CASE q = o
      BY <1>1, <1>2, <3>1, NoTxFields
    <3>2. CASE q # o
      <4>1. <<"account", a>> \in Needs(o)
        BY <1>1 DEF Needs, CreateNeeds
      <4>2. <<"account", a>> \notin tx[q].rows
        BY <1>1, <3>2, <4>1 DEF Free
      <4>3. QED
        BY <1>2, <4>2 DEF Inv, LocksInv
    <3>3. QED
      BY <3>1, <3>2
  <2>4. FundsInv'
    <3>1. \A b \in UserAccounts : account'[b].available >= 0
      <4>1. account'[a].available >= 0
        BY <1>2, <1>4, <2>1, <2>2
      <4>2. \A b \in UserAccounts : b # a => account'[b].available >= 0
        BY <1>1, <2>2 DEF Inv, FundsInv, AvailableNonNegative
      <4>3. QED
        BY <4>1, <4>2
    <3>2. ASSUME NEW q \in Calls, NEW b \in UserAccounts
          PROVE  account'[b].available + tx'[q].delta[b].available >= 0
      <4>1. CASE b = a
        <5>1. tx'[q].delta[b].available = 0
          BY <1>1, <2>3, <4>1 DEF ZeroBalance
        <5>2. account'[a].available \in Int /\ account'[a].available >= 0
          BY <1>2, <2>1, <2>2, <3>1
        <5>3. QED
          BY <4>1, <5>1, <5>2
      <4>2. CASE b # a
        BY <1>1, <2>2, <4>2 DEF Inv, FundsInv
      <4>3. QED
        BY <4>1, <4>2
    <3>3. QED
      BY <3>1, <3>2 DEF FundsInv, AvailableNonNegative
  <2>5. BalancedInv'
    <3>1. \A b \in Accounts : account'[b].available + account'[b].locked
                            = account[b].available + account[b].locked
      BY <1>2, <2>1, <2>2
    <3>2. \A asset \in Assets : Total(account', asset) = Total(account, asset)
      BY <3>1, TotalSame
    <3>3. QED
      BY <1>1, <3>2 DEF Inv, BalancedInv, ValueConserved, Total
  <2>6. HoldInv'
    <3>1. \A x \in Orders : hold[x].status = "ACTIVE" => hold'[x].status = "ACTIVE"
      BY <1>4 DEF Inv, TypeInv, TypeOK
    <3>2. QED
      BY <1>1, <3>1 DEF Inv, HoldInv
  <2>7. LocksInv'
    BY <1>1 DEF Inv, LocksInv
  <2>8. QED
    BY <2>4, <2>5, <2>6, <2>7
<1>5. QED
  BY <1>3, <1>4 DEF PlaceOrder
-----------------------------------------------------------------------------
(* Blocks *)

\* A block that leaves accounts and holds alone.
LEMMA SameWritten ==
    ASSUME Inv, NEW p \in Calls, NEW s, Written(p, s), NEW t \in Tx,
           t.rows = s.rows, t.delta = s.delta, t.hold = s.hold
    PROVE  Written(p, t)
BY DEF Written

\* A transaction, as it is, is what a block that writes nothing makes of it.
LEMMA NothingWritten ==
    ASSUME Inv, NEW p \in Calls
    PROVE  Written(p, tx[p])
<1>1. tx[p] \in Tx
  BY DEF Inv, TypeInv, TypeOK
<1>2. QED
  BY <1>1 DEF Written, Inv, FundsInv, BalancedInv, HoldInv

\* reduceHold, once the rows of the hold and its account are waited for.
LEMMA ReduceHoldWritten ==
    ASSUME Inv, NEW p \in Orders, NEW o \in Orders, NEW amount \in Nat,
           HoldRowsIfSeenActive(p, o) \subseteq Needs(p)
    PROVE  Written(p, reduceHold(tx[p], p, o, amount))
<1> DEFINE a == HoldAccount(o)
           seen == create[p].seenHold
           row == IF seen.amount - amount <= 0
                  THEN [status |-> "CONSUMED", amount |-> 0]
                  ELSE [status |-> HoldSeen(p, o).status,
                        amount |-> seen.amount - amount]
           d == tx[p].delta
           balance == [available |-> d[a].available + amount,
                       locked |-> d[a].locked - amount]
           t == reduceHold(tx[p], p, o, amount)
<1>1. p \in Calls /\ tx[p] \in Tx /\ a \in Accounts /\ t \in Tx
      /\ d \in [Accounts -> Balance] /\ account \in [Accounts -> Balance]
      /\ UserAccounts \subseteq Accounts
  BY ReserveType, ReduceHoldType DEF Calls, Inv, TypeInv, TypeOK, Tx, UserAccounts, Accounts
<1>2. Written(p, tx[p])
  BY <1>1, NothingWritten
<1>3. CASE seen.status # "ACTIVE"
  BY <1>2, <1>3 DEF reduceHold
<1>4. CASE seen.status = "ACTIVE"
  <2>1. t = [tx[p] EXCEPT !.delta = [d EXCEPT ![a] = balance],
                          !.hold = [tx[p].hold EXCEPT ![o] = row]]
    BY <1>1, <1>4 DEF reduceHold, Tx
  <2>2. /\ <<"account", a>> \in Needs(p) /\ <<"hold", o>> \in Needs(p)
    BY <1>4 DEF HoldRowsIfSeenActive, HoldRows
  <2>3. row.status = "ACTIVE" => hold[o].status = "ACTIVE"
    <3>1. HoldSeen(p, o).status = "ACTIVE" => hold[o].status = "ACTIVE"
      BY <1>1 DEF HoldSeen, Inv, HoldInv
    <3>2. QED
      BY <3>1
  <2>4. d[a] \in Balance
    BY <1>1
  <2>5. /\ balance.available = d[a].available + amount
        /\ balance.locked = d[a].locked - amount
        /\ d[a].available \in Int /\ d[a].locked \in Int
    BY <2>4 DEF Balance
  <2> HIDE DEF row, balance, t, a
  <2>6. /\ t.rows = tx[p].rows
        /\ t.delta = [d EXCEPT ![a] = balance]
        /\ t.hold = [tx[p].hold EXCEPT ![o] = row]
    BY <1>1, <2>1 DEF Tx
  <2>7. t.delta[a] = balance /\ \A b \in Accounts : b # a => t.delta[b] = d[b]
    BY <1>1, <2>6
  <2>8. t.hold[o] = row /\ \A x \in Orders : x # o => t.hold[x] = tx[p].hold[x]
    <3>1. tx[p].hold \in [Orders -> HoldRow]
      BY <1>1 DEF Tx
    <3>2. QED
      BY <2>6, <3>1
  <2>9. \A b \in UserAccounts : account[b].available + t.delta[b].available >= 0
    <3>1. \A b \in UserAccounts : account[b].available + d[b].available >= 0
      BY <1>1 DEF Inv, FundsInv
    <3>2. \A b \in UserAccounts : account[b].available \in Int
      BY <1>1 DEF Balance
    <3>3. \A b \in UserAccounts : b # a => account[b].available + t.delta[b].available >= 0
      BY <1>1, <2>7, <3>1
    <3>4. a \in UserAccounts => account[a].available + t.delta[a].available >= 0
      BY <2>5, <2>7, <3>1, <3>2
    <3>5. QED
      BY <3>3, <3>4
  <2>10. \A asset \in Assets : Total(t.delta, asset) = 0
    <3>1. \A b \in Accounts : t.delta[b].available + t.delta[b].locked
                            = d[b].available + d[b].locked
      <4>1. t.delta[a].available + t.delta[a].locked = d[a].available + d[a].locked
        BY <2>5, <2>7
      <4>2. QED
        BY <2>7, <4>1
    <3>2. \A asset \in Assets : Total(t.delta, asset) = Total(d, asset)
      BY <3>1, TotalSame
    <3>3. QED
      BY <1>1, <3>2 DEF Inv, BalancedInv
  <2>11. \A x \in Orders : t.hold[x].status = "ACTIVE" => hold[x].status = "ACTIVE"
    BY <1>1, <2>3, <2>8 DEF Inv, HoldInv
  <2>12. (\A b \in Accounts : t.delta[b] # tx[p].delta[b] => <<"account", b>> \in Needs(p))
         /\ (\A x \in Orders : t.hold[x] # tx[p].hold[x] => <<"hold", x>> \in Needs(p))
    BY <2>2, <2>7, <2>8
  <2>13. QED
    BY <1>1, <2>6, <2>9, <2>10, <2>11, <2>12 DEF Written, t
<1>5. QED
  BY <1>3, <1>4

\* The seller's part of a fill: the funds are there, and the legs balance.
LEMMA FillTxWritten ==
    ASSUME Inv, NEW o \in Orders, create[o].pc = "seller", Funded(o)
    PROVE  Written(o, FillTx(o))
<1> DEFINE s == reduceHold(tx[o], o, Seller(o), NextFill(o).quantity)
           t == FillTx(o)
           legs == Legs(o)
<1>1. create[o].fills # {} /\ o \in Calls /\ UserAccounts \subseteq Accounts
  BY DEF Inv, TypeInv, AtFill, Calls, UserAccounts, Accounts
<1>2. Seller(o) \in Orders /\ NextFill(o).quantity \in Nat
  BY <1>1, NextFillType DEF Inv, TypeInv
<1>3. legs \in [Accounts -> Int]
  BY <1>1, LegsType DEF Inv, TypeInv
<1>4. /\ HoldRowsIfSeenActive(o, Seller(o)) \subseteq Needs(o)
      /\ \A a \in Accounts : legs[a] # 0 => <<"account", a>> \in Needs(o)
  BY <1>1 DEF Needs, CreateNeeds, LegAccounts, Calls
<1>5. Written(o, s)
  BY <1>2, <1>4, ReduceHoldWritten
<1>6. t \in Tx /\ s \in Tx
  BY <1>5, FillTxType DEF Inv, Written
<1>7. /\ t.rows = s.rows /\ t.hold = s.hold
      /\ t.delta = [a \in Accounts |-> [s.delta[a] EXCEPT !.available = @ + legs[a]]]
  BY <1>6 DEF FillTx, Tx
<1> HIDE DEF s, t, legs
<1>8. ASSUME NEW a \in Accounts
      PROVE  /\ t.delta[a].available = s.delta[a].available + legs[a]
             /\ t.delta[a].locked = s.delta[a].locked
             /\ s.delta[a].available \in Int /\ s.delta[a].locked \in Int
             /\ legs[a] \in Int
             /\ legs[a] = 0 => t.delta[a] = s.delta[a]
  <2>1. s.delta[a] \in Balance /\ legs[a] \in Int
    BY <1>3, <1>6 DEF Tx
  <2>2. t.delta[a] = [s.delta[a] EXCEPT !.available = @ + legs[a]]
    BY <1>7
  <2>3. QED
    BY <2>1, <2>2 DEF Balance
<1>9. \A a \in Accounts : t.delta[a] # tx[o].delta[a] => <<"account", a>> \in Needs(o)
  BY <1>4, <1>5, <1>8 DEF Written
<1>10. ASSUME NEW a \in UserAccounts
       PROVE  account[a].available + t.delta[a].available >= 0
  <2>1. a \in Accounts /\ account[a].available \in Int
    BY <1>1 DEF Inv, TypeInv, TypeOK, Balance
  <2>2. CASE legs[a] < 0
    BY <2>2 DEF Funded, legs, t
  <2>3. CASE legs[a] >= 0
    <3>1. account[a].available + s.delta[a].available >= 0
      BY <1>5 DEF Written
    <3>2. QED
      BY <1>8, <2>1, <2>3, <3>1
  <2>4. QED
    BY <1>8, <2>1, <2>2, <2>3
<1>11. ASSUME NEW asset \in Assets
       PROVE  Total(t.delta, asset) = 0
  <2> DEFINE g == [a \in Accounts |-> [available |-> legs[a], locked |-> 0]]
  <2>1. g \in [Accounts -> Balance] /\ s.delta \in [Accounts -> Balance]
        /\ t.delta \in [Accounts -> Balance]
    BY <1>3, <1>6 DEF Tx, Balance
  <2>2. \A a \in Accounts : g[a].available = legs[a] /\ g[a].locked = 0
    OBVIOUS
  <2>3. \A a \in Accounts : t.delta[a].available + t.delta[a].locked
            = (s.delta[a].available + s.delta[a].locked) + (g[a].available + g[a].locked)
    BY <1>8, <2>2
  <2> HIDE DEF g
  <2>4. Total(t.delta, asset) = Total(s.delta, asset) + Total(g, asset)
    BY <2>1, <2>3, TotalAdd
  <2>5. Total(g, asset) = 0
    <3>1. \A a \in AccountsIn(asset) : g[a].available + g[a].locked = legs[a]
      BY <1>8, <2>2, AccountsFinite
    <3>2. [a \in AccountsIn(asset) |-> g[a].available + g[a].locked]
            = [a \in AccountsIn(asset) |-> legs[a]]
      BY <3>1
    <3>3. IntSum([a \in AccountsIn(asset) |-> legs[a]], AccountsIn(asset)) = 0
      BY <1>1, LegsBalance DEF Inv, TypeInv, legs
    <3>4. QED
      BY <3>2, <3>3 DEF Total
  <2>6. Total(s.delta, asset) = 0
    BY <1>5 DEF Written
  <2>7. QED
    BY <2>4, <2>5, <2>6
<1>12. QED
  BY <1>5, <1>6, <1>7, <1>9, <1>10, <1>11 DEF Written, t

\* One more block of a settlement.
LEMMA SettleKeeps ==
    ASSUME Inv, NEW o \in Orders, NEW t, Written(o, t), NEW h, h.pc \in SettlingPcs,
           Settle(o, t, h)
    PROVE  IdleInv' /\ LocksInv' /\ FundsInv' /\ BalancedInv' /\ HoldInv'
<1>1. /\ o \in Calls /\ Free(o) /\ o \notin CancelCalls
      /\ tx' = [tx EXCEPT ![o] = [t EXCEPT !.rows = t.rows \cup Needs(o)]]
      /\ create' = [create EXCEPT ![o] = h]
      /\ UNCHANGED <<account, hold, cancel>>
  BY ExchangeAssumption DEF Settle, Calls, db
<1>2. LocksInv' /\ FundsInv' /\ BalancedInv' /\ HoldInv'
  BY <1>1, BlockKeeps
<1>3. IdleInv'
  BY <1>1 DEF Inv, IdleInv, TypeInv, TypeOK, Calls
<1>4. QED
  BY <1>2, <1>3

\* Every block of a settlement writes what it may.
LEMMA SettlementKeeps ==
    ASSUME Inv, NEW o \in Orders,
           \/ ReadBuyerHold(o) \/ ReduceBuyerHold(o) \/ PostFill(o) \/ FillMaker(o)
           \/ FillTaker(o) \/ ReadRemainderHold(o) \/ CancelRemainder(o)
    PROVE  IdleInv' /\ LocksInv' /\ FundsInv' /\ BalancedInv' /\ HoldInv'
<1>1. /\ o \in Calls /\ tx[o] \in Tx /\ create[o] \in Handlers /\ TypeInv /\ TypeOK
      /\ create[o].seenOrder \in OrderRow
      /\ \A x \in Orders : OrderSeen(o, x) \in OrderRow
  BY SettlingType DEF Inv, TypeInv
<1>2. Written(o, tx[o])
  BY <1>1, NothingWritten
<1>3. ASSUME create[o].pc \in {"buyer", "seller", "maker", "taker"}
      PROVE  /\ NextFill(o).maker \in Orders /\ NextFill(o).quantity \in Nat
             /\ Buyer(o) \in Orders /\ Seller(o) \in Orders
  BY <1>1, <1>3, NextFillType DEF TypeInv, AtFill
<1>4. ASSUME NEW pc \in SettlingPcs, NEW s, NEW r
      PROVE  /\ [create[o] EXCEPT !.pc = pc, !.seenHold = s].pc \in SettlingPcs
             /\ [create[o] EXCEPT !.pc = pc, !.seenOrder = r].pc \in SettlingPcs
  BY <1>1 DEF Handlers
<1>5. CASE ReadBuyerHold(o)
  <2>1. [create[o] EXCEPT !.pc = "buyer", !.seenHold = HoldSeen(o, Buyer(o))].pc
            \in SettlingPcs
    BY <1>4 DEF SettlingPcs
  <2>2. QED
    BY <1>2, <1>5, <2>1, SettleKeeps DEF ReadBuyerHold
<1>6. CASE ReduceBuyerHold(o)
  <2> DEFINE t == reduceHold(tx[o], o, Buyer(o),
                             reserveAmount(Buyer(o), NextFill(o).quantity))
  <2>1. create[o].pc = "buyer"
    BY <1>6 DEF ReduceBuyerHold
  <2>2. HoldRowsIfSeenActive(o, Buyer(o)) \subseteq Needs(o)
    BY <2>1 DEF Needs, CreateNeeds
  <2>3. reserveAmount(Buyer(o), NextFill(o).quantity) \in Nat
    BY <1>1, <1>3, <2>1, ReserveType
  <2>4. Written(o, t)
    BY <1>3, <2>1, <2>2, <2>3, ReduceHoldWritten
  <2>5. [create[o] EXCEPT !.pc = "seller", !.seenHold = HoldSeen(o, Seller(o))].pc
            \in SettlingPcs
    BY <1>4 DEF SettlingPcs
  <2>6. Settle(o, t, [create[o] EXCEPT !.pc = "seller", !.seenHold = HoldSeen(o, Seller(o))])
    BY <1>6 DEF ReduceBuyerHold
  <2> HIDE DEF t
  <2>7. QED
    BY <2>4, <2>5, <2>6, SettleKeeps
<1>7. CASE PostFill(o)
  <2>1. Written(o, FillTx(o))
    BY <1>7, FillTxWritten DEF PostFill
  <2>2. [create[o] EXCEPT !.pc = "maker",
                          !.seenOrder = OrderSeen(o, NextFill(o).maker)].pc \in SettlingPcs
    BY <1>4 DEF SettlingPcs
  <2>3. QED
    BY <1>7, <2>1, <2>2, SettleKeeps DEF PostFill
<1>8. ASSUME NEW x \in Orders, NEW row \in OrderRow
      PROVE  Written(o, [tx[o] EXCEPT !.order[x] = row])
  <2> DEFINE t == [tx[o] EXCEPT !.order[x] = row]
  <2>1. t \in Tx
    BY <1>1, OrderWriteType
  <2>2. t.rows = tx[o].rows /\ t.delta = tx[o].delta /\ t.hold = tx[o].hold
    BY <1>1 DEF Tx
  <2> HIDE DEF t
  <2>3. Written(o, t)
    BY <1>1, <1>2, <2>1, <2>2, SameWritten
  <2>4. QED
    BY <2>3 DEF t
<1>9. CASE FillMaker(o)
  <2> DEFINE row == Applied(create[o].seenOrder, NextFill(o).quantity)
             t == [tx[o] EXCEPT !.order[NextFill(o).maker] = row]
             h == [create[o] EXCEPT !.pc = "taker", !.seenOrder = OrderSeen(o, o)]
  <2>1. NextFill(o).maker \in Orders /\ NextFill(o).quantity \in Nat
    BY <1>3, <1>9 DEF FillMaker
  <2>2. row \in OrderRow
    BY <1>1, <2>1, AppliedType
  <2>3. Settle(o, t, h)
    BY <1>9 DEF FillMaker
  <2>4. h.pc \in SettlingPcs
    BY <1>4 DEF SettlingPcs
  <2> HIDE DEF row, h
  <2>5. Written(o, t)
    BY <1>8, <2>1, <2>2
  <2> HIDE DEF t
  <2>6. QED
    BY <2>3, <2>4, <2>5, SettleKeeps
<1>10. CASE FillTaker(o)
  <2> DEFINE row == Applied(create[o].seenOrder, NextFill(o).quantity)
             t == [tx[o] EXCEPT !.order[o] = row]
             h == [create[o] EXCEPT !.pc = "fill", !.fills = @ \ {NextFill(o)},
                                    !.seenHold = NoHold, !.seenOrder = NoOrder]
  <2>1. NextFill(o).quantity \in Nat
    BY <1>3, <1>10 DEF FillTaker
  <2>2. row \in OrderRow
    BY <1>1, <2>1, AppliedType
  <2>3. Settle(o, t, h)
    BY <1>10 DEF FillTaker
  <2>4. h.pc \in SettlingPcs
    BY <1>1 DEF SettlingPcs, Handlers
  <2> HIDE DEF row, h
  <2>5. Written(o, t)
    BY <1>8, <2>2
  <2> HIDE DEF t
  <2>6. QED
    BY <2>3, <2>4, <2>5, SettleKeeps
<1>11. CASE ReadRemainderHold(o)
  <2>1. [create[o] EXCEPT !.pc = "remainder", !.seenHold = HoldSeen(o, o)].pc
            \in SettlingPcs
    BY <1>4 DEF SettlingPcs
  <2>2. QED
    BY <1>2, <1>11, <2>1, SettleKeeps DEF ReadRemainderHold
<1>12. CASE CancelRemainder(o)
  <2> DEFINE amount == reserveAmount(o, create[o].left)
             s == reduceHold(tx[o], o, o, amount)
             row == [OrderSeen(o, o) EXCEPT !.status = "CANCELLED"]
             t == [s EXCEPT !.order[o] = row]
             h == [create[o] EXCEPT !.pc = "fill", !.cancelRest = FALSE, !.seenHold = NoHold]
  <2>1. create[o].pc = "remainder" /\ Settle(o, t, h)
    BY <1>12 DEF CancelRemainder
  <2>2. h.pc \in SettlingPcs
    BY <1>1 DEF SettlingPcs, Handlers
  <2>3. amount \in Nat /\ HoldRowsIfSeenActive(o, o) \subseteq Needs(o)
    BY <1>1, <2>1, ReserveType DEF Handlers, Needs, CreateNeeds
  <2>4. row \in OrderRow
    BY <1>1 DEF OrderRow, OrderStatuses
  <2> HIDE DEF amount, row, h
  <2>5. Written(o, s)
    BY <2>3, ReduceHoldWritten
  <2>6. s \in Tx
    BY <2>5 DEF Written
  <2> HIDE DEF s
  <2>7. t \in Tx
    BY <2>4, <2>6, OrderWriteType
  <2>8. t.rows = s.rows /\ t.delta = s.delta /\ t.hold = s.hold
    BY <2>6 DEF Tx
  <2> HIDE DEF t
  <2>9. Written(o, t)
    BY <1>1, <2>5, <2>7, <2>8, SameWritten
  <2>10. QED
    BY <2>1, <2>2, <2>9, SettleKeeps
<1>13. QED
  BY <1>5, <1>6, <1>7, <1>9, <1>10, <1>11, <1>12

\* The other steps of a createOrder call.
LEMMA CreateKeeps ==
    ASSUME Inv, NEW o \in Orders, ReceiveOrder(o) \/ CreateStep(o)
    PROVE  IdleInv' /\ LocksInv' /\ FundsInv' /\ BalancedInv' /\ HoldInv'
<1>1. /\ o \in Calls /\ o \notin CancelCalls
      /\ create \in [Orders -> Handlers] /\ tx \in [Calls -> Tx]
      /\ Orders \subseteq Calls /\ CancelCalls \subseteq Calls
  BY ExchangeAssumption DEF Calls, Inv, TypeInv, TypeOK
<1>2. CASE ReceiveOrder(o)
  <2>1. UNCHANGED <<account, hold, tx, cancel>> /\ create[o].pc = "new"
        /\ \A x \in Orders : x # o => create'[x] = create[x]
    BY <1>1, <1>2 DEF ReceiveOrder, db
  <2>2. \A p \in Calls : tx'[p] \in {tx[p], NoTx}
    BY <2>1
  <2>3. tx[o] = NoTx
    BY <2>1 DEF Inv, IdleInv, SettlingPcs
  <2>4. IdleInv'
    BY <2>1, <2>3 DEF Inv, IdleInv
  <2>5. QED
    BY <2>1, <2>2, <2>4, RollbackKeeps
<1>3. CASE PlaceOrder(o)
  <2>1. UNCHANGED <<tx, cancel>> /\ create[o].pc = "placing"
        /\ \A x \in Orders : x # o => create'[x] = create[x]
    BY <1>1, <1>3 DEF PlaceOrder
  <2>2. tx[o] = NoTx
    BY <2>1 DEF Inv, IdleInv, SettlingPcs
  <2>3. IdleInv'
    BY <2>1, <2>2 DEF Inv, IdleInv
  <2>4. QED
    BY <1>3, <2>3, PlaceKeeps
<1>4. CASE SubmitOrder(o)
  <2>1. UNCHANGED <<account, hold, tx, cancel>> /\ create[o].pc = "placed"
        /\ \A x \in Orders : x # o => create'[x] = create[x]
    BY <1>1, <1>4 DEF SubmitOrder, db
  <2>2. \A p \in Calls : tx'[p] \in {tx[p], NoTx}
    BY <2>1
  <2>3. tx[o] = NoTx
    BY <2>1 DEF Inv, IdleInv, SettlingPcs
  <2>4. IdleInv'
    BY <2>1, <2>3 DEF Inv, IdleInv
  <2>5. QED
    BY <2>1, <2>2, <2>4, RollbackKeeps
<1>5. CASE SettlementShort(o)
  <2>1. UNCHANGED <<account, hold, cancel>> /\ tx' = [tx EXCEPT ![o] = NoTx]
        /\ \A x \in Orders : x # o => create'[x] = create[x]
    BY <1>1, <1>5 DEF SettlementShort, db
  <2>2. tx'[o] = NoTx /\ \A p \in Calls : p # o => tx'[p] = tx[p]
    BY <1>1, <2>1
  <2>3. \A p \in Calls : tx'[p] \in {tx[p], NoTx}
    BY <2>2
  <2>4. IdleInv'
    BY <1>1, <2>1, <2>2 DEF Inv, IdleInv
  <2>5. QED
    BY <2>1, <2>3, <2>4, RollbackKeeps
<1>6. CASE CommitSettlement(o)
  <2>1. UNCHANGED cancel /\ Commit(o)
        /\ \A x \in Orders : x # o => create'[x] = create[x]
    BY <1>1, <1>6 DEF CommitSettlement
  <2>2. tx'[o] = NoTx /\ \A p \in Calls : p # o => tx'[p] = tx[p]
    BY <1>1, <2>1 DEF Commit
  <2>3. IdleInv'
    BY <1>1, <2>1, <2>2 DEF Inv, IdleInv
  <2>4. QED
    BY <1>1, <2>1, <2>3, CommitKeeps
<1>7. QED
  BY <1>2, <1>3, <1>4, <1>5, <1>6, SettlementKeeps DEF CreateStep

\* The steps of a cancellation.
LEMMA CancelKeeps ==
    ASSUME Inv, NEW c \in CancelCalls, ReceiveCancel(c) \/ CancelStep(c)
    PROVE  IdleInv' /\ LocksInv' /\ FundsInv' /\ BalancedInv' /\ HoldInv'
<1> DEFINE o == target[c]
           a == HoldAccount(o)
<1>1. /\ c \in Calls /\ c \notin Orders /\ o \in Orders
      /\ Orders \subseteq Calls /\ CancelCalls \subseteq Calls
      /\ cancel \in [CancelCalls -> Cancellers] /\ tx \in [Calls -> Tx] /\ tx[c] \in Tx
      /\ order[o] \in OrderRow /\ hold[o] \in HoldRow /\ cancel[c] \in Cancellers
  BY ExchangeAssumption DEF Calls, Inv, TypeInv, TypeOK
<1>2. CASE ReceiveCancel(c)
  <2>1. UNCHANGED <<account, hold, tx, create>> /\ cancel[c].pc = "new"
        /\ \A d \in CancelCalls : d # c => cancel'[d] = cancel[d]
    BY <1>1, <1>2 DEF ReceiveCancel, db
  <2>2. \A p \in Calls : tx'[p] \in {tx[p], NoTx}
    BY <2>1
  <2>3. tx[c] = NoTx
    BY <2>1 DEF Inv, IdleInv
  <2>4. IdleInv'
    BY <2>1, <2>3, NoTxFields DEF Inv, IdleInv
  <2>5. QED
    BY <2>1, <2>2, <2>4, RollbackKeeps
<1>3. CASE MarkCancelled(c)
  <2> DEFINE row == [order[o] EXCEPT !.status = "CANCELLED"]
             t == [tx[c] EXCEPT !.order[o] = row]
  <2>1. cancel[c].pc = "checked" /\ tx[c] = NoTx /\ Free(c)
        /\ UNCHANGED <<account, hold, create>>
    BY <1>3 DEF MarkCancelled, Inv, IdleInv, db
  <2>2. row \in OrderRow
    BY <1>1 DEF OrderRow, OrderStatuses
  <2>3. t \in Tx
    BY <1>1, <2>2, OrderWriteType
  <2>4. t.rows = tx[c].rows /\ t.delta = tx[c].delta /\ t.hold = tx[c].hold
    BY <1>1 DEF Tx
  <2>5. tx' = [tx EXCEPT ![c] = [t EXCEPT !.rows = Needs(c)]]
    BY <1>1, <1>3 DEF MarkCancelled
  <2>6. t.rows \cup Needs(c) = Needs(c)
    BY <2>1, <2>4, NoTxFields
  <2> HIDE DEF t, row
  <2>7. Written(c, t)
    BY <1>1, <2>3, <2>4, NothingWritten, SameWritten
  <2>8. tx' = [tx EXCEPT ![c] = [t EXCEPT !.rows = t.rows \cup Needs(c)]]
    BY <2>5, <2>6
  <2>9. cancel'[c].pc = "marked" /\ \A d \in CancelCalls : d # c => cancel'[d] = cancel[d]
    BY <1>1, <1>3 DEF MarkCancelled
  <2>10. IdleInv'
    <3>1. tx'[c].delta = tx[c].delta /\ \A p \in Calls : p # c => tx'[p] = tx[p]
      BY <1>1, <2>3, <2>4, <2>8 DEF Tx
    <3>2. \A b \in Accounts : tx'[c].delta[b] = ZeroBalance
      BY <2>1, <3>1, NoTxFields
    <3>3. QED
      BY <1>1, <2>1, <2>9, <3>1, <3>2 DEF Inv, IdleInv
  <2>11. QED
    BY <1>1, <2>1, <2>7, <2>8, <2>10, BlockKeeps
<1>4. CASE ReleaseHold(c)
  <2> DEFINE t == releaseHold(c)
             amount == cancel[c].seenHold.amount
             row == [hold[o] EXCEPT !.status = "RELEASED"]
             change == [available |-> amount, locked |-> -amount]
  <2>1. cancel[c].pc = "marked" /\ Free(c) /\ UNCHANGED <<account, hold, create>>
        /\ cancel' = [cancel EXCEPT ![c] = Canceller("released")]
    BY <1>4 DEF ReleaseHold, db
  <2>2. cancel'[c].pc = "released"
        /\ \A d \in CancelCalls : d # c => cancel'[d] = cancel[d]
    BY <1>1, <2>1 DEF Canceller
  <2>3. CASE UNCHANGED tx
    <3>1. \A p \in Calls : tx'[p] \in {tx[p], NoTx}
      BY <2>3
    <3>2. IdleInv'
      BY <2>1, <2>2, <2>3 DEF Inv, IdleInv
    <3>3. QED
      BY <2>1, <3>1, <3>2, RollbackKeeps
  <2>4. CASE /\ hold[o].status = "ACTIVE"
             /\ tx' = [tx EXCEPT ![c] = [t EXCEPT !.rows = t.rows \cup Needs(c)]]
    <3>1. t \in Tx /\ a \in Accounts /\ amount \in Nat
      BY <1>1, ReleaseHoldType, ReserveType DEF Inv, TypeInv, Cancellers, HoldRow
    <3>2. <<"account", a>> \in Needs(c) /\ <<"hold", o>> \in Needs(c)
      BY <1>1, <2>1, <2>4 DEF Needs, CancelNeeds, HoldRows
    <3>3. /\ t.rows = tx[c].rows
          /\ t.delta = [tx[c].delta EXCEPT ![a] = change]
          /\ t.hold = [tx[c].hold EXCEPT ![o] = row]
      BY <1>1, <3>1 DEF releaseHold, Tx
    <3>4. tx[c].delta \in [Accounts -> Balance] /\ tx[c].hold \in [Orders -> HoldRow]
          /\ UserAccounts \subseteq Accounts /\ account \in [Accounts -> Balance]
      BY <1>1 DEF Tx, UserAccounts, Accounts, Inv, TypeInv, TypeOK
    <3>5. t.delta[a] = change /\ \A b \in Accounts : b # a => t.delta[b] = tx[c].delta[b]
      BY <3>1, <3>3, <3>4
    <3>6. t.hold[o] = row /\ \A x \in Orders : x # o => t.hold[x] = tx[c].hold[x]
      BY <1>1, <3>3, <3>4
    <3>7. row.status = "RELEASED" /\ change.available = amount /\ change.locked = -amount
      BY <1>1 DEF HoldRow
    <3> HIDE DEF t, row, change
    <3>8. \A b \in Accounts : tx[c].delta[b] = ZeroBalance
      BY <2>1 DEF Inv, IdleInv
    <3>9. ASSUME NEW b \in UserAccounts
          PROVE  account[b].available + t.delta[b].available >= 0
      <4>1. account[b].available \in Int /\ account[b].available >= 0 /\ b \in Accounts
        BY <3>4 DEF Balance, Inv, FundsInv, AvailableNonNegative
      <4>2. t.delta[b].available \in Nat
        BY <3>1, <3>5, <3>7, <3>8, <4>1 DEF ZeroBalance
      <4>3. QED
        BY <4>1, <4>2
    <3>10. ASSUME NEW asset \in Assets PROVE Total(t.delta, asset) = 0
      <4>1. \A b \in Accounts : t.delta[b].available + t.delta[b].locked = 0
        BY <3>1, <3>5, <3>7, <3>8 DEF ZeroBalance
      <4>2. QED
        BY <4>1, TotalZero
    <3>11. \A x \in Orders : t.hold[x].status = "ACTIVE" => hold[x].status = "ACTIVE"
      BY <1>1, <3>6, <3>7 DEF Inv, HoldInv
    <3>12. Written(c, t)
      BY <3>1, <3>2, <3>3, <3>5, <3>6, <3>9, <3>10, <3>11 DEF Written
    <3>13. IdleInv'
      <4>1. \A p \in Calls : p # c => tx'[p] = tx[p]
        BY <1>1, <2>4
      <4>2. QED
        BY <1>1, <2>1, <2>2, <4>1 DEF Inv, IdleInv
    <3>14. QED
      BY <1>1, <2>1, <2>4, <3>12, <3>13, BlockKeeps
  <2>5. QED
    BY <2>3, <2>4, <1>4 DEF ReleaseHold
<1>5. CASE CommitCancel(c)
  <2>1. UNCHANGED create /\ Commit(c) /\ cancel'[c].pc = "done"
        /\ \A d \in CancelCalls : d # c => cancel'[d] = cancel[d]
    BY <1>1, <1>5 DEF CommitCancel, Canceller
  <2>2. tx'[c] = NoTx /\ \A p \in Calls : p # c => tx'[p] = tx[p]
    BY <1>1, <2>1 DEF Commit
  <2>3. IdleInv'
    BY <1>1, <2>1, <2>2 DEF Inv, IdleInv
  <2>4. QED
    BY <1>1, <2>1, <2>3, CommitKeeps
<1>6. QED
  BY <1>2, <1>3, <1>4, <1>5 DEF CancelStep

\* A transaction that fails, or every one of them with the process, leaves
\* nothing behind.
LEMMA FailKeeps ==
    ASSUME Inv, NEW p \in Calls, FailTransaction(p)
    PROVE  IdleInv' /\ LocksInv' /\ FundsInv' /\ BalancedInv' /\ HoldInv'
<1>1. /\ tx' = [tx EXCEPT ![p] = NoTx] /\ UNCHANGED <<account, hold>>
      /\ tx \in [Calls -> Tx] /\ create \in [Orders -> Handlers]
      /\ cancel \in [CancelCalls -> Cancellers]
      /\ Orders \subseteq Calls /\ CancelCalls \subseteq Calls
  BY DEF FailTransaction, db, Inv, TypeInv, TypeOK, Calls
<1>2. tx'[p] = NoTx /\ \A q \in Calls : q # p => tx'[q] = tx[q]
  BY <1>1
<1>3. \A q \in Calls : tx'[q] \in {tx[q], NoTx}
  BY <1>2
<1>4. /\ \A o \in Orders : o # p => create'[o] = create[o]
      /\ \A c \in CancelCalls : c # p => cancel'[c] = cancel[c]
  BY <1>1 DEF FailTransaction
<1>5. IdleInv'
  BY <1>1, <1>2, <1>4, NoTxFields DEF Inv, IdleInv
<1>6. QED
  BY <1>1, <1>3, <1>5, RollbackKeeps

LEMMA RestartKeeps ==
    ASSUME Inv, Restart
    PROVE  IdleInv' /\ LocksInv' /\ FundsInv' /\ BalancedInv' /\ HoldInv'
<1>1. UNCHANGED <<account, hold>> /\ \A p \in Calls : tx'[p] = NoTx
  BY DEF Restart, db
<1>2. \A q \in Calls : tx'[q] \in {tx[q], NoTx}
  BY <1>1
<1>3. IdleInv'
  BY <1>1, NoTxFields DEF IdleInv, Calls
<1>4. QED
  BY <1>1, <1>2, <1>3, RollbackKeeps
-----------------------------------------------------------------------------
(* The specification *)

LEMMA InitInv ==
    ASSUME Init
    PROVE  Inv
<1>1. /\ TypeInv /\ account = InitialAccount /\ \A p \in Calls : tx[p] = NoTx
      /\ Orders \subseteq Calls /\ CancelCalls \subseteq Calls
  BY InitType DEF Init, Calls
<1>2. ASSUME NEW a \in UserAccounts
      PROVE  account[a].available \in Int /\ account[a].available >= 0 /\ a \in Accounts
  <2>1. a \in Accounts /\ a[1] \in Users /\ a[2] \in Assets
    BY DEF UserAccounts, Accounts
  <2>2. InitialBalance[a[1]][a[2]] \in Nat
    BY <2>1, ExchangeAssumption
  <2>3. account[a].available = InitialBalance[a[1]][a[2]]
    BY <1>1, <2>1 DEF InitialAccount
  <2>4. QED
    BY <2>1, <2>2, <2>3
<1>3. IdleInv
  BY <1>1, NoTxFields DEF IdleInv
<1>4. LocksInv
  BY <1>1, NoTxFields DEF LocksInv
<1>5. FundsInv
  BY <1>1, <1>2, NoTxFields DEF FundsInv, AvailableNonNegative, ZeroBalance
<1>6. BalancedInv
  BY <1>1, NoTxFields DEF BalancedInv, ValueConserved
<1>7. HoldInv
  BY <1>1, NoTxFields DEF HoldInv, NoHold
<1>8. QED
  BY <1>1, <1>3, <1>4, <1>5, <1>6, <1>7 DEF Inv

LEMMA StepInv ==
    ASSUME Inv, [Next]_vars
    PROVE  Inv'
<1>1. TypeInv'
  BY StepType DEF Inv
<1>2. CASE UNCHANGED vars
  <2>1. UNCHANGED <<account, hold, create, cancel, tx>>
    BY <1>2 DEF vars, db
  <2>2. \A p \in Calls : tx'[p] \in {tx[p], NoTx}
    BY <2>1
  <2>3. IdleInv'
    BY <2>1 DEF Inv, IdleInv
  <2>4. QED
    BY <1>1, <2>1, <2>2, <2>3, RollbackKeeps DEF Inv
<1>3. ASSUME NEW o \in Orders, ReceiveOrder(o) \/ CreateStep(o)
      PROVE  Inv'
  BY <1>1, <1>3, CreateKeeps DEF Inv
<1>4. ASSUME NEW c \in CancelCalls, ReceiveCancel(c) \/ CancelStep(c)
      PROVE  Inv'
  BY <1>1, <1>4, CancelKeeps DEF Inv
<1>5. ASSUME NEW p \in Calls, FailTransaction(p)
      PROVE  Inv'
  BY <1>1, <1>5, FailKeeps DEF Inv
<1>6. CASE Restart
  BY <1>1, <1>6, RestartKeeps DEF Inv
<1>7. QED
  BY <1>2, <1>3, <1>4, <1>5, <1>6 DEF Next

\* The invariant that makes the funds safe is one of the specification.
THEOREM InvCorrect == Spec => []Inv
<1>1. Init => Inv
  BY InitInv
<1>2. Inv /\ [Next]_vars => Inv'
  BY StepInv
<1>3. QED
  BY <1>1, <1>2, PTL DEF Spec

\* For any number of traders, orders and calls, the guarded debits and the row
\* locks of lockFunds, reduceHold, releaseHold and postTransaction keep every
\* available balance from going below zero (ledger-design.md, invariant 1).
THEOREM FundsNeverNegative == Spec => []AvailableNonNegative
<1>1. Inv => AvailableNonNegative
  BY DEF Inv, FundsInv
<1>2. QED
  BY <1>1, InvCorrect, PTL

\* For any number of traders, orders and calls, and any fee rates below one, no
\* interleaving, failure or restart creates or destroys funds (ledger-design.md,
\* invariant 3).
THEOREM ValueIsConserved == Spec => []ValueConserved
<1>1. Inv => ValueConserved
  BY DEF Inv, BalancedInv
<1>2. QED
  BY <1>1, InvCorrect, PTL

-----------------------------------------------------------------------------
(* Orders that are not placed *)

\* The call that creates x has not reached its order.create.
Fresh(x) == create[x].pc \in {"new", "placing"}

\* No row and no open transaction has x.
NoRow(x) ==
    /\ hold[x] = NoHold /\ order[x] = NoOrder
    /\ \A p \in Calls : tx[p].hold[x] = NoHold /\ tx[p].order[x] = NoOrder

\* Neither the engine nor a call works on x.
NoUse(x) ==
    /\ \A e \in book : e.id # x
    /\ \A o \in Orders : \A f \in create[o].fills : f.maker # x
    /\ \A c \in CancelCalls : target[c] = x => cancel[c].pc \notin CancellingPcs

FreshInv == \A x \in Orders : Fresh(x) => NoRow(x) /\ NoUse(x)

\* A transaction writes no row of an order that is not placed.
Spares(t) == \A x \in Orders : Fresh(x) => t.hold[x] = NoHold /\ t.order[x] = NoOrder
-----------------------------------------------------------------------------
(* What a step of a settlement touches *)

\* The orders a settlement works on are placed.
LEMMA SidesPlaced ==
    ASSUME Inv, FreshInv, NEW o \in Orders, ~Fresh(o), create[o].fills # {}
    PROVE  ~Fresh(NextFill(o).maker) /\ ~Fresh(Buyer(o)) /\ ~Fresh(Seller(o))
<1>1. NextFill(o) \in create[o].fills /\ NextFill(o).maker \in Orders
  BY NextFillType DEF Inv, TypeInv
<1>2. ~Fresh(NextFill(o).maker)
  BY <1>1 DEF FreshInv, NoUse
<1>3. QED
  BY <1>2 DEF Buyer, Seller

LEMMA TxSpares ==
    ASSUME FreshInv, NEW p \in Calls
    PROVE  Spares(tx[p])
BY DEF FreshInv, NoRow, Spares

\* reduceHold writes the hold it is called for, and no order.
LEMMA ReduceHoldSpares ==
    ASSUME Inv, NEW o \in Orders, NEW x \in Orders, ~Fresh(x), NEW amount \in Nat,
           NEW t \in Tx, Spares(t)
    PROVE  Spares(reduceHold(t, o, x, amount)) /\ reduceHold(t, o, x, amount) \in Tx
<1> DEFINE r == reduceHold(t, o, x, amount)
<1>1. r \in Tx
  BY ReduceHoldType DEF Inv, TypeInv
<1>2. r.order = t.order /\ \A y \in Orders : y # x => r.hold[y] = t.hold[y]
  BY DEF reduceHold, Tx
<1>3. QED
  BY <1>1, <1>2 DEF Spares

\* A write to the row of a placed order.
LEMMA OrderWriteSpares ==
    ASSUME NEW x \in Orders, ~Fresh(x), NEW row \in OrderRow, NEW t \in Tx, Spares(t)
    PROVE  Spares([t EXCEPT !.order[x] = row])
BY DEF Spares, Tx

\* One block of a settlement.
LEMMA SettleFresh ==
    ASSUME Inv, FreshInv, NEW o \in Orders, NEW t \in Tx, NEW h, Settle(o, t, h),
           ~Fresh(o), h.pc \in SettlingPcs, h.fills \subseteq create[o].fills, Spares(t)
    PROVE  FreshInv'
<1>1. /\ create' = [create EXCEPT ![o] = h] /\ create \in [Orders -> Handlers]
      /\ tx' = [tx EXCEPT ![o] = [t EXCEPT !.rows = t.rows \cup Needs(o)]]
      /\ tx \in [Calls -> Tx] /\ o \in Calls
      /\ UNCHANGED <<hold, order, book, target, cancel>>
  BY DEF Settle, db, engine, inputs, Inv, TypeInv, TypeOK, Calls
<1>2. create'[o] = h /\ \A y \in Orders : y # o => create'[y] = create[y]
  BY <1>1
<1>3. \A x \in Orders : Fresh(x)' => Fresh(x) /\ x # o
  BY <1>2 DEF Fresh, SettlingPcs
<1>4. /\ tx'[o].hold = t.hold /\ tx'[o].order = t.order
      /\ \A p \in Calls : p # o => tx'[p] = tx[p]
  BY <1>1 DEF Tx
<1>5. SUFFICES ASSUME NEW x \in Orders, Fresh(x), x # o PROVE NoRow(x)' /\ NoUse(x)'
  BY <1>3 DEF FreshInv
<1>6. NoRow(x)'
  BY <1>1, <1>4, <1>5 DEF FreshInv, NoRow, Spares
<1>7. NoUse(x)'
  BY <1>1, <1>2, <1>5 DEF FreshInv, NoUse
<1>8. QED
  BY <1>6, <1>7

\* The settlement blocks.
LEMMA SettlementFresh ==
    ASSUME Inv, FreshInv, NEW o \in Orders,
           \/ ReadBuyerHold(o) \/ ReduceBuyerHold(o) \/ PostFill(o) \/ FillMaker(o)
           \/ FillTaker(o) \/ ReadRemainderHold(o) \/ CancelRemainder(o)
    PROVE  FreshInv'
<1>1. /\ o \in Calls /\ tx[o] \in Tx /\ create[o] \in Handlers /\ TypeOK
      /\ OrderSeen(o, o) \in OrderRow /\ create[o].seenOrder \in OrderRow
      /\ create[o].left \in Nat
  BY SeenType DEF Inv, TypeInv, TypeOK, Handlers, Calls
<1>2. create[o].pc \in SettlingPcs
  BY DEF ReadBuyerHold, ReduceBuyerHold, PostFill, FillMaker, FillTaker,
         ReadRemainderHold, CancelRemainder, SettlingPcs
<1>3. ~Fresh(o)
  BY <1>2 DEF Fresh, SettlingPcs
<1>4. Spares(tx[o])
  BY <1>1, TxSpares
<1>5. ASSUME create[o].pc \in {"buyer", "seller", "maker", "taker"}
      PROVE  /\ create[o].fills # {}
             /\ NextFill(o).maker \in Orders /\ NextFill(o).quantity \in Nat
             /\ Buyer(o) \in Orders /\ Seller(o) \in Orders
             /\ ~Fresh(NextFill(o).maker) /\ ~Fresh(Buyer(o)) /\ ~Fresh(Seller(o))
  <2>1. create[o].fills # {}
    BY <1>5 DEF Inv, TypeInv, AtFill
  <2>2. QED
    BY <1>1, <1>3, <2>1, NextFillType, SidesPlaced
<1>9. CASE ReadBuyerHold(o)
  <2> DEFINE h == [create[o] EXCEPT !.pc = "buyer", !.seenHold = HoldSeen(o, Buyer(o))]
  <2>1. Settle(o, tx[o], h)
    BY <1>9 DEF ReadBuyerHold
  <2>2. h.pc \in SettlingPcs /\ h.fills \subseteq create[o].fills
    BY <1>1 DEF SettlingPcs, Handlers
  <2> HIDE DEF h
  <2>3. QED
    BY <1>1, <1>3, <1>4, <2>1, <2>2, SettleFresh
<1>10. CASE ReduceBuyerHold(o)
  <2> DEFINE t == reduceHold(tx[o], o, Buyer(o), reserveAmount(Buyer(o), NextFill(o).quantity))
             h == [create[o] EXCEPT !.pc = "seller", !.seenHold = HoldSeen(o, Seller(o))]
  <2>1. Settle(o, t, h) /\ create[o].pc = "buyer"
    BY <1>10 DEF ReduceBuyerHold
  <2>2. h.pc \in SettlingPcs /\ h.fills \subseteq create[o].fills
    BY <1>1 DEF SettlingPcs, Handlers
  <2>3. reserveAmount(Buyer(o), NextFill(o).quantity) \in Nat
    BY <1>1, <1>5, <2>1, ReserveType
  <2>4. t \in Tx /\ Spares(t)
    BY <1>1, <1>4, <1>5, <2>1, <2>3, ReduceHoldSpares
  <2> HIDE DEF h, t
  <2>5. QED
    BY <1>3, <2>1, <2>2, <2>4, SettleFresh
<1>11. CASE PostFill(o)
  <2> DEFINE h == [create[o] EXCEPT !.pc = "maker",
                                    !.seenOrder = OrderSeen(o, NextFill(o).maker)]
             r == reduceHold(tx[o], o, Seller(o), NextFill(o).quantity)
             t == FillTx(o)
  <2>1. Settle(o, t, h) /\ create[o].pc = "seller"
    BY <1>11 DEF PostFill
  <2>2. h.pc \in SettlingPcs /\ h.fills \subseteq create[o].fills
    BY <1>1 DEF SettlingPcs, Handlers
  <2>3. r \in Tx /\ Spares(r)
    BY <1>1, <1>4, <1>5, <2>1, ReduceHoldSpares
  <2>4. t \in Tx
    BY <2>1, FillTxType DEF Inv
  <2>5. t.hold = r.hold /\ t.order = r.order
    BY <2>3 DEF FillTx, Tx
  <2>6. Spares(t)
    BY <2>3, <2>5 DEF Spares
  <2> HIDE DEF h, r, t
  <2>7. QED
    BY <1>3, <2>1, <2>2, <2>4, <2>6, SettleFresh
<1>12. CASE FillMaker(o)
  <2> DEFINE row == Applied(create[o].seenOrder, NextFill(o).quantity)
             t == [tx[o] EXCEPT !.order[NextFill(o).maker] = row]
             h == [create[o] EXCEPT !.pc = "taker", !.seenOrder = OrderSeen(o, o)]
  <2>1. Settle(o, t, h) /\ create[o].pc = "maker"
    BY <1>12 DEF FillMaker
  <2>2. h.pc \in SettlingPcs /\ h.fills \subseteq create[o].fills
    BY <1>1 DEF SettlingPcs, Handlers
  <2>3. row \in OrderRow
    BY <1>1, <1>5, <2>1, AppliedType
  <2> HIDE DEF row
  <2>4. t \in Tx /\ Spares(t)
    BY <1>1, <1>4, <1>5, <2>1, <2>3, OrderWriteType, OrderWriteSpares
  <2> HIDE DEF h, t
  <2>5. QED
    BY <1>3, <2>1, <2>2, <2>4, SettleFresh
<1>13. CASE FillTaker(o)
  <2> DEFINE row == Applied(create[o].seenOrder, NextFill(o).quantity)
             t == [tx[o] EXCEPT !.order[o] = row]
             h == [create[o] EXCEPT !.pc = "fill", !.fills = @ \ {NextFill(o)},
                                    !.seenHold = NoHold, !.seenOrder = NoOrder]
  <2>1. Settle(o, t, h) /\ create[o].pc = "taker"
    BY <1>13 DEF FillTaker
  <2>2. h.pc \in SettlingPcs /\ h.fills \subseteq create[o].fills
    BY <1>1 DEF SettlingPcs, Handlers
  <2>3. row \in OrderRow
    BY <1>1, <1>5, <2>1, AppliedType
  <2> HIDE DEF row
  <2>4. t \in Tx /\ Spares(t)
    BY <1>1, <1>3, <1>4, <2>3, OrderWriteType, OrderWriteSpares
  <2> HIDE DEF h, t
  <2>5. QED
    BY <1>3, <2>1, <2>2, <2>4, SettleFresh
<1>14. CASE ReadRemainderHold(o)
  <2> DEFINE h == [create[o] EXCEPT !.pc = "remainder", !.seenHold = HoldSeen(o, o)]
  <2>1. Settle(o, tx[o], h)
    BY <1>14 DEF ReadRemainderHold
  <2>2. h.pc \in SettlingPcs /\ h.fills \subseteq create[o].fills
    BY <1>1 DEF SettlingPcs, Handlers
  <2> HIDE DEF h
  <2>3. QED
    BY <1>1, <1>3, <1>4, <2>1, <2>2, SettleFresh
<1>15. CASE CancelRemainder(o)
  <2> DEFINE amount == reserveAmount(o, create[o].left)
             r == reduceHold(tx[o], o, o, amount)
             row == [OrderSeen(o, o) EXCEPT !.status = "CANCELLED"]
             t == [r EXCEPT !.order[o] = row]
             h == [create[o] EXCEPT !.pc = "fill", !.cancelRest = FALSE, !.seenHold = NoHold]
  <2>1. Settle(o, t, h)
    BY <1>15 DEF CancelRemainder
  <2>2. h.pc \in SettlingPcs /\ h.fills \subseteq create[o].fills
    BY <1>1 DEF SettlingPcs, Handlers
  <2>3. amount \in Nat
    BY <1>1, ReserveType
  <2>4. row \in OrderRow
    BY <1>1 DEF OrderRow, OrderStatuses
  <2> HIDE DEF amount, row
  <2>5. r \in Tx /\ Spares(r)
    BY <1>1, <1>3, <1>4, <2>3, ReduceHoldSpares
  <2> HIDE DEF r
  <2>6. t \in Tx /\ Spares(t)
    BY <1>3, <2>4, <2>5, OrderWriteType, OrderWriteSpares
  <2> HIDE DEF h, t
  <2>7. QED
    BY <1>3, <2>1, <2>2, <2>6, SettleFresh
<1>16. QED
  BY <1>9, <1>10, <1>11, <1>12, <1>13, <1>14, <1>15
-----------------------------------------------------------------------------
(* What the other steps touch *)

\* A submit trades with orders that rest, and leaves them and the taker.
LEMMA MatchedIds ==
    ASSUME NEW bk, bk \subseteq BookEntry, NEW taker \in BookEntry
    PROVE  /\ \A f \in Fills(bk, taker) : \E e \in bk : f.maker = e.id
           /\ \A e \in Matched(bk, taker) : e.id = taker.id \/ \E d \in bk : e.id = d.id
<1> DEFINE makers == Makers(bk, taker)
           taken(e) == Taken(makers, taker.remaining, e)
           left == Left(bk, taker)
<1>1. makers \subseteq bk
  BY DEF Makers, Reachable
<1>2. ASSUME NEW f \in Fills(bk, taker) PROVE \E e \in bk : f.maker = e.id
  <2>1. PICK e \in makers : f = FillOf(makers, taker.remaining, e)
    BY <1>2 DEF Fills
  <2>2. f.maker = e.id
    BY <2>1 DEF FillOf
  <2>3. QED
    BY <1>1, <2>2
<1>3. ASSUME NEW e \in Matched(bk, taker)
      PROVE  e.id = taker.id \/ \E d \in bk : e.id = d.id
  <2>1. \/ e \in bk
        \/ \E d \in makers : e = [d EXCEPT !.remaining = d.remaining - taken(d)]
        \/ e = [taker EXCEPT !.remaining = left]
    BY <1>3 DEF Matched, AfterFills
  <2> HIDE DEF taken, left, makers
  <2>2. CASE \E d \in makers : e = [d EXCEPT !.remaining = d.remaining - taken(d)]
    <3>1. PICK d \in makers : e = [d EXCEPT !.remaining = d.remaining - taken(d)]
      BY <2>2
    <3>2. e.id = d.id
      BY <1>1, <3>1 DEF BookEntry
    <3>3. QED
      BY <1>1, <3>2
  <2>3. CASE e = [taker EXCEPT !.remaining = left]
    BY <2>3 DEF BookEntry
  <2>4. QED
    BY <2>1, <2>2, <2>3
<1>4. QED
  BY <1>2, <1>3

\* The rows that exist once a transaction commits were written by createOrder.
LEMMA CommitFresh ==
    ASSUME Inv, FreshInv, NEW p \in Calls, Commit(p), NEW x \in Orders, Fresh(x)
    PROVE  NoRow(x)'
<1>1. tx \in [Calls -> Tx] /\ NoRow(x)
  BY DEF Inv, TypeInv, TypeOK, FreshInv
<1>2. hold'[x] = NoHold /\ order'[x] = NoOrder
  BY <1>1 DEF Commit, NoRow, HoldSeen, OrderSeen
<1>3. \A q \in Calls : tx'[q] \in {tx[q], NoTx}
  BY <1>1 DEF Commit
<1>4. QED
  BY <1>1, <1>2, <1>3, NoTxFields DEF NoRow

\* A step that starts nothing new: calls end, transactions roll back, and the
\* engine and its fills only shrink.
LEMMA NothingNew ==
    ASSUME FreshInv, UNCHANGED <<hold, order, target>>,
           \A p \in Calls : tx'[p] \in {tx[p], NoTx},
           \A e \in book' : \E d \in book : e.id = d.id,
           \A x \in Orders : /\ create'[x].fills \subseteq create[x].fills
                             /\ Fresh(x)' => Fresh(x),
           \A c \in CancelCalls : cancel'[c].pc \in CancellingPcs
                                    => cancel[c].pc \in CancellingPcs
    PROVE  FreshInv'
<1>1. SUFFICES ASSUME NEW x \in Orders, Fresh(x) PROVE NoRow(x)' /\ NoUse(x)'
  BY DEF FreshInv
<1>2. NoRow(x) /\ NoUse(x)
  BY <1>1 DEF FreshInv
<1>3. NoRow(x)'
  BY <1>2, NoTxFields DEF NoRow
<1>4. NoUse(x)'
  BY <1>2 DEF NoUse
<1>5. QED
  BY <1>3, <1>4

\* The other steps of a createOrder call.
LEMMA CreateFresh ==
    ASSUME Inv, FreshInv, NEW o \in Orders, ReceiveOrder(o) \/ CreateStep(o)
    PROVE  FreshInv'
<1>1. /\ o \in Calls /\ create \in [Orders -> Handlers] /\ tx \in [Calls -> Tx]
      /\ order \in [Orders -> OrderRow] /\ hold \in [Orders -> HoldRow]
      /\ book \subseteq BookEntry
  BY DEF Calls, Inv, TypeInv, TypeOK
<1>2. \A pc : Handler(pc).pc = pc /\ Handler(pc).fills = {}
  BY DEF Handler
<1>3. CASE ReceiveOrder(o)
  <2>1. /\ UNCHANGED <<hold, order, target, tx, book, cancel>> /\ create[o].pc = "new"
        /\ \E pc : create' = [create EXCEPT ![o] = Handler(pc)]
    BY <1>3 DEF ReceiveOrder, db, engine, inputs
  <2>2. \A x \in Orders : create'[x].fills \subseteq create[x].fills
                          /\ (Fresh(x)' => Fresh(x))
    BY <1>1, <1>2, <2>1 DEF Fresh
  <2>3. QED
    BY <2>1, <2>2, NothingNew
<1>4. CASE PlaceOrder(o)
  <2>1. /\ UNCHANGED <<target, tx, book, cancel>>
        /\ \A x \in Orders \ {o} : hold'[x] = hold[x] /\ order'[x] = order[x]
        /\ \E pc \in {"placed", "rejected"} : create' = [create EXCEPT ![o] = Handler(pc)]
    BY <1>1, <1>4 DEF PlaceOrder, engine, inputs
  <2>2. \A x \in Orders : create'[x].fills \subseteq create[x].fills
                          /\ (Fresh(x)' => Fresh(x) /\ x # o)
    BY <1>1, <1>2, <2>1 DEF Fresh
  <2>3. SUFFICES ASSUME NEW x \in Orders, Fresh(x), x # o PROVE NoRow(x)' /\ NoUse(x)'
    BY <2>2 DEF FreshInv
  <2>4. NoRow(x) /\ NoUse(x)
    BY <2>3 DEF FreshInv
  <2>5. NoRow(x)'
    BY <2>1, <2>3, <2>4 DEF NoRow
  <2>6. NoUse(x)'
    BY <2>1, <2>2, <2>4 DEF NoUse
  <2>7. QED
    BY <2>5, <2>6
<1>5. CASE SubmitOrder(o)
  <2> DEFINE taker == EngineOrder(o, request[o].quantity, arrivals + 1)
  <2>1. /\ UNCHANGED <<hold, order, target, tx, cancel>> /\ create[o].pc = "placed"
        /\ book' = Matched(book, taker)
    BY <1>5 DEF SubmitOrder, db, inputs
  <2>2. taker \in BookEntry /\ taker.id = o
    BY RequestType DEF EngineOrder, BookEntry, Inv, TypeInv, TypeOK
  <2>3. /\ \A x \in Orders \ {o} : create'[x] = create[x]
        /\ create'[o].pc \in {"done", "fill"}
        /\ create'[o].fills \subseteq Fills(book, taker)
    BY <1>1, <1>5 DEF SubmitOrder, Handler
  <2> HIDE DEF taker
  <2>4. /\ \A f \in Fills(book, taker) : \E e \in book : f.maker = e.id
        /\ \A e \in book' : e.id = o \/ \E d \in book : e.id = d.id
    BY <1>1, <2>1, <2>2, MatchedIds
  <2>5. \A x \in Orders : Fresh(x)' => Fresh(x) /\ x # o
    BY <2>3 DEF Fresh
  <2>6. SUFFICES ASSUME NEW x \in Orders, Fresh(x), x # o PROVE NoRow(x)' /\ NoUse(x)'
    BY <2>5 DEF FreshInv
  <2>7. NoRow(x) /\ NoUse(x)
    BY <2>6 DEF FreshInv
  <2>8. NoRow(x)'
    BY <2>1, <2>7 DEF NoRow
  <2>9. \A e \in book' : e.id # x
    BY <2>4, <2>6, <2>7 DEF NoUse
  <2>10. \A y \in Orders : \A f \in create'[y].fills : f.maker # x
    BY <2>3, <2>4, <2>7 DEF NoUse
  <2>11. QED
    BY <2>1, <2>7, <2>8, <2>9, <2>10 DEF NoUse
<1>6. CASE SettlementShort(o)
  <2>1. /\ UNCHANGED <<hold, order, target, book, cancel>>
        /\ tx' = [tx EXCEPT ![o] = NoTx]
        /\ create' = [create EXCEPT ![o] = Handler("insufficient")]
    BY <1>6 DEF SettlementShort, db, engine, inputs
  <2>2. \A x \in Orders : create'[x].fills \subseteq create[x].fills
                          /\ (Fresh(x)' => Fresh(x))
    BY <1>1, <1>2, <2>1 DEF Fresh
  <2>3. \A p \in Calls : tx'[p] \in {tx[p], NoTx}
    BY <1>1, <2>1
  <2>4. QED
    BY <2>1, <2>2, <2>3, NothingNew
<1>7. CASE CommitSettlement(o)
  <2>1. /\ UNCHANGED <<target, book, cancel>> /\ Commit(o)
        /\ create' = [create EXCEPT ![o] = Handler("done")]
    BY <1>7 DEF CommitSettlement, engine, inputs
  <2>2. \A x \in Orders : create'[x].fills \subseteq create[x].fills
                          /\ (Fresh(x)' => Fresh(x))
    BY <1>1, <1>2, <2>1 DEF Fresh
  <2>3. SUFFICES ASSUME NEW x \in Orders, Fresh(x) PROVE NoRow(x)' /\ NoUse(x)'
    BY <2>2 DEF FreshInv
  <2>4. NoRow(x)'
    BY <1>1, <2>1, <2>3, CommitFresh
  <2>5. NoUse(x)'
    BY <2>1, <2>2, <2>3 DEF FreshInv, NoUse
  <2>6. QED
    BY <2>4, <2>5
<1>8. QED
  BY <1>3, <1>4, <1>5, <1>6, <1>7, SettlementFresh DEF CreateStep

\* The steps of a cancellation: its target is placed.
LEMMA CancelFresh ==
    ASSUME Inv, FreshInv, NEW c \in CancelCalls, ReceiveCancel(c) \/ CancelStep(c)
    PROVE  FreshInv'
<1> DEFINE o == target[c]
<1>1. /\ c \in Calls /\ o \in Orders /\ tx \in [Calls -> Tx] /\ tx[c] \in Tx
      /\ cancel \in [CancelCalls -> Cancellers]
  BY DEF Calls, Inv, TypeInv, TypeOK
<1>2. CASE ReceiveCancel(c)
  <2>1. UNCHANGED <<hold, order, target, tx, book, create>> /\ o \in Placed
        /\ \A d \in CancelCalls \ {c} : cancel'[d] = cancel[d]
    BY <1>1, <1>2 DEF ReceiveCancel, db, engine, inputs
  <2>2. ~Fresh(o)
    BY <1>1, <2>1 DEF FreshInv, NoRow, Placed, NoOrder
  <2>3. SUFFICES ASSUME NEW x \in Orders, Fresh(x) PROVE NoRow(x)' /\ NoUse(x)'
    BY <2>1 DEF FreshInv, Fresh
  <2>4. NoRow(x) /\ NoUse(x)
    BY <2>3 DEF FreshInv
  <2>5. QED
    BY <2>1, <2>2, <2>3, <2>4 DEF NoRow, NoUse
<1>3. CASE MarkCancelled(c) \/ ReleaseHold(c)
  <2>1. /\ UNCHANGED <<hold, order, target, create>> /\ book' \subseteq book
        /\ cancel[c].pc \in CancellingPcs
        /\ \A d \in CancelCalls \ {c} : cancel'[d] = cancel[d]
    BY <1>1, <1>3 DEF MarkCancelled, ReleaseHold, db, engine, inputs, CancellingPcs
  <2>2. ~Fresh(o)
    BY <1>1, <2>1 DEF FreshInv, NoUse
  <2>3. /\ \A p \in Calls \ {c} : tx'[p] = tx[p]
        /\ \A x \in Orders \ {o} : /\ tx'[c].hold[x] = tx[c].hold[x]
                                   /\ tx'[c].order[x] = tx[c].order[x]
    <3>1. CASE MarkCancelled(c)
      BY <1>1, <3>1 DEF MarkCancelled, Tx
    <3>2. CASE ReleaseHold(c)
      <4>1. releaseHold(c) \in Tx
        BY ReleaseHoldType DEF Inv, TypeInv
      <4>2. /\ releaseHold(c).order = tx[c].order
            /\ \A x \in Orders \ {o} : releaseHold(c).hold[x] = tx[c].hold[x]
        BY <1>1 DEF releaseHold, Tx
      <4>3. \/ UNCHANGED tx
            \/ \E rows : tx' = [tx EXCEPT ![c] = [releaseHold(c) EXCEPT !.rows = rows]]
        BY <3>2 DEF ReleaseHold
      <4>4. QED
        BY <1>1, <4>1, <4>2, <4>3 DEF Tx
    <3>3. QED
      BY <1>3, <3>1, <3>2
  <2>4. SUFFICES ASSUME NEW x \in Orders, Fresh(x) PROVE NoRow(x)' /\ NoUse(x)'
    BY <2>1 DEF FreshInv, Fresh
  <2>5. NoRow(x) /\ NoUse(x) /\ x # o
    BY <2>2, <2>4 DEF FreshInv
  <2>6. NoRow(x)'
    BY <2>1, <2>3, <2>5 DEF NoRow
  <2>7. NoUse(x)'
    BY <2>1, <2>5 DEF NoUse
  <2>8. QED
    BY <2>6, <2>7
<1>4. CASE CommitCancel(c)
  <2>1. /\ UNCHANGED <<target, book, create>> /\ Commit(c)
        /\ cancel' = [cancel EXCEPT ![c] = Canceller("done")]
    BY <1>4 DEF CommitCancel, engine, inputs
  <2>2. \A d \in CancelCalls : cancel'[d].pc \in CancellingPcs
                                => cancel[d].pc \in CancellingPcs
    BY <1>1, <2>1 DEF Canceller, CancellingPcs
  <2>3. SUFFICES ASSUME NEW x \in Orders, Fresh(x) PROVE NoRow(x)' /\ NoUse(x)'
    BY <2>1 DEF FreshInv, Fresh
  <2>4. NoRow(x)'
    BY <1>1, <2>1, <2>3, CommitFresh
  <2>5. NoUse(x)'
    BY <2>1, <2>2, <2>3 DEF FreshInv, NoUse
  <2>6. QED
    BY <2>4, <2>5
<1>5. QED
  BY <1>2, <1>3, <1>4 DEF CancelStep

LEMMA FailFresh ==
    ASSUME Inv, FreshInv, NEW p \in Calls, FailTransaction(p)
    PROVE  FreshInv'
<1>1. /\ UNCHANGED <<hold, order, target, book>> /\ tx' = [tx EXCEPT ![p] = NoTx]
      /\ tx \in [Calls -> Tx] /\ create \in [Orders -> Handlers]
      /\ cancel \in [CancelCalls -> Cancellers]
  BY DEF FailTransaction, db, engine, inputs, Inv, TypeInv, TypeOK
<1>2. \A q \in Calls : tx'[q] \in {tx[q], NoTx}
  BY <1>1
<1>3. \A x \in Orders : create'[x].fills \subseteq create[x].fills
                        /\ (Fresh(x)' => Fresh(x))
  BY <1>1 DEF FailTransaction, Fresh, Handler
<1>4. \A c \in CancelCalls : cancel'[c].pc \in CancellingPcs
                                => cancel[c].pc \in CancellingPcs
  BY <1>1 DEF FailTransaction, Canceller, CancellingPcs
<1>5. QED
  BY <1>1, <1>2, <1>3, <1>4, NothingNew

\* The rebuilt book is made of placed orders.
LEMMA RestartFresh ==
    ASSUME Inv, FreshInv, Restart
    PROVE  FreshInv'
<1>1. UNCHANGED <<hold, order, target>> /\ \A p \in Calls : tx'[p] = NoTx
  BY DEF Restart, db, inputs
<1>2. \A x \in Orders : create'[x].fills \subseteq create[x].fills
                        /\ (Fresh(x)' => Fresh(x))
  BY DEF Restart, Fresh, Handler
<1>3. \A c \in CancelCalls : cancel'[c].pc \in CancellingPcs
                                => cancel[c].pc \in CancellingPcs
  BY DEF Restart, Canceller, CancellingPcs
<1>4. \A e \in book' : e.id \in Orders /\ order[e.id].status \in OpenStatuses
  BY DEF Restart, EngineOrder
<1>5. SUFFICES ASSUME NEW x \in Orders, Fresh(x) PROVE NoRow(x)' /\ NoUse(x)'
  BY <1>2 DEF FreshInv
<1>6. NoRow(x) /\ NoUse(x)
  BY <1>5 DEF FreshInv
<1>7. NoRow(x)'
  BY <1>1, <1>6, NoTxFields DEF NoRow
<1>8. \A e \in book' : e.id # x
  BY <1>4, <1>6 DEF NoRow, NoOrder, OpenStatuses
<1>9. NoUse(x)'
  BY <1>1, <1>2, <1>3, <1>6, <1>8 DEF NoUse
<1>10. QED
  BY <1>7, <1>9
-----------------------------------------------------------------------------
(* The specification *)

LEMMA InitFresh ==
    ASSUME Init
    PROVE  FreshInv
<1>1. /\ \A x \in Orders : hold[x] = NoHold /\ order[x] = NoOrder
      /\ \A p \in Calls : tx[p] = NoTx
      /\ book = {}
      /\ \A o \in Orders : create[o].fills = {}
      /\ \A c \in CancelCalls : cancel[c].pc = "new"
  BY DEF Init, Handler, Canceller
<1>2. QED
  BY <1>1, NoTxFields DEF FreshInv, NoRow, NoUse, CancellingPcs

LEMMA StepFresh ==
    ASSUME Inv, FreshInv, [Next]_vars
    PROVE  FreshInv'
<1>1. CASE UNCHANGED vars
  <2>1. UNCHANGED <<hold, order, target, tx, book, create, cancel>>
    BY <1>1 DEF vars, db, engine, inputs
  <2>2. QED
    BY <2>1 DEF FreshInv, Fresh, NoRow, NoUse
<1>2. QED
  BY <1>1, CreateFresh, CancelFresh, FailFresh, RestartFresh DEF Next

\* A commit makes no hold active, and a hold is created once.
LEMMA StepClosed ==
    ASSUME Inv, FreshInv, [Next]_vars, NEW o \in Orders,
           hold[o].status \in {"RELEASED", "CONSUMED"}
    PROVE  hold'[o].status # "ACTIVE"
<1>1. CASE UNCHANGED hold
  BY <1>1
<1>2. ASSUME NEW p \in Calls, Commit(p) PROVE hold'[o].status # "ACTIVE"
  <2>1. hold'[o] = HoldSeen(p, o)
    BY <1>2 DEF Commit
  <2>2. tx[p].hold[o].status # "ACTIVE"
    BY DEF Inv, HoldInv
  <2>3. QED
    BY <2>1, <2>2 DEF HoldSeen
<1>3. ASSUME NEW x \in Orders, PlaceOrder(x) PROVE hold'[o].status # "ACTIVE"
  <2>1. Fresh(x)
    BY <1>3 DEF PlaceOrder, Fresh
  <2>2. x # o
    BY <2>1 DEF FreshInv, NoRow, NoHold
  <2>3. hold'[o] = hold[o]
    BY <1>3, <2>2 DEF PlaceOrder, Inv, TypeInv, TypeOK
  <2>4. QED
    BY <2>3
<1>4. ASSUME NEW x \in Orders, ReceiveOrder(x) \/ CreateStep(x)
      PROVE  \/ UNCHANGED hold
             \/ Commit(x)
             \/ PlaceOrder(x)
  BY <1>4 DEF ReceiveOrder, CreateStep, SubmitOrder, ReadBuyerHold, ReduceBuyerHold,
     PostFill, SettlementShort, FillMaker, FillTaker, ReadRemainderHold,
     CancelRemainder, CommitSettlement, Settle, db
<1>5. ASSUME NEW c \in CancelCalls, ReceiveCancel(c) \/ CancelStep(c)
      PROVE  UNCHANGED hold \/ Commit(c)
  BY <1>5 DEF ReceiveCancel, CancelStep, MarkCancelled, ReleaseHold, CommitCancel, db
<1>6. ASSUME NEW p \in Calls, FailTransaction(p) PROVE UNCHANGED hold
  BY <1>6 DEF FailTransaction, db
<1>7. UNCHANGED vars \/ Restart => UNCHANGED hold
  BY DEF vars, Restart, db
<1>8. Orders \subseteq Calls /\ CancelCalls \subseteq Calls
  BY DEF Calls
<1>9. QED
  BY <1>1, <1>2, <1>3, <1>4, <1>5, <1>6, <1>7, <1>8 DEF Next

\* For any number of traders, orders, calls, failures and restarts, a hold that
\* was released or consumed is never active again, although reduceHold and
\* releaseHold write it from a read that may be stale (balances.service.ts
\* 81-88, 129-135).
THEOREM HoldsClosedForGood == Spec => HoldsStayClosed
<1>1. Init => Inv /\ FreshInv
  BY InitInv, InitFresh
<1>2. Inv /\ FreshInv /\ [Next]_vars => Inv' /\ FreshInv'
  BY StepInv, StepFresh
<1>3. Inv /\ FreshInv /\ [Next]_vars =>
        [\A o \in Orders : hold[o].status \in {"RELEASED", "CONSUMED"}
                             => hold'[o].status # "ACTIVE"]_vars
  BY StepClosed
<1>4. QED
  BY <1>1, <1>2, <1>3, PTL DEF Spec, HoldsStayClosed
=============================================================================
