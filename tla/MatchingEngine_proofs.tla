----------------------- MODULE MatchingEngine_proofs -----------------------
(***************************************************************************)
(* For every set of users, prices and quantities and any number of calls:  *)
(* the book of PriceTimePriority is well formed and never crossed; the     *)
(* arrays of MatchingEngine stay sorted, with its binary search; and its   *)
(* loop implements PriceTimePriority.                                      *)
(*                                                                         *)
(* The parts, in order: the abstract engine; sequences and the binary      *)
(* search; levels, queues and sides; the invariant of the engine; what a   *)
(* pass and the end of the loop leave of the closed form of Matching; the  *)
(* refinement.                                                             *)
(***************************************************************************)
EXTENDS MatchingEngine, PriceTimePriority, SumLemmas, SequenceTheorems

\* The orders that can rest.
BookOrder == {e \in EngineOrder : e.type = "LIMIT"}

\* What the orders in a finite set offer is a natural number.
LEMMA OfferedType ==
    ASSUME NEW S, IsFiniteSet(S), S \subseteq EngineOrder
    PROVE  Offered(S) \in Nat
<1>1. [e \in S |-> e.remaining] \in [S -> Int]
  BY DEF EngineOrder
<1>2. QED
  BY <1>1, NatSumType DEF Offered

\* The makers of a taker are orders on the book.
LEMMA MakersInBook ==
    ASSUME NEW bk, IsFiniteSet(bk), NEW t
    PROVE  Makers(bk, t) \subseteq bk /\ IsFiniteSet(Makers(bk, t))
<1>1. Makers(bk, t) \subseteq bk
  BY DEF Makers, Reachable
<1>2. QED
  BY <1>1, FS_Subset

\* What a taker takes of an order is between nothing and all of it.
LEMMA TakenType ==
    ASSUME NEW makers, IsFiniteSet(makers), makers \subseteq EngineOrder,
           NEW quantity \in Nat, NEW e \in makers
    PROVE  /\ Taken(makers, quantity, e) \in Nat
           /\ Taken(makers, quantity, e) <= e.remaining
<1> DEFINE before == {f \in makers : Before(f, e)}
<1>1. IsFiniteSet(before) /\ before \subseteq EngineOrder
  BY FS_Subset
<1>2. Ahead(makers, e) \in Nat
  BY <1>1, OfferedType DEF Ahead
<1>3. e.remaining \in Nat
  BY DEF EngineOrder
<1>4. QED
  BY <1>2, <1>3 DEF Taken, Least

\* A taker that is left with a remainder has taken every maker whole.
LEMMA AllTaken ==
    ASSUME NEW bk, IsFiniteSet(bk), bk \subseteq EngineOrder,
           NEW t \in EngineOrder, Left(bk, t) > 0,
           NEW e \in Makers(bk, t)
    PROVE  Taken(Makers(bk, t), t.remaining, e) = e.remaining
<1> DEFINE makers == Makers(bk, t)
           before == {f \in makers : Before(f, e)}
           upto == before \cup {e}
           offer(S) == [f \in S |-> f.remaining]
<1>1. makers \subseteq bk /\ IsFiniteSet(makers) /\ makers \subseteq EngineOrder
  BY MakersInBook
<1>2. \A f \in makers : f.remaining \in Nat \ {0}
  BY <1>1 DEF EngineOrder
<1>3. e \notin before
  <2>1. e.price \in Nat /\ e.sequence \in Nat
    BY <1>1 DEF EngineOrder
  <2>2. ~Before(e, e)
    BY <2>1 DEF Before
  <2>3. QED
    BY <2>2
<1>4. IsFiniteSet(before) /\ before \subseteq makers
  BY <1>1, FS_Subset
<1>5. Offered(upto) = Offered(before) + e.remaining
  <2> DEFINE f == offer(before)
             g == offer(upto)
  <2>1. f \in [before -> Nat] /\ g \in [before \cup {e} -> Nat]
    BY <1>2, <1>4
  <2>2. (\A x \in before : g[x] = f[x]) /\ g[e] = e.remaining
    OBVIOUS
  <2>3. Offered(upto) = NatSum(g, before \cup {e}) /\ Offered(before) = NatSum(f, before)
    BY DEF Offered
  <2> HIDE DEF f, g, before
  <2>4. NatSum(g, before \cup {e}) = NatSum(f, before) + g[e]
    BY <1>3, <1>4, <2>1, <2>2, NatSumInsert
  <2>5. QED
    BY <2>2, <2>3, <2>4
<1>6. Offered(upto) <= Offered(makers)
  <2>1. upto \in SUBSET makers
    BY <1>4
  <2>2. offer(makers) \in [makers -> Int] /\ offer(upto) \in [upto -> Int]
    BY <1>2, <2>1
  <2>3. \A x \in upto : offer(upto)[x] = offer(makers)[x]
    BY <2>1
  <2>4. NatSum(offer(upto), upto) <= NatSum(offer(makers), makers)
    BY <1>1, <2>1, <2>2, <2>3, NatSumSubset
  <2>5. QED
    BY <2>4 DEF Offered
<1>7. Offered(makers) \in Nat /\ Offered(before) \in Nat
  BY <1>1, <1>4, OfferedType
<1>8. t.remaining \in Nat /\ e.remaining \in Nat
  BY <1>1 DEF EngineOrder
<1>9. Offered(makers) < t.remaining
  BY <1>7, <1>8 DEF Left, Least
<1>10. Ahead(makers, e) = Offered(before)
  BY DEF Ahead
<1> HIDE DEF makers, before, upto, offer
<1>11. Taken(makers, t.remaining, e) = e.remaining
  BY <1>5, <1>6, <1>7, <1>8, <1>9, <1>10 DEF Taken, Least
<1>12. QED
  BY <1>11 DEF makers
-----------------------------------------------------------------------------
\* Every order that is on the book after the fills was there before, at the
\* same price and place, with no more to offer.
LEMMA AfterFillsOrigin ==
    ASSUME NEW bk, IsFiniteSet(bk), bk \subseteq BookOrder, NEW t \in EngineOrder,
           NEW e \in AfterFills(bk, t)
    PROVE  \E m \in bk : /\ e = [m EXCEPT !.remaining = e.remaining]
                         /\ e.remaining \in Nat \ {0}
                         /\ m \in Makers(bk, t) =>
                              Taken(Makers(bk, t), t.remaining, m) < m.remaining
<1> DEFINE makers == Makers(bk, t)
           taken(m) == Taken(makers, t.remaining, m)
<1>1. makers \subseteq bk /\ IsFiniteSet(makers) /\ makers \subseteq EngineOrder
  BY MakersInBook DEF BookOrder
<1>2. t.remaining \in Nat /\ \A m \in bk : m.remaining \in Nat \ {0}
  BY DEF EngineOrder, BookOrder
<1>3. CASE e \in bk \ makers
  <2>1. e = [e EXCEPT !.remaining = e.remaining]
    BY <1>3 DEF BookOrder, EngineOrder
  <2>2. QED
    BY <1>2, <1>3, <2>1
<1>4. CASE e \notin bk \ makers
  <2>1. PICK m \in makers : taken(m) < m.remaining
                            /\ e = [m EXCEPT !.remaining = @ - taken(m)]
    BY <1>4, Zenon DEF AfterFills
  <2>2. taken(m) \in Nat
    BY <1>1, <1>2, TakenType
  <2>3. m \in BookOrder /\ m \in bk /\ m.remaining \in Nat
    BY <1>1, <1>2
  <2>4. e.remaining = m.remaining - taken(m)
    BY <2>1, <2>3 DEF BookOrder, EngineOrder
  <2>5. e.remaining \in Nat \ {0}
    BY <2>1, <2>2, <2>3, <2>4
  <2>6. e = [m EXCEPT !.remaining = e.remaining]
    BY <2>1, <2>4
  <2>7. QED
    BY <2>1, <2>3, <2>5, <2>6
<1>5. QED
  BY <1>3, <1>4

\* An order submitted to an uncrossed book leaves an uncrossed book.
LEMMA MatchedUncrossed ==
    ASSUME NEW bk, IsFiniteSet(bk), bk \subseteq BookOrder, NEW t \in EngineOrder,
           IsUncrossed(bk)
    PROVE  IsUncrossed(Matched(bk, t))
<1> DEFINE makers == Makers(bk, t)
           rest == [t EXCEPT !.remaining = Left(bk, t)]
<1>1. ASSUME NEW e \in AfterFills(bk, t)
      PROVE  \E m \in bk : m.side = e.side /\ m.price = e.price
  BY <1>1, AfterFillsOrigin DEF BookOrder, EngineOrder
<1>2. ASSUME Rests(bk, t), NEW e \in AfterFills(bk, t), e.side # t.side
      PROVE  ~Crosses(t, e)
  <2>1. PICK m \in bk : /\ e = [m EXCEPT !.remaining = e.remaining]
                        /\ m \in makers =>
                             Taken(makers, t.remaining, m) < m.remaining
    BY AfterFillsOrigin
  <2>2. m.side = e.side /\ m.price = e.price
    BY <2>1 DEF BookOrder, EngineOrder
  <2>3. SUFFICES ASSUME Crosses(t, e) PROVE FALSE
    OBVIOUS
  <2>4. m \in Reachable(bk, t)
    BY <1>2, <2>2, <2>3 DEF Reachable, Crosses
  <2>5. \A own \in Reachable(bk, t) : own.user # t.user
    BY <1>2 DEF Rests, SelfTrade
  <2>6. m \in makers
    BY <2>4, <2>5 DEF Makers
  <2>7. Left(bk, t) > 0
    BY <1>2 DEF Rests
  <2>8. bk \subseteq EngineOrder
    BY DEF BookOrder
  <2>9. Taken(makers, t.remaining, m) = m.remaining
    BY <2>6, <2>7, <2>8, AllTaken
  <2>10. m.remaining \in Nat
    BY DEF BookOrder, EngineOrder
  <2>11. QED
    BY <2>1, <2>6, <2>9, <2>10
<1>3. SUFFICES ASSUME NEW b \in Matched(bk, t), NEW a \in Matched(bk, t),
                      b.side = "BUY", a.side = "SELL"
               PROVE  b.price < a.price
  BY DEF IsUncrossed
<1>4. rest.side = t.side /\ rest.price = t.price /\ rest.type = t.type
  BY DEF EngineOrder
<1>5. \A e \in Matched(bk, t) :
          e \in AfterFills(bk, t) \/ (Rests(bk, t) /\ e = rest)
  BY DEF Matched
<1>6. \A e \in AfterFills(bk, t) : e.price \in Nat
  BY <1>1 DEF BookOrder, EngineOrder
<1>7. t.price \in Nat
  BY DEF EngineOrder
<1>8. CASE b \in AfterFills(bk, t) /\ a \in AfterFills(bk, t)
  BY <1>1, <1>3, <1>8 DEF IsUncrossed
<1>9. CASE b \in AfterFills(bk, t) /\ Rests(bk, t) /\ a = rest
  <2>1. ~Crosses(t, b)
    BY <1>2, <1>3, <1>4, <1>9
  <2>2. QED
    BY <1>3, <1>4, <1>6, <1>7, <1>9, <2>1 DEF Crosses
<1>10. CASE a \in AfterFills(bk, t) /\ Rests(bk, t) /\ b = rest
  <2>1. ~Crosses(t, a)
    BY <1>2, <1>3, <1>4, <1>10
  <2>2. QED
    BY <1>3, <1>4, <1>6, <1>7, <1>10, <2>1 DEF Crosses
<1>11. QED
  BY <1>3, <1>4, <1>5, <1>8, <1>9, <1>10
-----------------------------------------------------------------------------
\* The book stays finite and well formed, each order on it once.
LEMMA MatchedType ==
    ASSUME TypeOK, NEW t \in EngineOrder, t.sequence = sequence + 1
    PROVE  /\ Matched(book, t)
                \subseteq {e \in EngineOrder : e.type = "LIMIT" /\ e.sequence <= sequence + 1}
           /\ IsFiniteSet(Matched(book, t))
           /\ \A e, f \in Matched(book, t) : e.sequence = f.sequence => e = f
<1> DEFINE makers == Makers(book, t)
           taken(e) == Taken(makers, t.remaining, e)
           partly == {m \in makers : taken(m) < m.remaining}
           reduced == {[e EXCEPT !.remaining = @ - taken(e)] : e \in partly}
           rest == [t EXCEPT !.remaining = Left(book, t)]
           resting == IF Rests(book, t) THEN {rest} ELSE {}
<1>1. /\ book \subseteq BookOrder /\ IsFiniteSet(book)
      /\ \A e \in book : e.sequence <= sequence
      /\ \A e, f \in book : e.sequence = f.sequence => e = f
      /\ sequence \in Nat
  BY DEF TypeOK, BookOrder
<1>2. makers \subseteq book /\ IsFiniteSet(makers)
  BY <1>1, MakersInBook
<1>3. AfterFills(book, t) = (book \ makers) \cup reduced
  BY DEF AfterFills
<1>4. Matched(book, t) = AfterFills(book, t) \cup resting
  BY DEF Matched
<1>5. IsFiniteSet(Matched(book, t))
  <2>1. IsFiniteSet(partly)
    BY <1>2, FS_Subset
  <2>2. IsFiniteSet(reduced)
    <3> DEFINE g == [e \in partly |-> [e EXCEPT !.remaining = @ - taken(e)]]
    <3>1. g \in Surjection(partly, reduced)
      BY Zenon DEF Surjection
    <3>2. QED
      BY <2>1, <3>1, FS_Surjection
  <2>3. IsFiniteSet(book \ makers)
    BY <1>1, FS_Difference
  <2>4. IsFiniteSet(resting)
    BY FS_EmptySet, FS_Singleton
  <2>5. IsFiniteSet((book \ makers) \cup reduced)
    BY <2>2, <2>3, FS_Union
  <2> HIDE DEF makers, reduced, resting
  <2>6. IsFiniteSet(((book \ makers) \cup reduced) \cup resting)
    BY <2>4, <2>5, FS_Union
  <2>7. QED
    BY <1>3, <1>4, <2>6
<1>6. ASSUME NEW e \in AfterFills(book, t)
      PROVE  \E m \in book : e = [m EXCEPT !.remaining = e.remaining]
                             /\ e.remaining \in Nat \ {0}
  BY <1>1, AfterFillsOrigin
<1>7. \A e \in AfterFills(book, t) :
          e \in BookOrder /\ e.sequence <= sequence
  BY <1>1, <1>6 DEF BookOrder, EngineOrder
<1>8. ASSUME NEW e \in AfterFills(book, t), NEW f \in AfterFills(book, t),
             e.sequence = f.sequence
      PROVE  e = f
  <2>1. ASSUME NEW r \in reduced
        PROVE  \E m \in makers : r = [m EXCEPT !.remaining = @ - taken(m)]
                                 /\ r.sequence = m.sequence
    <3>1. PICK m \in makers : r = [m EXCEPT !.remaining = @ - taken(m)]
      OBVIOUS
    <3>2. m \in BookOrder
      BY <1>1, <1>2
    <3>3. QED
      BY <3>1, <3>2 DEF BookOrder, EngineOrder
  <2> HIDE DEF reduced, taken, makers
  <2>2. CASE e \in reduced /\ f \in reduced
    <3>1. PICK m \in makers : e = [m EXCEPT !.remaining = @ - taken(m)]
                              /\ e.sequence = m.sequence
      BY <2>1, <2>2
    <3>2. PICK n \in makers : f = [n EXCEPT !.remaining = @ - taken(n)]
                              /\ f.sequence = n.sequence
      BY <2>1, <2>2
    <3>3. m = n
      BY <1>1, <1>2, <1>8, <3>1, <3>2
    <3>4. QED
      BY <3>1, <3>2, <3>3
  <2>3. CASE e \in reduced /\ f \in book \ makers
    BY <1>1, <1>2, <1>8, <2>1, <2>3
  <2>4. CASE f \in reduced /\ e \in book \ makers
    BY <1>1, <1>2, <1>8, <2>1, <2>4
  <2>5. CASE e \in book \ makers /\ f \in book \ makers
    BY <1>1, <1>8, <2>5
  <2>6. QED
    BY <1>3, <2>2, <2>3, <2>4, <2>5
<1>9. Rests(book, t) => rest \in BookOrder /\ rest.sequence = sequence + 1
  <2>1. SUFFICES ASSUME Rests(book, t)
                 PROVE  rest \in BookOrder /\ rest.sequence = sequence + 1
    OBVIOUS
  <2>2. Left(book, t) \in Nat \ {0} /\ t.type = "LIMIT"
    <3>1. makers \subseteq EngineOrder
      BY <1>1, <1>2 DEF BookOrder
    <3>2. Offered(makers) \in Nat /\ t.remaining \in Nat
      BY <1>2, <3>1, OfferedType DEF EngineOrder
    <3>3. QED
      BY <2>1, <3>2 DEF Rests, Left, Least
  <2>3. QED
    BY <2>2 DEF BookOrder, EngineOrder
<1> HIDE DEF rest, reduced, makers
<1>10. \A e \in AfterFills(book, t) : e.sequence \in Nat /\ e.sequence <= sequence
  BY <1>7 DEF BookOrder, EngineOrder
<1>11. \A e \in Matched(book, t) :
          e \in AfterFills(book, t) \/ (Rests(book, t) /\ e = rest)
  BY <1>4
<1>12. ASSUME NEW e \in Matched(book, t)
       PROVE  e \in BookOrder /\ e.sequence <= sequence + 1
  BY <1>1, <1>7, <1>9, <1>10, <1>11
<1>13. ASSUME NEW e \in Matched(book, t), NEW f \in Matched(book, t),
              e.sequence = f.sequence
       PROVE  e = f
  BY <1>1, <1>8, <1>9, <1>10, <1>11, <1>13
<1>14. QED
  BY <1>5, <1>12, <1>13 DEF BookOrder

\* Type correctness of the abstract engine.
THEOREM EngineTypeOK == AtOnce => []TypeOK
<1>1. AtOnceInit => TypeOK
  BY FS_EmptySet DEF AtOnceInit, TypeOK
<1>2. TypeOK /\ [AtOnceNext]_atOnceVars => TypeOK'
  <2> SUFFICES ASSUME TypeOK, [AtOnceNext]_atOnceVars PROVE TypeOK'
    OBVIOUS
  <2>1. ASSUME NEW user \in Users, NEW side \in Sides, NEW type \in OrderTypes,
               NEW quantity \in Quantities, NEW price \in PricesFor(type),
               MatchAtOnce(Incoming(user, side, type, price, quantity))
        PROVE  TypeOK'
    <3> DEFINE t == Incoming(user, side, type, price, quantity)
    <3>1. t \in EngineOrder /\ t.sequence = sequence + 1 /\ sequence \in Nat
      BY EngineAssumption DEF TypeOK, Incoming, EngineOrder, PricesFor
    <3>2. book' = Matched(book, t) /\ sequence' = sequence + 1
      BY <2>1 DEF MatchAtOnce
    <3> HIDE DEF t
    <3>3. QED
      BY <3>1, <3>2, MatchedType DEF TypeOK
  <2>2. ASSUME NEW id \in 1 .. sequence, CancelAtOnce(id) PROVE TypeOK'
    <3>1. book' \subseteq book /\ sequence' = sequence
      BY <2>2 DEF CancelAtOnce
    <3>2. QED
      BY <3>1, FS_Subset DEF TypeOK
  <2>3. CASE UNCHANGED atOnceVars
    BY <2>3 DEF atOnceVars, TypeOK
  <2>4. QED
    BY <2>1, <2>2, <2>3 DEF AtOnceNext
<1>3. QED
  BY <1>1, <1>2, PTL DEF AtOnce
-----------------------------------------------------------------------------
(* Arrays *)

\* t is s with e put at place i.
Inserted(t, s, i, e) ==
    /\ Len(t) = Len(s) + 1
    /\ \A j \in 1 .. Len(s) + 1 : t[j] = IF j < i THEN s[j] ELSE IF j = i THEN e ELSE s[j - 1]

\* InsertAt moves what is at its place and after it by one.
LEMMA InsertFacts ==
    ASSUME NEW S, NEW s \in Seq(S), NEW i \in 1 .. Len(s) + 1, NEW e \in S
    PROVE  InsertAt(s, i, e) \in Seq(S) /\ Inserted(InsertAt(s, i, e), s, i, e)
<1> USE DEF Inserted
<1> DEFINE a == SubSeq(s, 1, i - 1)
           b == SubSeq(s, i, Len(s))
<1>1. /\ a \in Seq(S) /\ Len(a) = i - 1 /\ \A j \in 1 .. i - 1 : a[j] = s[j]
      /\ b \in Seq(S) /\ Len(b) = Len(s) - i + 1
      /\ \A j \in 1 .. Len(s) - i + 1 : b[j] = s[j + i - 1]
  OBVIOUS
<1> HIDE DEF a, b
<1>2. PICK c : c = a \o <<e>>
  OBVIOUS
<1>3. c \in Seq(S) /\ Len(c) = i /\ (\A j \in 1 .. i - 1 : c[j] = s[j]) /\ c[i] = e
  BY <1>1, <1>2
<1>4. PICK d : d = c \o b
  OBVIOUS
<1>5. /\ d \in Seq(S) /\ Len(d) = Len(s) + 1
      /\ \A j \in 1 .. i : d[j] = c[j]
      /\ \A j \in i + 1 .. Len(s) + 1 : d[j] = b[j - i]
  BY <1>1, <1>3, <1>4
<1>6. d = InsertAt(s, i, e)
  BY <1>2, <1>4 DEF InsertAt, a, b
<1>7. ASSUME NEW j \in 1 .. Len(s) + 1
      PROVE  d[j] = IF j < i THEN s[j] ELSE IF j = i THEN e ELSE s[j - 1]
  <2>1. CASE j <= i
    BY <1>3, <1>5, <2>1
  <2>2. CASE j > i
    <3>1. PICK k : k = j - i
      OBVIOUS
    <3>2. k \in 1 .. Len(s) - i + 1 /\ k + i - 1 = j - 1
      BY <2>2, <3>1
    <3>3. d[j] = b[k]
      BY <1>5, <2>2, <3>1
    <3> QED
      BY <1>1, <2>2, <3>2, <3>3
  <2> QED
    BY <2>1, <2>2
<1> QED
  BY <1>5, <1>6, <1>7

\* t is s without what is at place i.
Removed(t, s, i) ==
    /\ Len(t) = Len(s) - 1
    /\ \A j \in 1 .. Len(s) - 1 : t[j] = IF j < i THEN s[j] ELSE s[j + 1]

\* RemoveAt moves what is after its place by one.
LEMMA RemoveFacts ==
    ASSUME NEW S, NEW s \in Seq(S), NEW i \in 1 .. Len(s)
    PROVE  RemoveAt(s, i) \in Seq(S) /\ Removed(RemoveAt(s, i), s, i)
<1> USE DEF Removed
<1> DEFINE a == SubSeq(s, 1, i - 1)
           b == SubSeq(s, i + 1, Len(s))
<1>1. /\ a \in Seq(S) /\ Len(a) = i - 1 /\ \A j \in 1 .. i - 1 : a[j] = s[j]
      /\ b \in Seq(S) /\ Len(b) = Len(s) - i
      /\ \A j \in 1 .. Len(s) - i : b[j] = s[j + i]
  OBVIOUS
<1> HIDE DEF a, b
<1>2. PICK d : d = a \o b
  OBVIOUS
<1>5. /\ d \in Seq(S) /\ Len(d) = Len(a) + Len(b)
      /\ \A j \in 1 .. Len(a) + Len(b) :
            d[j] = IF j <= Len(a) THEN a[j] ELSE b[j - Len(a)]
  BY <1>1, <1>2, ConcatProperties
<1>3. d \in Seq(S) /\ Len(d) = Len(s) - 1
  BY <1>1, <1>5
<1>6. ASSUME NEW j \in 1 .. Len(s) - 1
      PROVE  d[j] = IF j < i THEN s[j] ELSE s[j + 1]
  <2>1. j \in 1 .. Len(a) + Len(b)
    BY <1>1
  <2>2. CASE j < i
    BY <1>1, <1>5, <2>1, <2>2
  <2>3. CASE j >= i
    <3>1. PICK k : k = j - (i - 1)
      OBVIOUS
    <3>2. d[j] = b[k]
      BY <1>1, <1>5, <2>1, <2>3, <3>1
    <3>3. k \in 1 .. Len(s) - i /\ k + i = j + 1
      BY <2>3, <3>1
    <3> QED
      BY <1>1, <2>3, <3>2, <3>3
  <2> QED
    BY <2>2, <2>3
<1>4. d = RemoveAt(s, i)
  BY <1>2 DEF RemoveAt, a, b
<1> QED
  BY <1>3, <1>4, <1>6
-----------------------------------------------------------------------------
(* The binary search *)

\* What one step of the search asks and where it goes on.
Search(levels, side, price, f, range) ==
    LET lo == range[1]
        hi == range[2]
        mid == (lo + hi) \div 2
        at == levels[mid + 1].price
    IN  IF lo >= hi THEN lo
        ELSE IF ComesFirst(side, at, price) THEN f[<<mid + 1, hi>>]
        ELSE IF at = price THEN mid
        ELSE f[<<lo, mid>>]

\* The search is a function: each of its steps asks for a shorter interval.
LEMMA SearchExists ==
    ASSUME NEW levels, NEW side, NEW price, NEW n \in Nat
    PROVE  \E f : f = [r \in (0 .. n) \X (0 .. n) |-> Search(levels, side, price, f, r)]
<1> DEFINE Good(f, k) == \A lo, hi \in 0 .. n :
                            hi - lo <= k => f[<<lo, hi>>] = Search(levels, side, price, f, <<lo, hi>>)
           Fun(f) == f = [r \in (0 .. n) \X (0 .. n) |-> f[r]]
           Bad == {k \in Nat : ~ \E f : Fun(f) /\ Good(f, k)}
<1>1. ASSUME Bad # {}
      PROVE  FALSE
  <2>1. PICK k \in Bad : \A j \in Bad : k <= j
    BY <1>1, NatLeast
  <2>2. CASE k = 0
    <3> DEFINE g == [r \in (0 .. n) \X (0 .. n) |-> r[1]]
    <3>1. \A lo, hi \in 0 .. n : g[<<lo, hi>>] = lo
      OBVIOUS
    <3>2. Fun(g)
      OBVIOUS
    <3> HIDE DEF g
    <3>3. Good(g, 0)
      BY <3>1 DEF Search
    <3> QED
      BY <2>1, <2>2, <3>2, <3>3
  <2>3. CASE k > 0
    <3>1. k - 1 \in Nat /\ k - 1 \notin Bad
      BY <2>1, <2>3
    <3>2. PICK f : Fun(f) /\ Good(f, k - 1)
      BY <3>1
    <3> DEFINE g == [r \in (0 .. n) \X (0 .. n) |->
                        IF r[2] - r[1] < k THEN f[r] ELSE Search(levels, side, price, f, r)]
    <3>3. \A lo, hi \in 0 .. n : g[<<lo, hi>>] =
              IF hi - lo < k THEN f[<<lo, hi>>] ELSE Search(levels, side, price, f, <<lo, hi>>)
      OBVIOUS
    <3>4. Fun(g)
      OBVIOUS
    <3> HIDE DEF g
    <3>5. ASSUME NEW lo \in 0 .. n, NEW hi \in 0 .. n, hi - lo <= k
          PROVE  g[<<lo, hi>>] = Search(levels, side, price, f, <<lo, hi>>)
      <4>1. CASE hi - lo < k
        BY <3>2, <3>3, <4>1
      <4>2. CASE hi - lo = k
        BY <3>3, <4>2
      <4> QED
        BY <3>5, <4>1, <4>2
    <3>6. ASSUME NEW lo \in 0 .. n, NEW hi \in 0 .. n, hi - lo <= k
          PROVE  Search(levels, side, price, f, <<lo, hi>>) = Search(levels, side, price, g, <<lo, hi>>)
      <4>1. PICK mid : mid = (lo + hi) \div 2
        OBVIOUS
      <4>2. CASE lo >= hi
        BY <4>2 DEF Search
      <4>3. CASE lo < hi
        <5>1. mid \in lo .. hi - 1
          BY <4>1, <4>3
        <5>2. mid + 1 \in 0 .. n /\ hi - (mid + 1) < k /\ mid \in 0 .. n /\ mid - lo < k
          BY <3>6, <5>1
        <5>3. g[<<mid + 1, hi>>] = f[<<mid + 1, hi>>] /\ g[<<lo, mid>>] = f[<<lo, mid>>]
          BY <3>3, <5>2
        <5> QED
          BY <4>1, <5>3 DEF Search
      <4> QED
        BY <4>2, <4>3
    <3>7. Good(g, k)
      BY <3>5, <3>6
    <3> QED
      BY <2>1, <3>4, <3>7
  <2> QED
    BY <2>2, <2>3
<1>2. PICK f : Fun(f) /\ Good(f, n)
  BY <1>1
<1>3. \A lo, hi \in 0 .. n : hi - lo <= n
  OBVIOUS
<1>4. f = [r \in (0 .. n) \X (0 .. n) |-> f[r]]
  BY <1>2
<1>5. \A lo, hi \in 0 .. n : f[<<lo, hi>>] = Search(levels, side, price, f, <<lo, hi>>)
  BY <1>2, <1>3
<1>6. [r \in (0 .. n) \X (0 .. n) |-> f[r]]
        = [r \in (0 .. n) \X (0 .. n) |-> Search(levels, side, price, f, r)]
  BY <1>5
<1> QED
  BY <1>4, <1>6

\* s is a search that asks for the middle for what is in B, E; those in B come first.
Halving(s, n, B, E) ==
    /\ \A i, j \in 1 .. n : i < j /\ (j \in B \/ j \in E) => i \in B
    /\ \A i \in E : i \notin B
    /\ \A lo, hi \in 0 .. n : lo >= hi => s[<<lo, hi>>] = lo
    /\ \A lo, hi, mid \in 0 .. n : lo < hi /\ mid = (lo + hi) \div 2 =>
          s[<<lo, hi>>] = IF mid + 1 \in B THEN s[<<mid + 1, hi>>]
                          ELSE IF mid + 1 \in E THEN mid ELSE s[<<lo, mid>>]

\* A search that asks for the middle finds how many come before, if those that
\* come before are the first ones.
LEMMA SearchEnds ==
    ASSUME NEW n \in Nat, NEW B \in SUBSET (1 .. n), NEW E \in SUBSET (1 .. n), NEW s,
           Halving(s, n, B, E)
    PROVE  s[<<0, n>>] \in 0 .. n /\ 1 .. s[<<0, n>>] = B
<1> USE DEF Halving
<1> DEFINE Found(r) == r \in 0 .. n /\ 1 .. r = B
           Within(lo, hi) == 1 .. lo \subseteq B /\ B \subseteq 1 .. hi
           Bad == {k \in Nat : \E lo, hi \in 0 .. n :
                      k = hi - lo /\ Within(lo, hi) /\ ~Found(s[<<lo, hi>>])}
<1>4. Bad \subseteq Nat
  OBVIOUS
<1> HIDE DEF Bad
<1>1. ASSUME Bad # {}
      PROVE  FALSE
  <2>1. PICK k \in Bad : \A j \in Bad : k <= j
    BY <1>1, <1>4, NatLeast
  <2>2. PICK lo \in 0 .. n, hi \in 0 .. n :
            k = hi - lo /\ Within(lo, hi) /\ ~Found(s[<<lo, hi>>])
    BY <2>1 DEF Bad
  <2>3. PICK mid : mid = (lo + hi) \div 2
    OBVIOUS
  <2>6. k \in Nat /\ \A j \in Nat : j < k => j \notin Bad
    BY <1>4, <2>1
  <2>4. CASE lo = hi
    <3>1. s[<<lo, hi>>] = lo
      BY <2>4
    <3> QED
      BY <2>2, <2>4, <3>1
  <2>5. CASE lo < hi
    <3>1. mid \in lo .. hi - 1 /\ mid + 1 \in 1 .. n /\ mid \in 0 .. n
      BY <2>3, <2>5
    <3>2. s[<<lo, hi>>] = IF mid + 1 \in B THEN s[<<mid + 1, hi>>]
                          ELSE IF mid + 1 \in E THEN mid ELSE s[<<lo, mid>>]
      BY <2>3, <2>5
    <3>3. CASE mid + 1 \in B
      <4>1. Within(mid + 1, hi)
        BY <2>2, <3>1, <3>3
      <4>2. hi - (mid + 1) \in Nat /\ hi - (mid + 1) < k
        BY <2>2, <3>1
      <4>4. hi - (mid + 1) \notin Bad
        BY <2>6, <4>2
      <4>5. mid + 1 \in 0 .. n
        BY <3>1
      <4>3. Found(s[<<mid + 1, hi>>])
        BY <4>5, <4>1, <4>2, <4>4 DEF Bad
      <4> QED
        BY <2>2, <3>2, <3>3, <4>3
    <3>4. CASE mid + 1 \in E
      <4>2. \A i \in 1 .. n : i <= mid => i \in B
        BY <3>1, <3>4
      <4>3. \A i \in B : i <= mid
        <5>1. ASSUME NEW i \in B, i > mid PROVE FALSE
          <6>1. i # mid + 1 /\ i \in 1 .. n
            BY <3>4, <5>1
          <6>2. mid + 1 < i
            BY <3>1, <5>1, <6>1
          <6>3. mid + 1 \in B
            BY <3>1, <6>1, <6>2
          <6> QED
            BY <3>4, <6>3
        <5> QED
          BY <3>1, <5>1
      <4>1. 1 .. mid = B
        <5>1. \A i \in 1 .. mid : i \in 1 .. n /\ i <= mid
          BY <3>1
        <5>2. \A i \in B : i \in 1 .. n
          OBVIOUS
        <5>3. \A i \in B : i \in 1 .. mid
          BY <3>1, <4>3, <5>2
        <5> QED
          BY <4>2, <5>1, <5>3
      <4> QED
        BY <2>2, <3>1, <3>2, <3>4, <4>1
    <3>5. CASE mid + 1 \notin B /\ mid + 1 \notin E
      <4>1. Within(lo, mid)
        BY <2>2, <3>1, <3>5
      <4>2. mid - lo \in Nat /\ mid - lo < k
        BY <2>2, <3>1
      <4>4. mid - lo \notin Bad
        BY <2>6, <4>2
      <4>3. Found(s[<<lo, mid>>])
        BY <3>1, <4>1, <4>2, <4>4 DEF Bad
      <4> QED
        BY <2>2, <3>2, <3>5, <4>3
    <3> QED
      BY <3>3, <3>4, <3>5
  <2> QED
    BY <2>1, <2>2, <2>4, <2>5
<1>2. Within(0, n) /\ n - 0 \in Nat /\ 0 \in 0 .. n /\ n \in 0 .. n
  OBVIOUS
<1>3. Found(s[<<0, n>>])
  BY <1>1, <1>2 DEF Bad
<1> QED
  BY <1>3

\* Levels of one side in the order of their prices.
Ordered(levels, side) ==
    \A i, j \in DOMAIN levels : i < j => ComesFirst(side, levels[i].price, levels[j].price)

\* The search finds how many levels stand before the price.
LEMMA SearchFinds ==
    ASSUME NEW levels, NEW n \in Nat, Len(levels) = n, DOMAIN levels = 1 .. n,
           \A i \in 1 .. n : levels[i].price \in Nat,
           NEW side \in Sides, NEW price \in Nat, Ordered(levels, side)
    PROVE  LET r == FindLevelIndex(levels, side, price) IN
           /\ r \in 0 .. n
           /\ \A i \in 1 .. n : i <= r <=> ComesFirst(side, levels[i].price, price)
<1> DEFINE search == CHOOSE f : f = [r \in (0 .. n) \X (0 .. n) |->
                                       Search(levels, side, price, f, r)]
           B == {i \in 1 .. n : ComesFirst(side, levels[i].price, price)}
           E == {i \in 1 .. n : levels[i].price = price}
<1>1. search = [r \in (0 .. n) \X (0 .. n) |-> Search(levels, side, price, search, r)]
  BY SearchExists
<1>2. FindLevelIndex(levels, side, price) = search[<<0, n>>]
  BY DEF FindLevelIndex, Search
<1> HIDE DEF search
<1>3. ASSUME NEW lo \in 0 .. n, NEW hi \in 0 .. n
      PROVE  search[<<lo, hi>>] = Search(levels, side, price, search, <<lo, hi>>)
  BY <1>1
<1>4. \A lo, hi \in 0 .. n : lo >= hi => search[<<lo, hi>>] = lo
  BY <1>3 DEF Search
<1>5. ASSUME NEW lo \in 0 .. n, NEW hi \in 0 .. n, lo < hi, NEW mid \in 0 .. n, mid = (lo + hi) \div 2
      PROVE  search[<<lo, hi>>] = IF mid + 1 \in B THEN search[<<mid + 1, hi>>]
                                  ELSE IF mid + 1 \in E THEN mid ELSE search[<<lo, mid>>]
  <2>1. mid + 1 \in 1 .. n
    BY <1>5
  <2>2. search[<<lo, hi>>] =
           IF ComesFirst(side, levels[mid + 1].price, price) THEN search[<<mid + 1, hi>>]
           ELSE IF levels[mid + 1].price = price THEN mid ELSE search[<<lo, mid>>]
    BY <1>3, <1>5 DEF Search
  <2> QED
    BY <2>1, <2>2
<1>6. \A i, j \in 1 .. n : i < j => ComesFirst(side, levels[i].price, levels[j].price)
  BY DEF Ordered
<1>7. \A i, j \in 1 .. n : i < j /\ j \in B => i \in B
  BY <1>6 DEF ComesFirst
<1>11. \A i, j \in 1 .. n : i < j /\ j \in E => i \in B
  BY <1>6 DEF ComesFirst
<1>12. \A i \in E : i \notin B
  BY DEF ComesFirst
<1>8. B \in SUBSET (1 .. n)
  OBVIOUS
<1>13. E \in SUBSET (1 .. n)
  OBVIOUS
<1> HIDE DEF B, E
<1>9. \A lo, hi, mid \in 0 .. n : lo < hi /\ mid = (lo + hi) \div 2 =>
          search[<<lo, hi>>] = IF mid + 1 \in B THEN search[<<mid + 1, hi>>]
                               ELSE IF mid + 1 \in E THEN mid ELSE search[<<lo, mid>>]
  BY <1>5
<1>14. Halving(search, n, B, E)
  BY <1>4, <1>7, <1>9, <1>11, <1>12, Zenon DEF Halving
<1>10. search[<<0, n>>] \in 0 .. n /\ 1 .. search[<<0, n>>] = B
  BY <1>8, <1>13, <1>14, SearchEnds
<1> QED
  BY <1>2, <1>10 DEF B
-----------------------------------------------------------------------------
(* Price levels *)

PriceLevel == [price : Nat, orders : Seq(BookOrder)]

\* The orders of a level: all at its price, oldest first, at least one.
QueueOK(level, side) ==
    /\ level.orders # <<>>
    /\ \A k \in DOMAIN level.orders :
          level.orders[k].side = side /\ level.orders[k].price = level.price
    /\ \A k, m \in DOMAIN level.orders :
          k < m => level.orders[k].sequence < level.orders[m].sequence

\* The levels of a side: best price first, and each of them in order.
SideOK(levels, side) ==
    /\ levels \in Seq(PriceLevel)
    /\ Ordered(levels, side)
    /\ \A i \in DOMAIN levels : QueueOK(levels[i], side)

\* The orders of all levels but one.
OthersOf(levels, i) == UNION {ToSet(levels[j].orders) : j \in DOMAIN levels \ {i}}

\* What is on a side is what is on one level and what is on the others.
LEMMA LevelsOf ==
    ASSUME NEW levels, NEW i \in DOMAIN levels
    PROVE  OrdersOf(levels) = OthersOf(levels, i) \cup ToSet(levels[i].orders)
BY DEF OrdersOf, OthersOf

\* An order stands on the level of its price.
LEMMA LevelsApart ==
    ASSUME NEW levels, NEW side, SideOK(levels, side), NEW i \in DOMAIN levels
    PROVE  /\ \A e \in ToSet(levels[i].orders) : e.side = side /\ e.price = levels[i].price
           /\ \A e \in OthersOf(levels, i) : e.side = side /\ e.price # levels[i].price
<1>1. \A j \in DOMAIN levels : \A e \in ToSet(levels[j].orders) :
          e.side = side /\ e.price = levels[j].price
  BY DEF SideOK, QueueOK, ToSet
<1>4. \A j \in DOMAIN levels : j \in Int /\ levels[j] \in PriceLevel
  BY DEF SideOK
<1>2. \A j \in DOMAIN levels : j \in Int /\ levels[j].price \in Nat
  BY <1>4 DEF PriceLevel
<1>3. \A j \in DOMAIN levels : j # i => levels[j].price # levels[i].price
  <2>1. ASSUME NEW j \in DOMAIN levels, j # i PROVE levels[j].price # levels[i].price
    <3>1. j < i \/ i < j
      BY <1>2, <2>1
    <3>2. \/ ComesFirst(side, levels[j].price, levels[i].price)
          \/ ComesFirst(side, levels[i].price, levels[j].price)
      BY <3>1 DEF SideOK, Ordered
    <3> QED
      BY <1>2, <3>2 DEF ComesFirst
  <2> QED
    BY <2>1
<1> QED
  BY <1>1, <1>3 DEF OthersOf

\* lv is levels with other orders on one level.
Requeued(lv, levels, i, X) == lv = [levels EXCEPT ![i].orders = X]

\* A level that changes its orders.
LEMMA LevelReplaced ==
    ASSUME NEW levels, NEW side, SideOK(levels, side), NEW i \in DOMAIN levels,
           NEW X \in Seq(BookOrder), NEW lv, Requeued(lv, levels, i, X)
    PROVE  /\ lv \in Seq(PriceLevel) /\ Ordered(lv, side) /\ Len(lv) = Len(levels)
           /\ DOMAIN lv = DOMAIN levels
           /\ lv[i] = [price |-> levels[i].price, orders |-> X]
           /\ \A j \in DOMAIN levels : j # i => lv[j] = levels[j]
           /\ OthersOf(lv, i) = OthersOf(levels, i)
<1>1. levels \in Seq(PriceLevel) /\ levels[i] \in PriceLevel
  BY DEF SideOK
<1>2. PICK q : q = [levels[i] EXCEPT !.orders = X]
  OBVIOUS
<1>3. q = [price |-> levels[i].price, orders |-> X] /\ q \in PriceLevel
  BY <1>1, <1>2 DEF PriceLevel
<1>4. lv = [levels EXCEPT ![i] = q]
  BY <1>2 DEF Requeued
<1>9. q \in PriceLevel /\ i \in 1 .. Len(levels)
  BY <1>1, <1>3
<1>10. lv \in Seq(PriceLevel) /\ Len(lv) = Len(levels)
  <2>1. levels \in Seq(PriceLevel)
    BY <1>1
  <2>2. q \in PriceLevel
    BY <1>9
  <2>3. i \in 1 .. Len(levels)
    BY <1>9
  <2>4. /\ [levels EXCEPT ![i] = q] \in Seq(PriceLevel)
        /\ Len([levels EXCEPT ![i] = q]) = Len(levels)
    BY <2>1, <2>2, <2>3, ExceptSeq, Zenon
  <2> QED
    BY <1>4, <2>4
<1>5. /\ lv \in Seq(PriceLevel) /\ Len(lv) = Len(levels) /\ DOMAIN lv = DOMAIN levels
      /\ lv[i] = q /\ \A j \in DOMAIN levels : j # i => lv[j] = levels[j]
  BY <1>4, <1>10
<1>6. \A j \in DOMAIN levels : lv[j].price = levels[j].price
  BY <1>3, <1>5
<1>7. Ordered(lv, side)
  BY <1>5, <1>6 DEF SideOK, Ordered
<1>8. OthersOf(lv, i) = OthersOf(levels, i)
  BY <1>5 DEF OthersOf
<1> QED
  BY <1>3, <1>5, <1>7, <1>8

\* A level that goes.
LEMMA LevelRemoved ==
    ASSUME NEW levels \in Seq(PriceLevel), NEW side, Ordered(levels, side),
           NEW i \in DOMAIN levels,
           \A j \in DOMAIN levels : j # i => QueueOK(levels[j], side)
    PROVE  /\ SideOK(RemoveAt(levels, i), side)
           /\ OrdersOf(RemoveAt(levels, i)) = OthersOf(levels, i)
<1> DEFINE n == Len(levels)
           At(j) == IF j < i THEN j ELSE j + 1
<1>1. n \in Nat /\ DOMAIN levels = 1 .. n /\ i \in 1 .. n
  OBVIOUS
<1>2. PICK lv : lv = RemoveAt(levels, i)
  OBVIOUS
<1>3. /\ lv \in Seq(PriceLevel) /\ Len(lv) = n - 1
      /\ \A j \in 1 .. n - 1 : lv[j] = IF j < i THEN levels[j] ELSE levels[j + 1]
  <2>1. levels \in Seq(PriceLevel) /\ i \in 1 .. Len(levels)
    BY <1>1
  <2>2. RemoveAt(levels, i) \in Seq(PriceLevel) /\ Removed(RemoveAt(levels, i), levels, i)
    BY <2>1, RemoveFacts, Zenon
  <2> QED
    BY <1>2, <2>2, Zenon DEF Removed
<1>4. DOMAIN lv = 1 .. n - 1
  BY <1>1, <1>3
<1> HIDE DEF n
<1>5. /\ \A j \in 1 .. n - 1 : At(j) \in 1 .. n /\ At(j) # i /\ lv[j] = levels[At(j)]
      /\ \A j, k \in 1 .. n - 1 : j < k => At(j) < At(k)
  BY <1>1, <1>3
<1>6. \A j \in 1 .. n : j # i => \E k \in 1 .. n - 1 : At(k) = j
  <2>1. ASSUME NEW j \in 1 .. n, j # i PROVE \E k \in 1 .. n - 1 : At(k) = j
    <3>1. CASE j < i
      <4>1. j \in 1 .. n - 1 /\ At(j) = j
        BY <1>1, <3>1
      <4> QED
        BY <4>1
    <3>2. CASE j > i
      <4>1. j - 1 \in 1 .. n - 1 /\ At(j - 1) = j
        BY <1>1, <3>2
      <4> QED
        BY <4>1
    <3> QED
      BY <1>1, <2>1, <3>1, <3>2
  <2> QED
    BY <2>1
<1> HIDE DEF At
<1>7. Ordered(lv, side)
  BY <1>1, <1>4, <1>5 DEF Ordered
<1>8. \A j \in DOMAIN lv : QueueOK(lv[j], side)
  BY <1>1, <1>4, <1>5
<1>9. OrdersOf(lv) = OthersOf(levels, i)
  <2>1. ASSUME NEW e \in OrdersOf(lv) PROVE e \in OthersOf(levels, i)
    <3>1. PICK j \in 1 .. n - 1 : e \in ToSet(lv[j].orders)
      BY <1>4, <2>1 DEF OrdersOf
    <3> QED
      BY <1>1, <1>5, <3>1 DEF OthersOf
  <2>2. ASSUME NEW e \in OthersOf(levels, i) PROVE e \in OrdersOf(lv)
    <3>1. PICK j \in 1 .. n : j # i /\ e \in ToSet(levels[j].orders)
      BY <1>1, <2>2 DEF OthersOf
    <3>2. PICK k \in 1 .. n - 1 : At(k) = j
      BY <1>6, <3>1
    <3> QED
      BY <1>4, <1>5, <3>1, <3>2 DEF OrdersOf
  <2> QED
    BY <2>1, <2>2
<1> QED
  BY <1>2, <1>3, <1>7, <1>8, <1>9 DEF SideOK

\* A level of this price is missing, and r levels stand before its place.
Fits(levels, side, r, price) ==
    /\ r \in 0 .. Len(levels)
    /\ \A i \in 1 .. Len(levels) : i <= r <=> ComesFirst(side, levels[i].price, price)
    /\ \A i \in DOMAIN levels : levels[i].price # price

\* A level that comes, at the place of its price.
LEMMA LevelInserted ==
    ASSUME NEW levels, NEW side \in Sides, SideOK(levels, side), NEW r,
           NEW q \in PriceLevel, QueueOK(q, side), Fits(levels, side, r, q.price)
    PROVE  /\ SideOK(InsertAt(levels, r + 1, q), side)
           /\ OrdersOf(InsertAt(levels, r + 1, q)) = OrdersOf(levels) \cup ToSet(q.orders)
<1> DEFINE n == Len(levels)
           At(j) == IF j <= r THEN j ELSE j + 1
<1>1. /\ levels \in Seq(PriceLevel) /\ n \in Nat /\ DOMAIN levels = 1 .. n
      /\ r \in 0 .. n /\ r + 1 \in 1 .. n + 1
  BY DEF SideOK, Fits
<1>2. PICK lv : lv = InsertAt(levels, r + 1, q)
  OBVIOUS
<1>3. /\ lv \in Seq(PriceLevel) /\ Len(lv) = n + 1
      /\ \A j \in 1 .. n + 1 :
            lv[j] = IF j < r + 1 THEN levels[j] ELSE IF j = r + 1 THEN q ELSE levels[j - 1]
  <2>1. PICK k : k = r + 1
    OBVIOUS
  <2>2. k \in 1 .. Len(levels) + 1 /\ lv = InsertAt(levels, k, q)
    BY <1>1, <1>2, <2>1
  <2>3. levels \in Seq(PriceLevel)
    BY <1>1
  <2>4. /\ lv \in Seq(PriceLevel) /\ Len(lv) = Len(levels) + 1
        /\ \A j \in 1 .. Len(levels) + 1 :
              lv[j] = IF j < k THEN levels[j] ELSE IF j = k THEN q ELSE levels[j - 1]
    <3>1. k \in 1 .. Len(levels) + 1 /\ q \in PriceLevel
      BY <2>2
    <3>2. InsertAt(levels, k, q) \in Seq(PriceLevel) /\ Inserted(InsertAt(levels, k, q), levels, k, q)
      BY <2>3, <3>1, InsertFacts, Zenon
    <3>3. lv \in Seq(PriceLevel) /\ Inserted(lv, levels, k, q)
      BY <2>2, <3>2, Zenon
    <3> QED
      BY <3>3, Zenon DEF Inserted
  <2> QED
    BY <2>1, <2>4
<1>4. DOMAIN lv = 1 .. n + 1
  BY <1>1, <1>3
<1>5. \A i \in 1 .. n : i <= r <=> ComesFirst(side, levels[i].price, q.price)
  BY DEF Fits
<1> HIDE DEF n
<1>14. \A i \in 1 .. n : levels[i] \in PriceLevel
  BY <1>1
<1>6. \A i \in 1 .. n : levels[i].price \in Nat /\ levels[i].price # q.price /\ q.price \in Nat
  BY <1>1, <1>14 DEF PriceLevel, Fits
<1>7. \A i \in 1 .. n : i > r => ComesFirst(side, q.price, levels[i].price)
  BY <1>1, <1>5, <1>6 DEF ComesFirst
<1>8. ASSUME NEW i \in 1 .. n + 1, NEW j \in 1 .. n + 1, i < j
      PROVE  ComesFirst(side, lv[i].price, lv[j].price)
  <2>1. \A a, b \in 1 .. n : a < b => ComesFirst(side, levels[a].price, levels[b].price)
    BY <1>1 DEF SideOK, Ordered
  <2>2. CASE j < r + 1
    <3>1. lv[i] = levels[i] /\ lv[j] = levels[j] /\ i \in 1 .. n /\ j \in 1 .. n
      BY <1>1, <1>3, <1>8, <2>2
    <3> QED
      BY <1>8, <2>1, <3>1
  <2>3. CASE j = r + 1
    <3>1. lv[i] = levels[i] /\ lv[j] = q /\ i \in 1 .. n /\ i <= r
      BY <1>1, <1>3, <1>8, <2>3
    <3> QED
      BY <1>5, <3>1
  <2>4. CASE i = r + 1
    <3>1. lv[i] = q /\ lv[j] = levels[j - 1] /\ j - 1 \in 1 .. n /\ j - 1 > r
      BY <1>1, <1>3, <1>8, <2>4
    <3> QED
      BY <1>7, <3>1
  <2>5. CASE i < r + 1 /\ j > r + 1
    <3>1. lv[i] = levels[i] /\ lv[j] = levels[j - 1] /\ i \in 1 .. n /\ j - 1 \in 1 .. n /\ i < j - 1
      BY <1>1, <1>3, <1>8, <2>5
    <3> QED
      BY <2>1, <3>1
  <2>6. CASE i > r + 1
    <3>1. /\ lv[i] = levels[i - 1] /\ lv[j] = levels[j - 1]
          /\ i - 1 \in 1 .. n /\ j - 1 \in 1 .. n /\ i - 1 < j - 1
      BY <1>1, <1>3, <1>8, <2>6
    <3> QED
      BY <2>1, <3>1
  <2> QED
    BY <1>1, <1>8, <2>2, <2>3, <2>4, <2>5, <2>6
<1>9. ASSUME NEW j \in 1 .. n + 1
      PROVE  (j = r + 1 /\ lv[j] = q) \/ \E i \in 1 .. n : lv[j] = levels[i]
  <2>1. CASE j < r + 1
    BY <1>1, <1>3, <2>1
  <2>2. CASE j = r + 1
    BY <1>3, <2>2
  <2>3. CASE j > r + 1
    <3>1. j - 1 \in 1 .. n /\ lv[j] = levels[j - 1]
      BY <1>1, <1>3, <2>3
    <3> QED
      BY <3>1
  <2> QED
    BY <1>1, <2>1, <2>2, <2>3
<1>10. \A i \in 1 .. n : \E j \in 1 .. n + 1 : lv[j] = levels[i]
  <2>1. ASSUME NEW i \in 1 .. n PROVE \E j \in 1 .. n + 1 : lv[j] = levels[i]
    <3>1. CASE i <= r
      <4>1. i \in 1 .. n + 1 /\ lv[i] = levels[i]
        BY <1>1, <1>3, <3>1
      <4> QED
        BY <4>1
    <3>2. CASE i > r
      <4>1. PICK j : j = i + 1
        OBVIOUS
      <4>2. j \in 1 .. n + 1 /\ j > r + 1 /\ j - 1 = i
        BY <1>1, <3>2, <4>1
      <4>3. lv[j] = levels[i]
        BY <1>1, <1>3, <4>2
      <4> QED
        BY <4>2, <4>3
    <3> QED
      BY <1>1, <3>1, <3>2
  <2> QED
    BY <2>1
<1>11. r + 1 \in 1 .. n + 1 /\ lv[r + 1] = q
  BY <1>1, <1>3
<1>12. SideOK(lv, side)
  <2>1. \A j \in 1 .. n : QueueOK(levels[j], side)
    BY <1>1 DEF SideOK
  <2>2. \A j \in 1 .. n + 1 : QueueOK(lv[j], side)
    BY <1>9, <2>1
  <2> QED
    BY <1>3, <1>4, <1>8, <2>2 DEF SideOK, Ordered
<1>13. OrdersOf(lv) = OrdersOf(levels) \cup ToSet(q.orders)
  <2>1. ASSUME NEW e \in OrdersOf(lv) PROVE e \in OrdersOf(levels) \cup ToSet(q.orders)
    BY <1>1, <1>4, <1>9, <2>1 DEF OrdersOf
  <2>2. ASSUME NEW e \in OrdersOf(levels) \cup ToSet(q.orders) PROVE e \in OrdersOf(lv)
    <3>1. CASE e \in ToSet(q.orders)
      BY <1>4, <1>11, <3>1 DEF OrdersOf
    <3>2. CASE e \in OrdersOf(levels)
      <4>1. PICK i \in 1 .. n : e \in ToSet(levels[i].orders)
        BY <1>1, <3>2 DEF OrdersOf
      <4>2. PICK j \in 1 .. n + 1 : lv[j] = levels[i]
        BY <1>10
      <4> QED
        BY <1>4, <4>1, <4>2 DEF OrdersOf
    <3> QED
      BY <2>2, <3>1, <3>2
  <2> QED
    BY <2>1, <2>2
<1> QED
  BY <1>2, <1>12, <1>13
-----------------------------------------------------------------------------
(* Queues *)

\* A level's orders are on its side, at its price.
LEMMA QueueFacts ==
    ASSUME NEW level \in PriceLevel, NEW side, QueueOK(level, side)
    PROVE  /\ level.orders \in Seq(BookOrder) /\ level.price \in Nat
           /\ Len(level.orders) \in Nat \ {0}
           /\ \A k \in 1 .. Len(level.orders) :
                 /\ level.orders[k] \in BookOrder /\ level.orders[k].sequence \in Nat
                 /\ level.orders[k].side = side /\ level.orders[k].price = level.price
           /\ \A k, m \in 1 .. Len(level.orders) :
                 k < m => level.orders[k].sequence < level.orders[m].sequence
<1>1. level.orders \in Seq(BookOrder) /\ level.price \in Nat
  BY DEF PriceLevel
<1>2. PICK s : s = level.orders
  OBVIOUS
<1>3. s \in Seq(BookOrder) /\ s # <<>>
  BY <1>1, <1>2 DEF QueueOK
<1>4. Len(s) \in Nat \ {0} /\ DOMAIN s = 1 .. Len(s) /\ \A k \in 1 .. Len(s) : s[k] \in BookOrder
  BY <1>3
<1>5. \A k \in 1 .. Len(s) : s[k].sequence \in Nat
  BY <1>4 DEF BookOrder, EngineOrder
<1> QED
  BY <1>1, <1>2, <1>4, <1>5 DEF QueueOK

\* A queue that loses its k-th order.
LEMMA QueueShortened ==
    ASSUME NEW level \in PriceLevel, NEW side, QueueOK(level, side),
           NEW k \in 1 .. Len(level.orders), NEW X, X = RemoveAt(level.orders, k)
    PROVE  /\ X \in Seq(BookOrder)
           /\ X = <<>> \/ QueueOK([price |-> level.price, orders |-> X], side)
           /\ ToSet(X) = ToSet(level.orders) \ {level.orders[k]}
<1>1. PICK s : s = level.orders
  OBVIOUS
<1>2. PICK n : n = Len(s)
  OBVIOUS
<1>3. /\ s \in Seq(BookOrder) /\ n \in Nat \ {0} /\ k \in 1 .. n /\ DOMAIN s = 1 .. n
      /\ \A j \in 1 .. n : s[j].sequence \in Nat /\ s[j].side = side /\ s[j].price = level.price
      /\ \A j, m \in 1 .. n : j < m => s[j].sequence < s[m].sequence
  BY <1>1, <1>2, QueueFacts
<1>4. /\ X \in Seq(BookOrder) /\ Len(X) = n - 1
      /\ \A j \in 1 .. n - 1 : X[j] = IF j < k THEN s[j] ELSE s[j + 1]
  <2>1. s \in Seq(BookOrder) /\ k \in 1 .. Len(s) /\ X = RemoveAt(s, k)
    BY <1>1, <1>2, <1>3
  <2>2. RemoveAt(s, k) \in Seq(BookOrder) /\ Removed(RemoveAt(s, k), s, k)
    BY <2>1, RemoveFacts, Zenon
  <2>3. X \in Seq(BookOrder) /\ Removed(X, s, k)
    BY <2>1, <2>2, Zenon
  <2> QED
    BY <1>2, <2>3 DEF Removed
<1>5. DOMAIN X = 1 .. n - 1
  BY <1>3, <1>4
<1>6. ASSUME NEW j \in 1 .. n - 1, NEW m \in 1 .. n - 1, j < m
      PROVE  X[j].sequence < X[m].sequence
  <2>1. CASE m < k
    BY <1>3, <1>4, <1>6, <2>1
  <2>2. CASE j < k /\ m >= k
    <3>1. X[j] = s[j] /\ X[m] = s[m + 1] /\ j \in 1 .. n /\ m + 1 \in 1 .. n /\ j < m + 1
      BY <1>3, <1>4, <1>6, <2>2
    <3> QED
      BY <1>3, <3>1
  <2>3. CASE j >= k
    <3>1. X[j] = s[j + 1] /\ X[m] = s[m + 1] /\ j + 1 \in 1 .. n /\ m + 1 \in 1 .. n /\ j + 1 < m + 1
      BY <1>3, <1>4, <1>6, <2>3
    <3> QED
      BY <1>3, <3>1
  <2> QED
    BY <1>3, <1>6, <2>1, <2>2, <2>3
<1>7. \A j \in 1 .. n - 1 : \E m \in 1 .. n : m # k /\ X[j] = s[m]
  <2>1. ASSUME NEW j \in 1 .. n - 1 PROVE \E m \in 1 .. n : m # k /\ X[j] = s[m]
    <3>1. CASE j < k
      BY <1>3, <1>4, <3>1
    <3>2. CASE j >= k
      <4>1. j + 1 \in 1 .. n /\ j + 1 # k /\ X[j] = s[j + 1]
        BY <1>3, <1>4, <3>2
      <4> QED
        BY <4>1
    <3> QED
      BY <1>3, <3>1, <3>2
  <2> QED
    BY <2>1
<1>8. \A m \in 1 .. n : m # k => \E j \in 1 .. n - 1 : X[j] = s[m]
  <2>1. ASSUME NEW m \in 1 .. n, m # k PROVE \E j \in 1 .. n - 1 : X[j] = s[m]
    <3>1. CASE m < k
      BY <1>3, <1>4, <3>1
    <3>2. CASE m > k
      <4>1. PICK j : j = m - 1
        OBVIOUS
      <4>2. j \in 1 .. n - 1 /\ ~(j < k) /\ j + 1 = m
        BY <1>3, <3>2, <4>1
      <4>3. X[j] = s[m]
        BY <1>4, <4>2
      <4> QED
        BY <4>2, <4>3
    <3> QED
      BY <1>3, <2>1, <3>1, <3>2
  <2> QED
    BY <2>1
<1>9. \A m \in 1 .. n : m # k => s[m] # s[k]
  <2>1. ASSUME NEW m \in 1 .. n, m # k PROVE s[m] # s[k]
    <3>1. m < k \/ k < m
      BY <1>3, <2>1
    <3> QED
      BY <1>3, <3>1
  <2> QED
    BY <2>1
<1>10. \A j \in 1 .. n - 1 : X[j].side = side /\ X[j].price = level.price
  BY <1>3, <1>7
<1>11. PICK q : q = [price |-> level.price, orders |-> X]
  OBVIOUS
<1>12. q.price = level.price /\ q.orders = X
  BY <1>11
<1>13. X # <<>> => QueueOK(q, side)
  BY <1>5, <1>6, <1>10, <1>12 DEF QueueOK
<1>14. ToSet(X) = ToSet(s) \ {s[k]}
  <2>1. ASSUME NEW e \in ToSet(X) PROVE e \in ToSet(s) \ {s[k]}
    <3>1. PICK j \in 1 .. n - 1 : e = X[j]
      BY <1>5, <2>1 DEF ToSet
    <3> QED
      BY <1>3, <1>7, <1>9, <3>1 DEF ToSet
  <2>2. ASSUME NEW e \in ToSet(s) \ {s[k]} PROVE e \in ToSet(X)
    <3>1. PICK m \in 1 .. n : e = s[m]
      BY <1>3, <2>2 DEF ToSet
    <3>2. m # k
      BY <2>2, <3>1
    <3>3. PICK j \in 1 .. n - 1 : X[j] = s[m]
      BY <1>8, <3>2
    <3> QED
      BY <1>5, <3>1, <3>3 DEF ToSet
  <2> QED
    BY <2>1, <2>2
<1> QED
  BY <1>1, <1>4, <1>11, <1>13, <1>14

\* A queue that a later order joins.
LEMMA QueueAppended ==
    ASSUME NEW level \in PriceLevel, NEW side, QueueOK(level, side),
           NEW order \in BookOrder, order.side = side, order.price = level.price,
           \A e \in ToSet(level.orders) : e.sequence < order.sequence,
           NEW X, X = Append(level.orders, order)
    PROVE  /\ X \in Seq(BookOrder)
           /\ QueueOK([price |-> level.price, orders |-> X], side)
           /\ ToSet(X) = ToSet(level.orders) \cup {order}
<1>1. PICK s : s = level.orders
  OBVIOUS
<1>2. PICK n : n = Len(s)
  OBVIOUS
<1>3. /\ s \in Seq(BookOrder) /\ n \in Nat \ {0} /\ DOMAIN s = 1 .. n
      /\ \A j \in 1 .. n : s[j].sequence \in Nat /\ s[j].side = side /\ s[j].price = level.price
      /\ \A j, m \in 1 .. n : j < m => s[j].sequence < s[m].sequence
  BY <1>1, <1>2, QueueFacts
<1>4. /\ X \in Seq(BookOrder) /\ Len(X) = n + 1 /\ DOMAIN X = 1 .. n + 1
      /\ \A j \in 1 .. n : X[j] = s[j]
      /\ X[n + 1] = order
  BY <1>1, <1>2, <1>3
<1>5. \A j \in 1 .. n : s[j].sequence < order.sequence
  BY <1>1, <1>3 DEF ToSet
<1>6. \A j \in 1 .. n + 1 : j \in 1 .. n \/ j = n + 1
  BY <1>3
<1>7. \A j, m \in 1 .. n + 1 : j < m => j \in 1 .. n
  BY <1>3
<1>8. \A j, m \in 1 .. n + 1 : j < m => X[j].sequence < X[m].sequence
  BY <1>3, <1>4, <1>5, <1>6, <1>7
<1>9. \A j \in 1 .. n + 1 : X[j].side = side /\ X[j].price = level.price
  BY <1>3, <1>4, <1>6
<1>10. PICK q : q = [price |-> level.price, orders |-> X]
  OBVIOUS
<1>11. q.price = level.price /\ q.orders = X /\ X # <<>>
  BY <1>3, <1>4, <1>10
<1>12. QueueOK(q, side)
  BY <1>4, <1>8, <1>9, <1>11 DEF QueueOK
<1>13. n + 1 \in 1 .. n + 1 /\ \A j \in 1 .. n : j \in 1 .. n + 1
  BY <1>3
<1>14. ToSet(X) = ToSet(s) \cup {order}
  BY <1>3, <1>4, <1>6, <1>13 DEF ToSet
<1> QED
  BY <1>1, <1>4, <1>10, <1>12, <1>14

\* The first order of a queue gives place to another one.
LEMMA FirstReplaced ==
    ASSUME NEW s \in Seq(BookOrder), 1 \in 1 .. Len(s), NEW order \in BookOrder,
           NEW X, X = [s EXCEPT ![1] = order]
    PROVE  X \in Seq(BookOrder) /\ Len(X) = Len(s)
BY ExceptSeq

\* X is the queue s with another first order.
FirstIs(X, s, order) == X = [s EXCEPT ![1] = order]

\* A queue whose first order gave a part.
LEMMA QueueReduced ==
    ASSUME NEW level \in PriceLevel, NEW side, QueueOK(level, side),
           NEW order \in BookOrder, order.side = side, order.price = level.price,
           order.sequence = level.orders[1].sequence,
           NEW X, FirstIs(X, level.orders, order)
    PROVE  /\ X \in Seq(BookOrder)
           /\ QueueOK([price |-> level.price, orders |-> X], side)
           /\ ToSet(X) = (ToSet(level.orders) \ {level.orders[1]}) \cup {order}
<1>1. PICK s : s = level.orders
  OBVIOUS
<1>2. PICK n : n = Len(s)
  OBVIOUS
<1>3. /\ s \in Seq(BookOrder) /\ n \in Nat \ {0} /\ DOMAIN s = 1 .. n
      /\ \A j \in 1 .. n : s[j].sequence \in Nat /\ s[j].side = side /\ s[j].price = level.price
      /\ \A j, m \in 1 .. n : j < m => s[j].sequence < s[m].sequence
  BY <1>1, <1>2, QueueFacts
<1>4. 1 \in 1 .. n /\ X = [s EXCEPT ![1] = order]
  BY <1>1, <1>3 DEF FirstIs
<1>5. X \in Seq(BookOrder) /\ Len(X) = n
  <2>1. s \in Seq(BookOrder) /\ 1 \in 1 .. Len(s) /\ order \in BookOrder
    BY <1>2, <1>3, <1>4
  <2>2. X = [s EXCEPT ![1] = order]
    BY <1>4
  <2>3. X \in Seq(BookOrder) /\ Len(X) = Len(s)
    BY <2>1, <2>2, FirstReplaced, Zenon
  <2> QED
    BY <1>2, <2>3
<1>6. DOMAIN X = 1 .. n /\ X[1] = order /\ \A j \in 1 .. n : j # 1 => X[j] = s[j]
  BY <1>3, <1>4
<1>7. \A j \in 1 .. n : X[j].sequence = s[j].sequence /\ X[j].side = side /\ X[j].price = level.price
  BY <1>1, <1>3, <1>6
<1>8. \A j, m \in 1 .. n : j < m => X[j].sequence < X[m].sequence
  BY <1>3, <1>7
<1>10. PICK q : q = [price |-> level.price, orders |-> X]
  OBVIOUS
<1>11. q.price = level.price /\ q.orders = X /\ X # <<>>
  BY <1>3, <1>5, <1>10
<1>12. QueueOK(q, side)
  BY <1>6, <1>7, <1>8, <1>11 DEF QueueOK
<1>9. \A m \in 1 .. n : m # 1 => s[m] # s[1]
  <2>1. ASSUME NEW m \in 1 .. n, m # 1 PROVE s[m] # s[1]
    <3>1. 1 < m
      BY <1>3, <2>1
    <3> QED
      BY <1>3, <1>4, <3>1
  <2> QED
    BY <2>1
<1>14. ToSet(X) = (ToSet(s) \ {s[1]}) \cup {order}
  BY <1>3, <1>4, <1>6, <1>9 DEF ToSet
<1> QED
  BY <1>1, <1>5, <1>10, <1>12, <1>14
-----------------------------------------------------------------------------
(* One side of the book *)

\* What is on a side.
LEMMA SideFacts ==
    ASSUME NEW levels, NEW side, SideOK(levels, side)
    PROVE  /\ levels \in Seq(PriceLevel) /\ Len(levels) \in Nat
           /\ DOMAIN levels = 1 .. Len(levels)
           /\ \A i \in 1 .. Len(levels) :
                 levels[i] \in PriceLevel /\ levels[i].price \in Nat /\ QueueOK(levels[i], side)
           /\ OrdersOf(levels) \subseteq BookOrder
           /\ \A e \in OrdersOf(levels) : e.side = side
<1>1. /\ levels \in Seq(PriceLevel) /\ Len(levels) \in Nat
      /\ DOMAIN levels = 1 .. Len(levels)
      /\ \A i \in 1 .. Len(levels) : levels[i] \in PriceLevel /\ QueueOK(levels[i], side)
  BY DEF SideOK
<1>2. \A i \in 1 .. Len(levels) : levels[i].price \in Nat
  BY <1>1 DEF PriceLevel
<1>3. ASSUME NEW e \in OrdersOf(levels) PROVE e \in BookOrder /\ e.side = side
  <2>1. PICK i \in 1 .. Len(levels) : e \in ToSet(levels[i].orders)
    BY <1>1, <1>3 DEF OrdersOf
  <2>2. /\ levels[i].orders \in Seq(BookOrder)
        /\ \A k \in 1 .. Len(levels[i].orders) :
              levels[i].orders[k] \in BookOrder /\ levels[i].orders[k].side = side
    BY <1>1, QueueFacts
  <2>3. DOMAIN levels[i].orders = 1 .. Len(levels[i].orders)
    BY <2>2
  <2> QED
    BY <2>1, <2>2, <2>3 DEF ToSet
<1> QED
  BY <1>1, <1>2, <1>3

\* The order the loop of submit looks at is the first of its side.
LEMMA BestFacts ==
    ASSUME NEW levels, NEW side \in Sides, SideOK(levels, side)
    PROVE  \/ BestOf(levels) = {} /\ OrdersOf(levels) = {} /\ levels = <<>>
           \/ /\ levels # <<>> /\ 1 \in DOMAIN levels /\ 1 \in 1 .. Len(levels[1].orders)
              /\ BestOf(levels) = {levels[1].orders[1]}
              /\ levels[1].orders[1] \in OrdersOf(levels)
              /\ \A e \in OrdersOf(levels) :
                    e = levels[1].orders[1] \/ Before(levels[1].orders[1], e)
<1>1. CASE levels = <<>>
  BY <1>1 DEF BestOf, OrdersOf
<1>2. CASE levels # <<>>
  <2>1. PICK n : n = Len(levels)
    OBVIOUS
  <2>2. /\ n \in Nat \ {0} /\ 1 \in 1 .. n /\ DOMAIN levels = 1 .. n
        /\ \A i \in 1 .. n :
              levels[i] \in PriceLevel /\ levels[i].price \in Nat /\ QueueOK(levels[i], side)
    BY <1>2, <2>1, SideFacts
  <2>3. PICK s : s = levels[1].orders
    OBVIOUS
  <2>4. levels[1] \in PriceLevel /\ QueueOK(levels[1], side)
    BY <2>2
  <2>5. /\ s \in Seq(BookOrder) /\ 1 \in 1 .. Len(s) /\ DOMAIN s = 1 .. Len(s)
        /\ s[1].side = side /\ s[1].price = levels[1].price
        /\ \A k \in 1 .. Len(s) :
              k # 1 => s[1].sequence < s[k].sequence /\ s[k].price = s[1].price
    <3>1. /\ s \in Seq(BookOrder) /\ Len(s) \in Nat \ {0}
          /\ \A k \in 1 .. Len(s) : s[k].side = side /\ s[k].price = levels[1].price
          /\ \A k, m \in 1 .. Len(s) : k < m => s[k].sequence < s[m].sequence
      BY <2>3, <2>4, QueueFacts
    <3>2. 1 \in 1 .. Len(s) /\ DOMAIN s = 1 .. Len(s)
      BY <3>1
    <3>3. \A k \in 1 .. Len(s) : k # 1 => 1 < k
      BY <3>1
    <3> QED
      BY <3>1, <3>2, <3>3
  <2>6. s[1] \in OrdersOf(levels)
    BY <2>2, <2>3, <2>5 DEF OrdersOf, ToSet
  <2>7. ASSUME NEW e \in OrdersOf(levels) PROVE e = s[1] \/ Before(s[1], e)
    <3>1. PICK i \in 1 .. n : e \in ToSet(levels[i].orders)
      BY <2>2, <2>7 DEF OrdersOf
    <3>2. CASE i = 1
      <4>1. PICK k \in 1 .. Len(s) : e = s[k]
        BY <2>3, <2>5, <3>1, <3>2 DEF ToSet
      <4> QED
        BY <2>5, <4>1 DEF Before
    <3>3. CASE i # 1
      <4>1. 1 < i
        BY <2>2, <3>3
      <4>2. ComesFirst(side, levels[1].price, levels[i].price)
        BY <2>2, <4>1 DEF SideOK, Ordered
      <4>3. levels[i] \in PriceLevel /\ QueueOK(levels[i], side)
        BY <2>2
      <4>4. e.price = levels[i].price
        BY <3>1, <4>3 DEF QueueOK, ToSet
      <4>5. side = "BUY" => s[1].price > e.price
        BY <2>5, <4>2, <4>4 DEF ComesFirst
      <4>6. side # "BUY" => s[1].price < e.price
        BY <2>5, <4>2, <4>4 DEF ComesFirst
      <4> QED
        BY <2>5, <4>5, <4>6 DEF Before, Sides
    <3> QED
      BY <3>2, <3>3
  <2> QED
    BY <1>2, <2>2, <2>3, <2>5, <2>6, <2>7 DEF BestOf
<1> QED
  BY <1>1, <1>2
-----------------------------------------------------------------------------
\* A side that loses one order.
LEMMA SideShortened ==
    ASSUME NEW levels, NEW side, SideOK(levels, side), NEW i \in DOMAIN levels,
           NEW k \in 1 .. Len(levels[i].orders),
           NEW lv, Requeued(lv, levels, i, RemoveAt(levels[i].orders, k))
    PROVE  /\ SideOK(DropIfEmpty(lv, i), side)
           /\ OrdersOf(DropIfEmpty(lv, i)) = OrdersOf(levels) \ {levels[i].orders[k]}
<1>1. PICK X : X = RemoveAt(levels[i].orders, k)
  OBVIOUS
<1>2. levels[i] \in PriceLevel /\ QueueOK(levels[i], side)
  BY SideFacts
<1>3. /\ X \in Seq(BookOrder)
      /\ X = <<>> \/ QueueOK([price |-> levels[i].price, orders |-> X], side)
      /\ ToSet(X) = ToSet(levels[i].orders) \ {levels[i].orders[k]}
  BY <1>1, <1>2, QueueShortened
<1>4. X \in Seq(BookOrder) /\ Requeued(lv, levels, i, X)
  BY <1>1, <1>3
<1>5. /\ lv \in Seq(PriceLevel) /\ Ordered(lv, side) /\ Len(lv) = Len(levels)
      /\ DOMAIN lv = DOMAIN levels
      /\ lv[i] = [price |-> levels[i].price, orders |-> X]
      /\ \A j \in DOMAIN levels : j # i => lv[j] = levels[j]
      /\ OthersOf(lv, i) = OthersOf(levels, i)
  BY <1>4, LevelReplaced, Zenon
<1>6. \A j \in DOMAIN lv : j # i => QueueOK(lv[j], side)
  BY <1>5 DEF SideOK
<1>7. PICK e : e = levels[i].orders[k]
  OBVIOUS
<1>8. e \in ToSet(levels[i].orders)
  <2>1. levels[i].orders \in Seq(BookOrder)
    BY <1>2, QueueFacts
  <2>2. k \in DOMAIN levels[i].orders
    BY <2>1
  <2> QED
    BY <1>7, <2>2 DEF ToSet
<1>9. e \notin OthersOf(levels, i)
  BY <1>8, LevelsApart
<1>10. OrdersOf(levels) \ {e} = OthersOf(levels, i) \cup ToSet(X)
  <2>1. OrdersOf(levels) = OthersOf(levels, i) \cup ToSet(levels[i].orders)
    BY LevelsOf
  <2> QED
    BY <1>3, <1>7, <1>9, <2>1
<1>11. lv[i].orders = X
  BY <1>5
<1>12. CASE X = <<>>
  <2>1. DropIfEmpty(lv, i) = RemoveAt(lv, i)
    BY <1>11, <1>12 DEF DropIfEmpty
  <2>2. i \in DOMAIN lv
    BY <1>5
  <2>3. /\ SideOK(RemoveAt(lv, i), side)
        /\ OrdersOf(RemoveAt(lv, i)) = OthersOf(lv, i)
    BY <1>5, <1>6, <2>2, LevelRemoved
  <2>4. ToSet(X) = {}
    BY <1>12 DEF ToSet
  <2> QED
    BY <1>5, <1>7, <1>10, <2>1, <2>3, <2>4
<1>13. CASE X # <<>>
  <2>1. DropIfEmpty(lv, i) = lv
    BY <1>11, <1>13 DEF DropIfEmpty
  <2>2. QueueOK(lv[i], side)
    BY <1>3, <1>5, <1>13
  <2>3. SideOK(lv, side)
    BY <1>5, <1>6, <2>2 DEF SideOK
  <2>4. OrdersOf(lv) = OthersOf(lv, i) \cup ToSet(X)
    BY <1>5, <1>11, LevelsOf
  <2> QED
    BY <1>5, <1>7, <1>10, <2>1, <2>3, <2>4
<1> QED
  BY <1>12, <1>13

\* What is left of a sequence without its first element.
LEMMA TailIs ==
    ASSUME NEW S, NEW s \in Seq(S), 1 \in 1 .. Len(s)
    PROVE  Tail(s) = RemoveAt(s, 1)
<1>1. PICK t : t = Tail(s)
  OBVIOUS
<1>2. /\ t \in Seq(S) /\ Len(t) = Len(s) - 1
      /\ \A j \in 1 .. Len(s) - 1 : t[j] = s[j + 1]
  <2>1. s # <<>>
    OBVIOUS
  <2> QED
    BY <1>1, <2>1
<1>3. PICK r : r = RemoveAt(s, 1)
  OBVIOUS
<1>4. PICK one : one = 1
  OBVIOUS
<1>5. s \in Seq(S) /\ one \in 1 .. Len(s) /\ r = RemoveAt(s, one)
  BY <1>3, <1>4
<1>6. RemoveAt(s, one) \in Seq(S) /\ Removed(RemoveAt(s, one), s, one)
  BY <1>5, RemoveFacts, Zenon
<1>7. r \in Seq(S) /\ Removed(r, s, one)
  BY <1>5, <1>6, Zenon
<1>8. /\ r \in Seq(S) /\ Len(r) = Len(s) - 1
      /\ \A j \in 1 .. Len(s) - 1 : r[j] = s[j + 1]
  <2>1. /\ Len(r) = Len(s) - 1
        /\ \A j \in 1 .. Len(s) - 1 : r[j] = IF j < one THEN s[j] ELSE s[j + 1]
    BY <1>7 DEF Removed
  <2> QED
    BY <1>4, <1>7, <2>1
<1>9. t = r
  BY <1>2, <1>8, SeqEqual
<1> QED
  BY <1>1, <1>3, <1>9
-----------------------------------------------------------------------------
\* Without its first order a side is what it was but that order.
LEMMA RemoveBestFacts ==
    ASSUME NEW levels, NEW side \in Sides, SideOK(levels, side), levels # <<>>
    PROVE  /\ SideOK(RemoveBest(levels), side)
           /\ OrdersOf(RemoveBest(levels)) = OrdersOf(levels) \ {levels[1].orders[1]}
<1>1. /\ 1 \in DOMAIN levels /\ 1 \in 1 .. Len(levels[1].orders)
  BY BestFacts
<1>2. levels[1] \in PriceLevel /\ QueueOK(levels[1], side)
  BY <1>1, SideFacts
<1>3. levels[1].orders \in Seq(BookOrder)
  BY <1>2, QueueFacts
<1>4. Tail(levels[1].orders) = RemoveAt(levels[1].orders, 1)
  BY <1>1, <1>3, TailIs
<1>5. PICK lv : lv = [levels EXCEPT ![1].orders = RemoveAt(levels[1].orders, 1)]
  OBVIOUS
<1>8. /\ 1 \in DOMAIN levels /\ 1 \in 1 .. Len(levels[1].orders)
      /\ Requeued(lv, levels, 1, RemoveAt(levels[1].orders, 1))
  BY <1>1, <1>5 DEF Requeued
<1>6. RemoveBest(levels) = DropIfEmpty(lv, 1)
  BY <1>4, <1>5 DEF RemoveBest
<1>7. /\ SideOK(DropIfEmpty(lv, 1), side)
      /\ OrdersOf(DropIfEmpty(lv, 1)) = OrdersOf(levels) \ {levels[1].orders[1]}
  BY <1>8, SideShortened
<1> QED
  BY <1>6, <1>7

\* The first order gives a part or goes.
LEMMA TakeFromBestFacts ==
    ASSUME NEW levels, NEW side \in Sides, SideOK(levels, side), levels # <<>>,
           NEW m, m = levels[1].orders[1], NEW q \in Nat \ {0}, q <= m.remaining
    PROVE  /\ SideOK(TakeFromBest(levels, q), side)
           /\ q = m.remaining =>
                 OrdersOf(TakeFromBest(levels, q)) = OrdersOf(levels) \ {m}
           /\ q # m.remaining =>
                 OrdersOf(TakeFromBest(levels, q)) =
                    (OrdersOf(levels) \ {m}) \cup {[m EXCEPT !.remaining = @ - q]}
<1>1. /\ 1 \in DOMAIN levels /\ 1 \in 1 .. Len(levels[1].orders) /\ m \in OrdersOf(levels)
  BY BestFacts
<1>2. levels[1] \in PriceLevel /\ QueueOK(levels[1], side)
  BY <1>1, SideFacts
<1>3. CASE q = m.remaining
  <2>1. TakeFromBest(levels, q) = RemoveBest(levels)
    BY <1>3 DEF TakeFromBest
  <2> QED
    BY <1>3, <2>1, RemoveBestFacts
<1>4. CASE q # m.remaining
  <2>1. PICK o : o = [m EXCEPT !.remaining = @ - q]
    OBVIOUS
  <2>2. m \in BookOrder /\ m.side = side
    BY <1>1, SideFacts
  <2>3. m.remaining \in Nat /\ m.remaining - q \in Nat \ {0}
    BY <1>4, <2>2 DEF BookOrder, EngineOrder
  <2>4. /\ o \in BookOrder /\ o.side = m.side /\ o.price = m.price /\ o.sequence = m.sequence
    BY <2>1, <2>2, <2>3 DEF BookOrder, EngineOrder
  <2>5. m.price = levels[1].price
    BY <1>1, <1>2, QueueFacts
  <2>6. PICK X : X = [levels[1].orders EXCEPT ![1] = o]
    OBVIOUS
  <2>17. FirstIs(X, levels[1].orders, o) /\ o.side = side
    BY <2>2, <2>4, <2>6 DEF FirstIs
  <2>18. o \in BookOrder /\ o.price = levels[1].price /\ o.sequence = levels[1].orders[1].sequence
    BY <2>4, <2>5
  <2>7. /\ X \in Seq(BookOrder)
        /\ QueueOK([price |-> levels[1].price, orders |-> X], side)
        /\ ToSet(X) = (ToSet(levels[1].orders) \ {levels[1].orders[1]}) \cup {o}
    BY <1>2, <2>17, <2>18, QueueReduced, Zenon
  <2>8. PICK lv : lv = [levels EXCEPT ![1].orders = X]
    OBVIOUS
  <2>19. 1 \in DOMAIN levels /\ X \in Seq(BookOrder) /\ Requeued(lv, levels, 1, X)
    BY <1>1, <2>7, <2>8 DEF Requeued
  <2>9. lv = TakeFromBest(levels, q)
    BY <1>1, <1>4, <2>1, <2>6, <2>8 DEF TakeFromBest
  <2>10. /\ lv \in Seq(PriceLevel) /\ Ordered(lv, side) /\ Len(lv) = Len(levels)
         /\ DOMAIN lv = DOMAIN levels
         /\ lv[1] = [price |-> levels[1].price, orders |-> X]
         /\ \A j \in DOMAIN levels : j # 1 => lv[j] = levels[j]
         /\ OthersOf(lv, 1) = OthersOf(levels, 1)
    BY <2>19, LevelReplaced
  <2>11. \A j \in DOMAIN lv : QueueOK(lv[j], side)
    BY <2>7, <2>10 DEF SideOK
  <2>12. SideOK(lv, side)
    BY <2>10, <2>11 DEF SideOK
  <2>13. OrdersOf(lv) = OthersOf(lv, 1) \cup ToSet(X)
    BY <1>1, <2>10, LevelsOf
  <2>14. OrdersOf(levels) = OthersOf(levels, 1) \cup ToSet(levels[1].orders)
    BY <1>1, LevelsOf
  <2>15. m \notin OthersOf(levels, 1)
    BY <1>1, <2>5, LevelsApart
  <2>16. OrdersOf(lv) = (OrdersOf(levels) \ {m}) \cup {o}
    BY <2>7, <2>10, <2>13, <2>14, <2>15
  <2> QED
    BY <1>4, <2>1, <2>9, <2>12, <2>16
<1> QED
  BY <1>3, <1>4

\* The order joins the orders of its side.
LEMMA AddFacts ==
    ASSUME NEW levels, NEW side \in Sides, SideOK(levels, side),
           NEW order \in BookOrder, order.side = side,
           \A e \in OrdersOf(levels) : e.sequence < order.sequence
    PROVE  /\ SideOK(Add(levels, order), side)
           /\ OrdersOf(Add(levels, order)) = OrdersOf(levels) \cup {order}
<1>1. PICK n : n = Len(levels)
  OBVIOUS
<1>2. /\ levels \in Seq(PriceLevel) /\ n \in Nat /\ DOMAIN levels = 1 .. n
      /\ \A i \in 1 .. n :
            levels[i] \in PriceLevel /\ levels[i].price \in Nat /\ QueueOK(levels[i], side)
      /\ Ordered(levels, side)
  BY <1>1, SideFacts DEF SideOK
<1>3. PICK p : p = order.price
  OBVIOUS
<1>4. p \in Nat
  BY <1>3 DEF BookOrder, EngineOrder
<1>5. PICK r : r = FindLevelIndex(levels, side, p)
  OBVIOUS
<1>6. /\ r \in 0 .. n
      /\ \A i \in 1 .. n : i <= r <=> ComesFirst(side, levels[i].price, p)
  <2>1. \A i \in 1 .. n : levels[i].price \in Nat
    BY <1>2
  <2> QED
    BY <1>1, <1>2, <1>4, <1>5, <2>1, SearchFinds
<1>7. PICK at : at = r + 1
  OBVIOUS
<1>8. Add(levels, order) =
         IF at <= n /\ levels[at].price = p
         THEN [levels EXCEPT ![at].orders = Append(levels[at].orders, order)]
         ELSE InsertAt(levels, at, [price |-> p, orders |-> <<order>>])
  BY <1>1, <1>3, <1>5, <1>7 DEF Add
<1>9. CASE at <= n /\ levels[at].price = p
  <2>1. at \in DOMAIN levels /\ levels[at] \in PriceLevel /\ QueueOK(levels[at], side)
    BY <1>2, <1>6, <1>7, <1>9
  <2>2. PICK X : X = Append(levels[at].orders, order)
    OBVIOUS
  <2>3. OrdersOf(levels) = OthersOf(levels, at) \cup ToSet(levels[at].orders)
    BY <2>1, LevelsOf
  <2>4. \A e \in ToSet(levels[at].orders) : e.sequence < order.sequence
    BY <2>3
  <2>5. /\ X \in Seq(BookOrder)
        /\ QueueOK([price |-> levels[at].price, orders |-> X], side)
        /\ ToSet(X) = ToSet(levels[at].orders) \cup {order}
    BY <1>3, <1>9, <2>1, <2>2, <2>4, QueueAppended
  <2>6. PICK lv : lv = [levels EXCEPT ![at].orders = X]
    OBVIOUS
  <2>8. at \in DOMAIN levels /\ X \in Seq(BookOrder) /\ Requeued(lv, levels, at, X)
    BY <2>1, <2>5, <2>6 DEF Requeued
  <2>7. lv = Add(levels, order)
    BY <1>8, <1>9, <2>2, <2>6
  <2>10. /\ lv \in Seq(PriceLevel) /\ Ordered(lv, side) /\ Len(lv) = Len(levels)
         /\ DOMAIN lv = DOMAIN levels
         /\ lv[at] = [price |-> levels[at].price, orders |-> X]
         /\ \A j \in DOMAIN levels : j # at => lv[j] = levels[j]
         /\ OthersOf(lv, at) = OthersOf(levels, at)
    BY <2>8, LevelReplaced
  <2>11. \A j \in DOMAIN lv : QueueOK(lv[j], side)
    BY <2>5, <2>10 DEF SideOK
  <2>12. SideOK(lv, side)
    BY <2>10, <2>11 DEF SideOK
  <2>13. OrdersOf(lv) = OthersOf(lv, at) \cup ToSet(X)
    BY <2>1, <2>10, LevelsOf
  <2> QED
    BY <2>3, <2>5, <2>7, <2>10, <2>12, <2>13
<1>10. CASE ~(at <= n /\ levels[at].price = p)
  <2>1. PICK q : q = [price |-> p, orders |-> <<order>>]
    OBVIOUS
  <2>2. Add(levels, order) = InsertAt(levels, r + 1, q)
    BY <1>7, <1>8, <1>10, <2>1
  <2>3. <<order>> \in Seq(BookOrder) /\ DOMAIN <<order>> = {1} /\ <<order>>[1] = order
    OBVIOUS
  <2>4. q \in PriceLevel /\ q.price = p /\ q.orders = <<order>>
    BY <1>4, <2>1, <2>3 DEF PriceLevel
  <2>5. QueueOK(q, side) /\ ToSet(q.orders) = {order}
    BY <1>3, <2>3, <2>4 DEF QueueOK, ToSet
  <2>6. ASSUME NEW i \in 1 .. n, levels[i].price = p PROVE FALSE
    <3>1. ~(i <= r)
      BY <1>2, <1>4, <1>6, <2>6 DEF ComesFirst
    <3>2. at <= n /\ at \in 1 .. n /\ i >= at
      BY <1>2, <1>6, <1>7, <3>1
    <3>3. i # at
      BY <1>10, <2>6, <3>2
    <3>4. ComesFirst(side, levels[at].price, levels[i].price)
      BY <1>2, <3>2, <3>3 DEF Ordered
    <3>5. ComesFirst(side, levels[at].price, p)
      BY <2>6, <3>4
    <3>6. at <= r
      BY <1>6, <3>2, <3>5
    <3> QED
      BY <1>6, <1>7, <3>6
  <2>7. \A i \in DOMAIN levels : levels[i].price # q.price
    BY <1>2, <2>4, <2>6
  <2>8. \A i \in 1 .. Len(levels) : i <= r <=> ComesFirst(side, levels[i].price, q.price)
    BY <1>1, <1>6, <2>4
  <2>9. r \in 0 .. Len(levels)
    BY <1>1, <1>6
  <2>11. q \in PriceLevel /\ QueueOK(q, side) /\ Fits(levels, side, r, q.price)
    BY <2>4, <2>5, <2>7, <2>8, <2>9 DEF Fits
  <2>10. /\ SideOK(InsertAt(levels, r + 1, q), side)
         /\ OrdersOf(InsertAt(levels, r + 1, q)) = OrdersOf(levels) \cup ToSet(q.orders)
    BY <2>11, LevelInserted
  <2> QED
    BY <2>2, <2>5, <2>10
<1> QED
  BY <1>9, <1>10

\* The order with the identifier goes, if it is on the side.
LEMMA RemoveOrderFacts ==
    ASSUME NEW levels, NEW side \in Sides, SideOK(levels, side), NEW id,
           \A e, f \in OrdersOf(levels) : e.id = f.id => e = f
    PROVE  /\ SideOK(RemoveOrder(levels, id), side)
           /\ OrdersOf(RemoveOrder(levels, id)) = {e \in OrdersOf(levels) : e.id # id}
           /\ PlacesOf(levels, id) = {} <=> \A e \in OrdersOf(levels) : e.id # id
<1>1. \A i \in DOMAIN levels : /\ levels[i].orders \in Seq(BookOrder)
                               /\ DOMAIN levels[i].orders = 1 .. Len(levels[i].orders)
  <2>1. ASSUME NEW i \in DOMAIN levels
        PROVE  /\ levels[i].orders \in Seq(BookOrder)
               /\ DOMAIN levels[i].orders = 1 .. Len(levels[i].orders)
    <3>1. levels[i] \in PriceLevel /\ QueueOK(levels[i], side)
      BY SideFacts
    <3>2. levels[i].orders \in Seq(BookOrder)
      BY <3>1, QueueFacts
    <3> QED
      BY <3>2
  <2> QED
    BY <2>1
<1>2. ASSUME NEW place \in PlacesOf(levels, id)
      PROVE  \E i \in DOMAIN levels : \E k \in DOMAIN levels[i].orders :
                place = <<i, k>> /\ levels[i].orders[k].id = id
  BY DEF PlacesOf
<1>3. ASSUME NEW i \in DOMAIN levels, NEW k \in DOMAIN levels[i].orders, levels[i].orders[k].id = id
      PROVE  <<i, k>> \in PlacesOf(levels, id)
  BY <1>3 DEF PlacesOf
<1>4. ASSUME NEW e \in OrdersOf(levels)
      PROVE  \E i \in DOMAIN levels : \E k \in DOMAIN levels[i].orders : e = levels[i].orders[k]
  BY DEF OrdersOf, ToSet
<1>5. ASSUME NEW i \in DOMAIN levels, NEW k \in DOMAIN levels[i].orders
      PROVE  levels[i].orders[k] \in OrdersOf(levels)
  BY DEF OrdersOf, ToSet
<1>6. PlacesOf(levels, id) = {} <=> \A e \in OrdersOf(levels) : e.id # id
  <2>1. ASSUME PlacesOf(levels, id) = {}, NEW e \in OrdersOf(levels), e.id = id PROVE FALSE
    <3>2. PICK i \in DOMAIN levels : \E k \in DOMAIN levels[i].orders : e = levels[i].orders[k]
      BY <1>4
    <3>1. PICK k \in DOMAIN levels[i].orders : e = levels[i].orders[k]
      BY <3>2
    <3> QED
      BY <1>3, <2>1, <3>1
  <2>2. ASSUME \A e \in OrdersOf(levels) : e.id # id, NEW place \in PlacesOf(levels, id) PROVE FALSE
    <3>2. PICK i \in DOMAIN levels : \E k \in DOMAIN levels[i].orders :
             place = <<i, k>> /\ levels[i].orders[k].id = id
      BY <1>2
    <3>1. PICK k \in DOMAIN levels[i].orders :
             place = <<i, k>> /\ levels[i].orders[k].id = id
      BY <3>2
    <3> QED
      BY <1>5, <2>2, <3>1
  <2> QED
    BY <2>1, <2>2
<1>7. CASE PlacesOf(levels, id) = {}
  <2>1. RemoveOrder(levels, id) = levels
    BY <1>7 DEF RemoveOrder
  <2>2. {e \in OrdersOf(levels) : e.id # id} = OrdersOf(levels)
    BY <1>6, <1>7
  <2> QED
    BY <1>6, <2>1, <2>2
<1>8. CASE PlacesOf(levels, id) # {}
  <2>1. PICK place : place = CHOOSE p \in PlacesOf(levels, id) : TRUE
    OBVIOUS
  <2>2. place \in PlacesOf(levels, id)
    BY <1>8, <2>1
  <2>9. PICK i \in DOMAIN levels : \E k \in DOMAIN levels[i].orders :
           place = <<i, k>> /\ levels[i].orders[k].id = id
    BY <1>2, <2>2
  <2>3. PICK k \in DOMAIN levels[i].orders :
           place = <<i, k>> /\ levels[i].orders[k].id = id
    BY <2>9
  <2>4. PICK lv : lv = [levels EXCEPT ![i].orders = RemoveAt(levels[i].orders, k)]
    OBVIOUS
  <2>5. RemoveOrder(levels, id) = DropIfEmpty(lv, i)
    <3>1. RemoveOrder(levels, id) =
             DropIfEmpty([levels EXCEPT ![place[1]].orders = RemoveAt(@, place[2])], place[1])
      BY <1>8, <2>1 DEF RemoveOrder
    <3>2. place[1] = i /\ place[2] = k
      BY <2>3
    <3> QED
      BY <2>4, <3>1, <3>2
  <2>10. Requeued(lv, levels, i, RemoveAt(levels[i].orders, k))
    BY <2>4 DEF Requeued
  <2>6. k \in 1 .. Len(levels[i].orders)
    BY <1>1, <2>3
  <2>7. /\ SideOK(DropIfEmpty(lv, i), side)
        /\ OrdersOf(DropIfEmpty(lv, i)) = OrdersOf(levels) \ {levels[i].orders[k]}
    BY <2>6, <2>10, SideShortened
  <2>8. OrdersOf(levels) \ {levels[i].orders[k]} = {e \in OrdersOf(levels) : e.id # id}
    BY <1>5, <2>3
  <2> QED
    BY <1>6, <2>5, <2>7, <2>8
<1> QED
  BY <1>7, <1>8
-----------------------------------------------------------------------------
(* The inductive invariant of the engine *)

\* The taker in the loop, with what it still wants; it is the newest order.
TakerOK ==
    \/ taker = NoTaker /\ fills = <<>>
    \/ /\ taker \in [id : Nat, user : Users, side : Sides, type : OrderTypes, price : Nat,
                     remaining : Nat, sequence : Nat]
       /\ taker.id = sequence /\ taker.sequence = sequence /\ sequence > 0
       /\ \A e \in Resting : e.sequence < sequence

FillRecord == [maker : Nat, price : Nat, quantity : Nat, ahead : Nat]

\* Both sides are in order, every order on them is numbered by its arrival and
\* is there once.
EngineInv ==
    /\ sequence \in Nat
    /\ SideOK(bids, "BUY") /\ SideOK(asks, "SELL")
    /\ IsFiniteSet(Resting)
    /\ \A e \in Resting : e.id = e.sequence /\ e.sequence <= sequence
    /\ \A e, f \in Resting : e.id = f.id => e = f
    /\ TakerOK
    /\ fills \in Seq(FillRecord)

\* The resting orders after q was taken of m.
Without(S, m, q) ==
    (S \ {m}) \cup (IF q = m.remaining THEN {} ELSE {[m EXCEPT !.remaining = @ - q]})

\* m is the first of the orders in S that the taker looks at.
IsFirst(S, m, side) ==
    /\ m \in S /\ m.side # side
    /\ \A e \in S : e.side # side => e = m \/ Before(m, e)

\* Both sides of the book as one set.
LEMMA RestingFacts ==
    ASSUME EngineInv
    PROVE  /\ Resting \subseteq BookOrder
           /\ \A e \in Resting : e.side \in Sides /\ e.sequence \in Nat /\ e.remaining \in Nat \ {0}
           /\ OrdersOf(bids) = {e \in Resting : e.side = "BUY"}
           /\ OrdersOf(asks) = {e \in Resting : e.side = "SELL"}
<1>1. /\ OrdersOf(bids) \subseteq BookOrder /\ \A e \in OrdersOf(bids) : e.side = "BUY"
      /\ OrdersOf(asks) \subseteq BookOrder /\ \A e \in OrdersOf(asks) : e.side = "SELL"
  BY SideFacts DEF EngineInv
<1>2. Resting \subseteq BookOrder
  BY <1>1 DEF Resting
<1>3. \A e \in Resting : e.side \in Sides /\ e.sequence \in Nat /\ e.remaining \in Nat \ {0}
  BY <1>2 DEF BookOrder, EngineOrder
<1> QED
  BY <1>1, <1>2, <1>3 DEF Resting

\* The order the loop looks at is the first of the other side.
LEMMA MakerFacts ==
    ASSUME EngineInv, taker # NoTaker
    PROVE  LET levels == Opposing(taker.side)
               m == levels[1].orders[1]
           IN  \/ Maker = {} /\ levels = <<>> /\ \A e \in Resting : e.side = taker.side
               \/ Maker = {m} /\ levels # <<>> /\ IsFirst(Resting, m, taker.side)
<1>1. taker.side \in Sides
  BY DEF EngineInv, TakerOK
<1>2. PICK levels : levels = Opposing(taker.side)
  OBVIOUS
<1>3. PICK side \in Sides : side = IF taker.side = "BUY" THEN "SELL" ELSE "BUY"
  BY DEF Sides
<1>4. SideOK(levels, side)
  BY <1>1, <1>2, <1>3 DEF EngineInv, Opposing
<1>5. OrdersOf(levels) = {e \in Resting : e.side # taker.side}
  <2>1. /\ OrdersOf(bids) = {e \in Resting : e.side = "BUY"}
        /\ OrdersOf(asks) = {e \in Resting : e.side = "SELL"}
        /\ \A e \in Resting : e.side \in Sides
    BY RestingFacts
  <2> QED
    BY <1>1, <1>2, <2>1 DEF Opposing, Sides
<1>6. PICK m : m = levels[1].orders[1]
  OBVIOUS
<1>7. \/ BestOf(levels) = {} /\ OrdersOf(levels) = {} /\ levels = <<>>
      \/ /\ levels # <<>> /\ BestOf(levels) = {m} /\ m \in OrdersOf(levels)
         /\ \A e \in OrdersOf(levels) : e = m \/ Before(m, e)
  BY <1>4, <1>6, BestFacts
<1>8. Maker = BestOf(levels)
  BY <1>2 DEF Maker
<1> QED
  BY <1>2, <1>5, <1>6, <1>7, <1>8 DEF IsFirst

\* One pass of the loop, as a step on the set of the resting orders.
LEMMA FillStep ==
    ASSUME EngineInv, Fill
    PROVE  \E m \in Resting, q \in Nat \ {0} :
             /\ IsFirst(Resting, m, taker.side) /\ Crosses(taker, m) /\ m.user # taker.user
             /\ q = Least(m.remaining, taker.remaining)
             /\ taker.remaining \in Nat \ {0} /\ q <= m.remaining /\ q <= taker.remaining
             /\ Resting' = Without(Resting, m, q)
             /\ SideOK(bids', "BUY") /\ SideOK(asks', "SELL")
             /\ taker' = [taker EXCEPT !.remaining = @ - q]
             /\ fills' = Append(fills, [maker |-> m.id, price |-> m.price, quantity |-> q,
                                        ahead |-> Filled(Len(fills))])
<1>1. taker # NoTaker /\ CanFill
  BY DEF Fill
<1>2. PICK m \in Maker :
        LET q == Least(m.remaining, taker.remaining)
        IN  /\ fills' = Append(fills, [maker |-> m.id, price |-> m.price,
                                       quantity |-> q, ahead |-> Filled(Len(fills))])
            /\ taker' = [taker EXCEPT !.remaining = @ - q]
            /\ IF taker.side = "BUY"
               THEN asks' = TakeFromBest(asks, q) /\ UNCHANGED bids
               ELSE bids' = TakeFromBest(bids, q) /\ UNCHANGED asks
  BY DEF Fill
<1>3. PICK levels : levels = Opposing(taker.side)
  OBVIOUS
<1>4. m = levels[1].orders[1] /\ levels # <<>> /\ IsFirst(Resting, m, taker.side) /\ Maker = {m}
  BY <1>1, <1>2, <1>3, MakerFacts
<1>5. Crosses(taker, m) /\ m.user # taker.user /\ taker.remaining > 0
  BY <1>1, <1>4 DEF CanFill, crosses, Crosses
<1>6. taker.remaining \in Nat /\ taker.side \in Sides
  BY <1>1 DEF EngineInv, TakerOK
<1>7. m \in Resting /\ m \in BookOrder /\ m.remaining \in Nat \ {0} /\ m.side # taker.side
  BY <1>4, RestingFacts DEF IsFirst
<1>8. PICK q : q = Least(m.remaining, taker.remaining)
  OBVIOUS
<1>9. q \in Nat \ {0} /\ q <= m.remaining /\ q <= taker.remaining
  BY <1>5, <1>6, <1>7, <1>8 DEF Least
<1>10. /\ OrdersOf(bids) = {e \in Resting : e.side = "BUY"}
       /\ OrdersOf(asks) = {e \in Resting : e.side = "SELL"}
       /\ \A e \in Resting : e.side \in Sides
  BY RestingFacts
<1>11. PICK side \in Sides : side = IF taker.side = "BUY" THEN "SELL" ELSE "BUY"
  BY DEF Sides
<1>12. SideOK(levels, side)
  BY <1>3, <1>6, <1>11 DEF EngineInv, Opposing
<1>13. PICK lv : lv = TakeFromBest(levels, q)
  OBVIOUS
<1>14. /\ SideOK(lv, side)
       /\ OrdersOf(lv) = Without(OrdersOf(levels), m, q)
  <2>1. /\ SideOK(TakeFromBest(levels, q), side)
        /\ q = m.remaining =>
              OrdersOf(TakeFromBest(levels, q)) = OrdersOf(levels) \ {m}
        /\ q # m.remaining =>
              OrdersOf(TakeFromBest(levels, q)) =
                 (OrdersOf(levels) \ {m}) \cup {[m EXCEPT !.remaining = @ - q]}
    BY <1>4, <1>9, <1>12, TakeFromBestFacts
  <2>2. CASE q = m.remaining
    BY <1>13, <2>1, <2>2 DEF Without
  <2>3. CASE q # m.remaining
    BY <1>13, <2>1, <2>3 DEF Without
  <2> QED
    BY <2>2, <2>3
<1>15. CASE taker.side = "BUY"
  <2>1. side = "SELL" /\ levels = asks
    BY <1>3, <1>11, <1>15 DEF Opposing
  <2>2. asks' = lv /\ bids' = bids
    BY <1>2, <1>8, <1>13, <1>15, <2>1
  <2>3. Resting' = OrdersOf(bids) \cup OrdersOf(lv)
    BY <2>2 DEF Resting
  <2>4. m \notin OrdersOf(bids) /\ Resting = OrdersOf(bids) \cup OrdersOf(asks)
    BY <1>7, <1>10, <1>15 DEF Resting
  <2>5. Resting' = Without(Resting, m, q)
    BY <1>14, <2>1, <2>3, <2>4 DEF Without
  <2>6. SideOK(bids', "BUY") /\ SideOK(asks', "SELL")
    BY <1>14, <2>1, <2>2 DEF EngineInv
  <2> QED
    BY <1>2, <1>4, <1>5, <1>6, <1>7, <1>8, <1>9, <2>5, <2>6
<1>16. CASE taker.side # "BUY"
  <2>1. side = "BUY" /\ levels = bids /\ taker.side = "SELL"
    BY <1>3, <1>6, <1>11, <1>16 DEF Opposing, Sides
  <2>2. bids' = lv /\ asks' = asks
    BY <1>2, <1>8, <1>13, <1>16, <2>1
  <2>3. Resting' = OrdersOf(asks) \cup OrdersOf(lv)
    BY <2>2 DEF Resting
  <2>4. m \notin OrdersOf(asks) /\ Resting = OrdersOf(bids) \cup OrdersOf(asks)
    BY <1>7, <1>10, <2>1 DEF Resting
  <2>5. Resting' = Without(Resting, m, q)
    BY <1>14, <2>1, <2>3, <2>4 DEF Without
  <2>6. SideOK(bids', "BUY") /\ SideOK(asks', "SELL")
    BY <1>14, <2>1, <2>2 DEF EngineInv
  <2> QED
    BY <1>2, <1>4, <1>5, <1>6, <1>7, <1>8, <1>9, <2>5, <2>6
<1> QED
  BY <1>15, <1>16

\* The end of the loop, as a step on the set of the resting orders.
LEMMA FinishStep ==
    ASSUME EngineInv, Finish
    PROVE  LET rests == taker.remaining > 0 /\ taker.type = "LIMIT" /\ ~SelfTradeStop
           IN  /\ taker # NoTaker
               /\ rests => taker \in BookOrder
               /\ Resting' = Resting \cup (IF rests THEN {taker} ELSE {})
               /\ SideOK(bids', "BUY") /\ SideOK(asks', "SELL")
<1>1. taker # NoTaker /\ finalize(SelfTradeStop)
  BY DEF Finish
<1>2. PICK rests \in BOOLEAN :
        rests <=> (taker.remaining > 0 /\ taker.type = "LIMIT" /\ ~SelfTradeStop)
  OBVIOUS
<1>3. /\ bids' = IF rests /\ taker.side = "BUY" THEN Add(bids, taker) ELSE bids
      /\ asks' = IF rests /\ taker.side = "SELL" THEN Add(asks, taker) ELSE asks
  BY <1>1, <1>2 DEF finalize
<1>4. /\ taker \in [id : Nat, user : Users, side : Sides, type : OrderTypes, price : Nat,
                    remaining : Nat, sequence : Nat]
      /\ taker.sequence = sequence /\ \A e \in Resting : e.sequence < sequence
  BY <1>1 DEF EngineInv, TakerOK
<1>5. rests => taker \in BookOrder
  <2>1. rests => taker.remaining \in Nat \ {0} /\ taker.type = "LIMIT"
    BY <1>2, <1>4
  <2> QED
    BY <1>4, <2>1 DEF BookOrder, EngineOrder
<1>6. taker.side \in Sides
  BY <1>4
<1>7. /\ \A e \in OrdersOf(bids) : e.sequence < taker.sequence
      /\ \A e \in OrdersOf(asks) : e.sequence < taker.sequence
  BY <1>4 DEF Resting
<1>8. SideOK(bids, "BUY") /\ SideOK(asks, "SELL")
  BY DEF EngineInv
<1>9. CASE rests /\ taker.side = "BUY"
  <2>1. "BUY" \in Sides /\ taker \in BookOrder
    BY <1>5, <1>9 DEF Sides
  <2>2. /\ SideOK(Add(bids, taker), "BUY")
        /\ OrdersOf(Add(bids, taker)) = OrdersOf(bids) \cup {taker}
    BY <1>7, <1>8, <1>9, <2>1, AddFacts
  <2>3. bids' = Add(bids, taker) /\ asks' = asks
    BY <1>3, <1>9
  <2>4. Resting' = Resting \cup {taker}
    BY <2>2, <2>3 DEF Resting
  <2> QED
    BY <1>1, <1>2, <1>5, <1>8, <1>9, <2>2, <2>3, <2>4
<1>10. CASE rests /\ taker.side = "SELL"
  <2>1. "SELL" \in Sides /\ taker \in BookOrder
    BY <1>5, <1>10 DEF Sides
  <2>2. /\ SideOK(Add(asks, taker), "SELL")
        /\ OrdersOf(Add(asks, taker)) = OrdersOf(asks) \cup {taker}
    BY <1>7, <1>8, <1>10, <2>1, AddFacts
  <2>3. asks' = Add(asks, taker) /\ bids' = bids
    BY <1>3, <1>10
  <2>4. Resting' = Resting \cup {taker}
    BY <2>2, <2>3 DEF Resting
  <2> QED
    BY <1>1, <1>2, <1>5, <1>8, <1>10, <2>2, <2>3, <2>4
<1>11. CASE ~rests
  <2>1. bids' = bids /\ asks' = asks
    BY <1>3, <1>11
  <2>2. Resting' = Resting
    BY <2>1 DEF Resting
  <2> QED
    BY <1>1, <1>2, <1>5, <1>8, <1>11, <2>1, <2>2
<1> QED
  BY <1>6, <1>9, <1>10, <1>11 DEF Sides

\* A cancelled order leaves the resting orders.
LEMMA CancelStep ==
    ASSUME EngineInv, NEW id, Cancel(id)
    PROVE  /\ Resting' = {e \in Resting : e.id # id}
           /\ SideOK(bids', "BUY") /\ SideOK(asks', "SELL")
<1>1. /\ bids' = RemoveOrder(bids, id)
      /\ asks' = IF PlacesOf(bids, id) = {} THEN RemoveOrder(asks, id) ELSE asks
  BY DEF Cancel
<1>2. SideOK(bids, "BUY") /\ SideOK(asks, "SELL") /\ "BUY" \in Sides /\ "SELL" \in Sides
  BY DEF EngineInv, Sides
<1>3. \A e, f \in Resting : e.id = f.id => e = f
  BY DEF EngineInv
<1>4. /\ SideOK(RemoveOrder(bids, id), "BUY")
      /\ OrdersOf(RemoveOrder(bids, id)) = {e \in OrdersOf(bids) : e.id # id}
      /\ PlacesOf(bids, id) = {} <=> \A e \in OrdersOf(bids) : e.id # id
  <2>1. \A e, f \in OrdersOf(bids) : e.id = f.id => e = f
    BY <1>3 DEF Resting
  <2> QED
    BY <1>2, <2>1, RemoveOrderFacts
<1>5. /\ SideOK(RemoveOrder(asks, id), "SELL")
      /\ OrdersOf(RemoveOrder(asks, id)) = {e \in OrdersOf(asks) : e.id # id}
  <2>1. \A e, f \in OrdersOf(asks) : e.id = f.id => e = f
    BY <1>3 DEF Resting
  <2> QED
    BY <1>2, <2>1, RemoveOrderFacts
<1>6. /\ OrdersOf(bids) = {e \in Resting : e.side = "BUY"}
      /\ OrdersOf(asks) = {e \in Resting : e.side = "SELL"}
  BY RestingFacts
<1>7. OrdersOf(asks') = {e \in OrdersOf(asks) : e.id # id} /\ SideOK(asks', "SELL")
  <2>1. CASE PlacesOf(bids, id) = {}
    BY <1>1, <1>5, <2>1
  <2>2. CASE PlacesOf(bids, id) # {}
    <3>1. PICK b \in OrdersOf(bids) : b.id = id
      BY <1>4, <2>2
    <3>2. \A e \in OrdersOf(asks) : e.id # id
      BY <1>3, <1>6, <3>1
    <3> QED
      BY <1>1, <1>2, <2>2, <3>2
  <2> QED
    BY <2>1, <2>2
<1>8. Resting' = OrdersOf(bids') \cup OrdersOf(asks')
  BY DEF Resting
<1> QED
  BY <1>1, <1>4, <1>7, <1>8 DEF Resting
-----------------------------------------------------------------------------
\* A step that only makes the resting orders fewer or smaller keeps them well formed.
LEMMA WithoutFacts ==
    ASSUME NEW S, IsFiniteSet(S), S \subseteq BookOrder, NEW m \in S,
           \A e, f \in S : e.id = f.id => e = f,
           NEW q \in Nat \ {0}, q <= m.remaining
    PROVE  /\ IsFiniteSet(Without(S, m, q))
           /\ \A e \in Without(S, m, q) :
                 \E f \in S : e.id = f.id /\ e.sequence = f.sequence
           /\ \A e, f \in Without(S, m, q) : e.id = f.id => e = f
<1>1. PICK o : o = [m EXCEPT !.remaining = @ - q]
  OBVIOUS
<1>2. o.id = m.id /\ o.sequence = m.sequence
  BY <1>1 DEF BookOrder, EngineOrder
<1>3. \/ Without(S, m, q) = S \ {m}
      \/ Without(S, m, q) = (S \ {m}) \cup {o}
  BY <1>1 DEF Without
<1>4. IsFiniteSet(S \ {m}) /\ IsFiniteSet((S \ {m}) \cup {o})
  BY FS_RemoveElement, FS_AddElement
<1> QED
  BY <1>2, <1>3, <1>4

\* The invariant holds at the start.
LEMMA EngineInit == Init => EngineInv
<1> SUFFICES ASSUME Init PROVE EngineInv
  OBVIOUS
<1>1. bids = <<>> /\ asks = <<>> /\ sequence = 0 /\ taker = NoTaker /\ fills = <<>>
  BY DEF Init
<1>2. \A side : SideOK(<<>>, side)
  BY DEF SideOK, Ordered
<1>3. Resting = {}
  BY <1>1 DEF Resting, OrdersOf
<1>4. fills \in Seq(FillRecord)
  BY <1>1
<1> QED
  BY <1>1, <1>2, <1>3, <1>4, FS_EmptySet DEF EngineInv, TakerOK

\* The quantity filled before.
LEMMA FilledType ==
    ASSUME NEW s \in Seq(FillRecord)
    PROVE  (IF Len(s) = 0 THEN 0 ELSE s[Len(s)].ahead + s[Len(s)].quantity) \in Nat
<1>1. CASE Len(s) # 0
  <2>1. s[Len(s)] \in FillRecord
    BY <1>1
  <2>2. s[Len(s)].ahead \in Nat /\ s[Len(s)].quantity \in Nat
    BY <2>1 DEF FillRecord
  <2> QED
    BY <1>1, <2>2
<1> QED
  BY <1>1

\* Every call and every pass of the loop keeps the invariant.
LEMMA EngineStep == EngineInv /\ [Next]_vars => EngineInv'
<1> SUFFICES ASSUME EngineInv, [Next]_vars PROVE EngineInv'
  OBVIOUS
<1>1. /\ sequence \in Nat /\ IsFiniteSet(Resting) /\ Resting \subseteq BookOrder
      /\ \A e \in Resting : e.id = e.sequence /\ e.sequence <= sequence /\ e.sequence \in Nat
      /\ \A e, f \in Resting : e.id = f.id => e = f
      /\ fills \in Seq(FillRecord)
  BY RestingFacts DEF EngineInv
<1>2. ASSUME NEW user \in Users, NEW side \in Sides, NEW type \in OrderTypes,
             NEW quantity \in Quantities, NEW price \in PricesFor(type),
             Submit(user, side, type, price, quantity)
      PROVE  EngineInv'
  <2>1. /\ sequence' = sequence + 1 /\ taker' = Incoming(user, side, type, price, quantity)
        /\ fills' = <<>> /\ bids' = bids /\ asks' = asks
    BY <1>2 DEF Submit
  <2>2. Resting' = Resting
    BY <2>1 DEF Resting
  <2>3. price \in Nat /\ quantity \in Nat
    BY EngineAssumption DEF PricesFor
  <2>4. /\ taker' \in [id : Nat, user : Users, side : Sides, type : OrderTypes, price : Nat,
                      remaining : Nat, sequence : Nat]
        /\ taker'.id = sequence + 1 /\ taker'.sequence = sequence + 1
    BY <1>1, <2>1, <2>3 DEF Incoming
  <2>5. TakerOK'
    BY <1>1, <2>1, <2>2, <2>4 DEF TakerOK
  <2>6. fills' \in Seq(FillRecord)
    BY <2>1
  <2>7. \A e \in Resting' : e.id = e.sequence /\ e.sequence <= sequence'
    BY <1>1, <2>1, <2>2
  <2> QED
    BY <1>1, <2>1, <2>2, <2>5, <2>6, <2>7 DEF EngineInv
<1>3. CASE Fill
  <2>1. PICK m \in Resting, q \in Nat \ {0} :
             /\ taker.remaining \in Nat \ {0} /\ q <= m.remaining /\ q <= taker.remaining
             /\ Resting' = Without(Resting, m, q)
             /\ SideOK(bids', "BUY") /\ SideOK(asks', "SELL")
             /\ taker' = [taker EXCEPT !.remaining = @ - q]
             /\ fills' = Append(fills, [maker |-> m.id, price |-> m.price, quantity |-> q,
                                        ahead |-> Filled(Len(fills))])
    BY <1>3, FillStep
  <2>2. /\ IsFiniteSet(Resting')
        /\ \A e \in Resting' : \E f \in Resting : e.id = f.id /\ e.sequence = f.sequence
        /\ \A e, f \in Resting' : e.id = f.id => e = f
    BY <1>1, <2>1, WithoutFacts
  <2>3. sequence' = sequence /\ taker # NoTaker
    BY <1>3 DEF Fill
  <2>4. /\ taker \in [id : Nat, user : Users, side : Sides, type : OrderTypes, price : Nat,
                     remaining : Nat, sequence : Nat]
        /\ taker.id = sequence /\ taker.sequence = sequence /\ sequence > 0
        /\ \A e \in Resting : e.sequence < sequence
    BY <2>3 DEF EngineInv, TakerOK
  <2>5. taker.remaining - q \in Nat
    BY <2>1
  <2>6. /\ taker' \in [id : Nat, user : Users, side : Sides, type : OrderTypes, price : Nat,
                      remaining : Nat, sequence : Nat]
        /\ taker'.id = sequence' /\ taker'.sequence = sequence' /\ sequence' > 0
    BY <2>1, <2>3, <2>4, <2>5
  <2>7. \A e \in Resting' : e.sequence < sequence'
    BY <2>2, <2>3, <2>4
  <2>8. TakerOK'
    BY <2>6, <2>7 DEF TakerOK
  <2>9. Filled(Len(fills)) \in Nat
    BY <1>1, FilledType DEF Filled
  <2>10. m.id \in Nat /\ m.price \in Nat
    BY <1>1 DEF BookOrder, EngineOrder
  <2>11. [maker |-> m.id, price |-> m.price, quantity |-> q, ahead |-> Filled(Len(fills))] \in FillRecord
    BY <2>9, <2>10 DEF FillRecord
  <2>12. fills' \in Seq(FillRecord)
    BY <1>1, <2>1, <2>11
  <2>13. \A e \in Resting' : e.id = e.sequence /\ e.sequence <= sequence'
    BY <1>1, <2>2, <2>3
  <2> QED
    BY <1>1, <2>1, <2>2, <2>3, <2>8, <2>12, <2>13 DEF EngineInv
<1>4. CASE Finish
  <2>1. sequence' = sequence /\ taker' = NoTaker /\ fills' = <<>>
    BY <1>4 DEF Finish
  <2>2. PICK rests \in BOOLEAN :
          rests <=> (taker.remaining > 0 /\ taker.type = "LIMIT" /\ ~SelfTradeStop)
    OBVIOUS
  <2>3. /\ taker # NoTaker
        /\ Resting' = Resting \cup (IF rests THEN {taker} ELSE {})
        /\ SideOK(bids', "BUY") /\ SideOK(asks', "SELL")
    BY <1>4, <2>2, FinishStep
  <2>4. /\ taker.id = sequence /\ taker.sequence = sequence
        /\ \A e \in Resting : e.sequence < sequence
    BY <2>3 DEF EngineInv, TakerOK
  <2>5. IsFiniteSet(Resting')
    BY <1>1, <2>3, FS_AddElement
  <2>6. \A e \in Resting' : e.id = e.sequence /\ e.sequence <= sequence'
    BY <1>1, <2>1, <2>3, <2>4
  <2>7. \A e, f \in Resting' : e.id = f.id => e = f
    BY <1>1, <2>3, <2>4
  <2>8. TakerOK' /\ fills' \in Seq(FillRecord)
    BY <2>1 DEF TakerOK, NoTaker
  <2> QED
    BY <1>1, <2>1, <2>3, <2>5, <2>6, <2>7, <2>8 DEF EngineInv
<1>5. ASSUME NEW id \in 1 .. sequence, Cancel(id)
      PROVE  EngineInv'
  <2>1. /\ Resting' = {e \in Resting : e.id # id}
        /\ SideOK(bids', "BUY") /\ SideOK(asks', "SELL")
    BY <1>5, CancelStep
  <2>2. taker = NoTaker /\ sequence' = sequence /\ taker' = taker /\ fills' = fills
    BY <1>5 DEF Cancel
  <2>3. IsFiniteSet(Resting')
    BY <1>1, <2>1, FS_Subset
  <2>4. fills = <<>>
    <3>1. NoTaker.id = 0
      BY DEF NoTaker
    <3> QED
      BY <2>2, <3>1 DEF EngineInv, TakerOK
  <2>5. TakerOK'
    BY <2>2, <2>4 DEF TakerOK, NoTaker
  <2> QED
    BY <1>1, <2>1, <2>2, <2>3, <2>5 DEF EngineInv
<1>6. CASE UNCHANGED vars
  <2>1. /\ bids' = bids /\ asks' = asks /\ sequence' = sequence /\ taker' = taker
        /\ fills' = fills
    BY <1>6 DEF vars
  <2>2. Resting' = Resting
    BY <2>1 DEF Resting
  <2>3. TakerOK'
    BY <2>1, <2>2 DEF EngineInv, TakerOK, NoTaker
  <2> QED
    BY <1>1, <2>1, <2>2, <2>3 DEF EngineInv
<1> QED
  BY <1>2, <1>3, <1>4, <1>5, <1>6 DEF Next

\* matching-engine.ts 36-116 and order-book.ts 32-97: the invariant is kept by
\* every call and every pass of the loop.
THEOREM EngineInvariant == Spec => []EngineInv
BY EngineInit, EngineStep, PTL DEF Spec

\* A side in order has the levels the property asks for.
LEMMA SideSorted ==
    ASSUME NEW levels, NEW side, SideOK(levels, side)
    PROVE  \A i, j \in DOMAIN levels :
            /\ i < j => ComesFirst(side, levels[i].price, levels[j].price)
            /\ levels[i].orders # <<>>
            /\ \A k, m \in DOMAIN levels[i].orders :
                    /\ levels[i].orders[k].price = levels[i].price
                    /\ k < m => levels[i].orders[k].sequence < levels[i].orders[m].sequence
BY DEF SideOK, QueueOK, Ordered

\* order-book.ts 32-97: whatever was added, filled or cancelled, no level is empty,
\* the levels stand best price first and the orders of a level oldest first.
THEOREM EngineLevelsSorted == Spec => []LevelsSorted
<1>1. EngineInv => LevelsSorted
  <2> SUFFICES ASSUME EngineInv, NEW side \in Sides
               PROVE  LET levels == IF side = "BUY" THEN bids ELSE asks IN
                      \A i, j \in DOMAIN levels :
                        /\ i < j => ComesFirst(side, levels[i].price, levels[j].price)
                        /\ levels[i].orders # <<>>
                        /\ \A k, m \in DOMAIN levels[i].orders :
                            /\ levels[i].orders[k].price = levels[i].price
                            /\ k < m => levels[i].orders[k].sequence < levels[i].orders[m].sequence
    BY DEF LevelsSorted
  <2>1. PICK levels : levels = IF side = "BUY" THEN bids ELSE asks
    OBVIOUS
  <2>2. SideOK(levels, side)
    BY <2>1 DEF EngineInv, Sides
  <2> QED
    BY <2>1, <2>2, SideSorted
<1> QED
  BY <1>1, EngineInvariant, PTL
-----------------------------------------------------------------------------
(* What one pass of the loop leaves of the closed form *)

\* A set of orders offers what an order more of it offers.
LEMMA OfferedInsert ==
    ASSUME NEW S, IsFiniteSet(S), NEW x, x \notin S,
           \A e \in S \cup {x} : e.remaining \in Nat
    PROVE  Offered(S \cup {x}) = Offered(S) + x.remaining
<1>1. PICK f : f = [e \in S |-> e.remaining]
  OBVIOUS
<1>2. PICK g : g = [e \in S \cup {x} |-> e.remaining]
  OBVIOUS
<1>3. f \in [S -> Nat] /\ g \in [S \cup {x} -> Nat]
  BY <1>1, <1>2
<1>4. (\A e \in S : g[e] = f[e]) /\ g[x] = x.remaining
  BY <1>1, <1>2
<1>5. NatSum(g, S \cup {x}) = NatSum(f, S) + g[x]
  BY <1>3, <1>4, NatSumInsert
<1> QED
  BY <1>1, <1>2, <1>4, <1>5 DEF Offered

\* The orders of a set without q of its order m offer q less.
LEMMA OfferedWithout ==
    ASSUME NEW S, IsFiniteSet(S), S \subseteq BookOrder, NEW m \in S,
           \A e \in S : e.id = m.id => e = m,
           NEW q \in Nat \ {0}, q <= m.remaining
    PROVE  /\ Offered(Without(S, m, q)) = Offered(S) - q
           /\ Offered(S) \in Nat
<1>1. PICK T : T = S \ {m}
  OBVIOUS
<1>2. IsFiniteSet(T) /\ m \notin T /\ S = T \cup {m} /\ T \subseteq EngineOrder /\ S \subseteq EngineOrder
  BY <1>1, FS_RemoveElement DEF BookOrder
<1>3. \A e \in T \cup {m} : e.remaining \in Nat
  BY <1>2 DEF EngineOrder
<1>4. Offered(S) = Offered(T) + m.remaining /\ Offered(T) \in Nat /\ m.remaining \in Nat
  BY <1>2, <1>3, OfferedInsert, OfferedType
<1>5. CASE q = m.remaining
  BY <1>1, <1>4, <1>5 DEF Without
<1>6. CASE q # m.remaining
  <2>1. PICK o : o = [m EXCEPT !.remaining = @ - q]
    OBVIOUS
  <2>2. o.remaining = m.remaining - q /\ o.id = m.id /\ o.remaining \in Nat
    BY <1>4, <2>1 DEF BookOrder, EngineOrder
  <2>3. o \notin T
    <3>1. o # m
      BY <1>4, <2>2
    <3> QED
      BY <1>1, <2>2, <3>1
  <2>4. \A e \in T \cup {o} : e.remaining \in Nat
    BY <1>3, <2>2
  <2>5. Offered(T \cup {o}) = Offered(T) + o.remaining
    BY <1>2, <2>3, <2>4, OfferedInsert
  <2> QED
    BY <1>1, <1>4, <1>6, <2>1, <2>2, <2>5 DEF Without
<1> QED
  BY <1>5, <1>6

\* What is left of the orders are orders.
LEMMA WithoutSet ==
    ASSUME NEW S, IsFiniteSet(S), S \subseteq BookOrder, NEW m \in S,
           NEW q \in Nat \ {0}, q <= m.remaining
    PROVE  /\ IsFiniteSet(Without(S, m, q)) /\ Without(S, m, q) \subseteq BookOrder
           /\ Offered(Without(S, m, q)) \in Nat
<1>1. PICK o : o = [m EXCEPT !.remaining = @ - q]
  OBVIOUS
<1>2. \/ Without(S, m, q) = S \ {m}
      \/ q # m.remaining /\ Without(S, m, q) = (S \ {m}) \cup {o}
  BY <1>1 DEF Without
<1>3. IsFiniteSet(S \ {m}) /\ IsFiniteSet((S \ {m}) \cup {o})
  BY FS_RemoveElement, FS_AddElement
<1>4. m \in BookOrder /\ m.remaining \in Nat
  BY DEF BookOrder, EngineOrder
<1>5. q # m.remaining => m.remaining - q \in Nat \ {0}
  BY <1>4
<1>6. q # m.remaining => o \in BookOrder
  BY <1>1, <1>4, <1>5 DEF BookOrder, EngineOrder
<1>7. IsFiniteSet(Without(S, m, q)) /\ Without(S, m, q) \subseteq BookOrder
  BY <1>2, <1>3, <1>6
<1>8. Without(S, m, q) \subseteq EngineOrder
  BY <1>7 DEF BookOrder
<1> QED
  BY <1>7, <1>8, OfferedType

\* A pass of the loop: the taker, on the other side of m, takes q of m.
Pass(bk, t, m, q, t2) ==
    /\ IsFiniteSet(bk) /\ bk \subseteq BookOrder
    /\ \A e, f \in bk : e.id = f.id => e = f
    /\ t.remaining \in Nat \ {0}
    /\ m \in bk /\ IsFirst(bk, m, t.side) /\ Crosses(t, m) /\ m.user # t.user
    /\ q \in Nat \ {0} /\ q = Least(m.remaining, t.remaining)
    /\ q <= m.remaining /\ q <= t.remaining
    /\ t2 = [t EXCEPT !.remaining = @ - q]
    /\ t \in [id : Nat, user : Users, side : Sides, type : OrderTypes, price : Nat,
              remaining : Nat, sequence : Nat]

\* What m becomes, and what is known of both.
LEMMA PassFacts ==
    ASSUME NEW bk, NEW t, NEW m, NEW q, NEW t2, Pass(bk, t, m, q, t2),
           NEW o, o = [m EXCEPT !.remaining = @ - q]
    PROVE  /\ m \in BookOrder /\ m.side # t.side /\ m.remaining \in Nat \ {0}
           /\ o.id = m.id /\ o.user = m.user /\ o.side = m.side /\ o.type = m.type
           /\ o.price = m.price /\ o.sequence = m.sequence /\ o.remaining = m.remaining - q
           /\ t2.id = t.id /\ t2.user = t.user /\ t2.side = t.side /\ t2.type = t.type
           /\ t2.price = t.price /\ t2.sequence = t.sequence
           /\ t2.remaining = t.remaining - q /\ t2.remaining \in Nat
           /\ o # m /\ (q # m.remaining => o \in BookOrder /\ o \notin bk /\ t2.remaining = 0)
<1>1. m \in BookOrder /\ m.side # t.side
  BY DEF Pass, IsFirst
<1>2. m.remaining \in Nat \ {0}
  BY <1>1 DEF BookOrder, EngineOrder
<1>3. /\ o.id = m.id /\ o.user = m.user /\ o.side = m.side /\ o.type = m.type
      /\ o.price = m.price /\ o.sequence = m.sequence /\ o.remaining = m.remaining - q
  BY <1>1 DEF BookOrder, EngineOrder
<1>4. /\ t2.id = t.id /\ t2.user = t.user /\ t2.side = t.side /\ t2.type = t.type
      /\ t2.price = t.price /\ t2.sequence = t.sequence
      /\ t2.remaining = t.remaining - q
  BY DEF Pass
<1>5. t2.remaining \in Nat /\ q \in Nat \ {0} /\ q <= m.remaining /\ q <= t.remaining
  BY <1>4 DEF Pass
<1>10. m.remaining - q # m.remaining
  BY <1>2, <1>5
<1>6. o # m
  BY <1>3, <1>10
<1>7. q # m.remaining => t2.remaining = 0
  BY <1>2, <1>4 DEF Pass, Least
<1>8. o \notin bk
  BY <1>3, <1>6 DEF Pass
<1>9. q # m.remaining => o \in BookOrder
  <2>1. q # m.remaining => m.remaining - q \in Nat \ {0}
    BY <1>2, <1>5
  <2> QED
    BY <1>1, <2>1 DEF BookOrder, EngineOrder
<1> QED
  BY <1>1, <1>2, <1>3, <1>4, <1>5, <1>6, <1>7, <1>8, <1>9

\* The taker reaches the same orders after the pass, but what it took.
LEMMA PassReachable ==
    ASSUME NEW bk, NEW t, NEW m, NEW q, NEW t2, Pass(bk, t, m, q, t2)
    PROVE  /\ Reachable(Without(bk, m, q), t2) = Without(Reachable(bk, t), m, q)
           /\ m \in Reachable(bk, t)
<1>1. PICK o : o = [m EXCEPT !.remaining = @ - q]
  OBVIOUS
<1>2. /\ m.side # t.side /\ o.side = m.side /\ o.price = m.price
      /\ t2.side = t.side /\ t2.type = t.type /\ t2.price = t.price
  BY <1>1, PassFacts
<1>3. m \in bk /\ Crosses(t, m)
  BY DEF Pass
<1>4. \A e : Crosses(t2, e) <=> Crosses(t, e)
  BY <1>2 DEF Crosses
<1>5. Crosses(t, o)
  BY <1>2, <1>3 DEF Crosses
<1> QED
  BY <1>1, <1>2, <1>3, <1>4, <1>5 DEF Reachable, Without

\* So it has the same makers, but what it took.
LEMMA PassMakers ==
    ASSUME NEW bk, NEW t, NEW m, NEW q, NEW t2, Pass(bk, t, m, q, t2)
    PROVE  /\ Makers(Without(bk, m, q), t2) = Without(Makers(bk, t), m, q)
           /\ m \in Makers(bk, t)
           /\ \A u \in {t.user} : \A S \in {Reachable(bk, t)} :
                (\E e \in Without(S, m, q) : e.user = u) <=> \E e \in S : e.user = u
<1>1. PICK o : o = [m EXCEPT !.remaining = @ - q]
  OBVIOUS
<1>2. /\ m.side # t.side /\ o.side = m.side /\ o.price = m.price /\ o.user = m.user
      /\ o.sequence = m.sequence /\ t2.user = t.user
  BY <1>1, PassFacts
<1>3. m.user # t.user
  BY DEF Pass
<1>4. PICK R : R = Reachable(bk, t)
  OBVIOUS
<1>5. PICK R2 : R2 = Reachable(Without(bk, m, q), t2)
  OBVIOUS
<1>6. R2 = Without(R, m, q) /\ m \in R
  BY <1>4, <1>5, PassReachable
<1>7. PICK own : own = {e \in R : e.user = t.user}
  OBVIOUS
<1>8. own = {e \in R2 : e.user = t2.user}
  BY <1>1, <1>2, <1>3, <1>6, <1>7 DEF Without
<1>9. \A e \in own : Before(m, e)
  <2>1. \A e \in bk : e.side # t.side => e = m \/ Before(m, e)
    BY DEF Pass, IsFirst
  <2>2. \A e \in R : e \in bk /\ e.side # t.side
    BY <1>4 DEF Reachable
  <2>3. \A e \in own : e \in R /\ e # m
    BY <1>3, <1>7
  <2> QED
    BY <2>1, <2>2, <2>3
<1>10. \A e \in own : Before(o, e)
  BY <1>2, <1>9 DEF Before
<1>11. Makers(bk, t) = {e \in R \ own : \A f \in own : Before(e, f)}
  BY <1>4, <1>7 DEF Makers
<1>12. Makers(Without(bk, m, q), t2) = {e \in R2 \ own : \A f \in own : Before(e, f)}
  BY <1>5, <1>8 DEF Makers
<1>13. m \notin own /\ o \notin own
  BY <1>2, <1>3, <1>7
<1>14. m \in Makers(bk, t)
  BY <1>6, <1>9, <1>11, <1>13
<1>15. Makers(Without(bk, m, q), t2) = Without(Makers(bk, t), m, q)
  <2>1. CASE q = m.remaining
    <3>1. R2 = R \ {m}
      BY <1>6, <2>1 DEF Without
    <3> QED
      BY <1>11, <1>12, <2>1, <3>1 DEF Without
  <2>2. CASE q # m.remaining
    <3>1. R2 = (R \ {m}) \cup {o}
      BY <1>1, <1>6, <2>2 DEF Without
    <3>2. Makers(Without(bk, m, q), t2) = (Makers(bk, t) \ {m}) \cup {o}
      BY <1>10, <1>11, <1>12, <1>13, <3>1
    <3> QED
      BY <1>1, <2>2, <3>2 DEF Without
  <2> QED
    BY <2>1, <2>2
<1>16. (\E e \in R2 : e.user = t.user) <=> \E e \in R : e.user = t.user
  BY <1>2, <1>7, <1>8
<1> QED
  BY <1>4, <1>6, <1>14, <1>15, <1>16

\* So it is left with the same, for the same reason.
LEMMA PassLeft ==
    ASSUME NEW bk, NEW t, NEW m, NEW q, NEW t2, Pass(bk, t, m, q, t2)
    PROVE  /\ Left(Without(bk, m, q), t2) = Left(bk, t)
           /\ SelfTrade(Without(bk, m, q), t2) <=> SelfTrade(bk, t)
           /\ Rests(Without(bk, m, q), t2) <=> Rests(bk, t)
<1>1. PICK M : M = Makers(bk, t)
  OBVIOUS
<1>2. M \subseteq bk /\ IsFiniteSet(M)
  BY <1>1, MakersInBook DEF Pass
<1>3. m \in M /\ Makers(Without(bk, m, q), t2) = Without(M, m, q)
  BY <1>1, PassMakers
<1>4. M \subseteq BookOrder /\ (\A e \in M : e.id = m.id => e = m)
      /\ q \in Nat \ {0} /\ q <= m.remaining /\ q <= t.remaining /\ t.remaining \in Nat
  BY <1>2, <1>3 DEF Pass
<1>5. Offered(Without(M, m, q)) = Offered(M) - q /\ Offered(M) \in Nat
  BY <1>2, <1>3, <1>4, OfferedWithout
<1>6. t2.remaining = t.remaining - q /\ t2.user = t.user /\ t2.type = t.type
  BY DEF Pass
<1>7. q <= Offered(M)
  <2>1. Offered(Without(M, m, q)) \in Nat
    BY <1>2, <1>3, <1>4, WithoutSet
  <2> QED
    BY <1>4, <1>5, <2>1
<1>8. Left(Without(bk, m, q), t2) = Left(bk, t)
  BY <1>1, <1>3, <1>4, <1>5, <1>6, <1>7 DEF Left, Least
<1>9. SelfTrade(Without(bk, m, q), t2) <=> SelfTrade(bk, t)
  BY <1>6, <1>8, PassReachable, PassMakers DEF SelfTrade
<1> QED
  BY <1>6, <1>8, <1>9 DEF Rests
-----------------------------------------------------------------------------
\* What stands before the others offers q less to them, and they are taken of
\* as much as before.
LEMMA PassTaken ==
    ASSUME NEW bk, NEW t, NEW m, NEW q, NEW t2, Pass(bk, t, m, q, t2),
           NEW M, M = Makers(bk, t), NEW e \in M, e # m
    PROVE  /\ Ahead(M, e) = Ahead(Without(M, m, q), e) + q
           /\ Ahead(Without(M, m, q), e) \in Nat
           /\ Taken(Without(M, m, q), t2.remaining, e) = Taken(M, t.remaining, e)
<1>1. PICK o : o = [m EXCEPT !.remaining = @ - q]
  OBVIOUS
<1>2. M \subseteq bk /\ IsFiniteSet(M)
  BY MakersInBook DEF Pass
<1>3. m \in M
  BY PassMakers
<1>4. /\ m.side # t.side /\ o.id = m.id /\ o.side = m.side /\ o.price = m.price
      /\ o.sequence = m.sequence /\ o # m
      /\ t2.remaining = t.remaining - q /\ t2.remaining \in Nat
  BY <1>1, PassFacts
<1>5. Before(m, e)
  <2>1. \A f \in bk : f.side # t.side => f = m \/ Before(m, f)
    BY DEF Pass, IsFirst
  <2>2. e \in bk /\ e.side # t.side
    BY DEF Makers, Reachable
  <2> QED
    BY <2>1, <2>2
<1>6. Before(o, e)
  BY <1>4, <1>5 DEF Before
<1>7. PICK A : A = {f \in M : Before(f, e)}
  OBVIOUS
<1>8. {f \in Without(M, m, q) : Before(f, e)} = Without(A, m, q)
  <2>1. CASE q = m.remaining
    BY <1>7, <2>1 DEF Without
  <2>2. CASE q # m.remaining
    BY <1>1, <1>6, <1>7, <2>2 DEF Without
  <2> QED
    BY <2>1, <2>2
<1>9. /\ A \subseteq BookOrder /\ IsFiniteSet(A) /\ m \in A
      /\ (\A f \in A : f.id = m.id => f = m)
      /\ q \in Nat \ {0} /\ q <= m.remaining /\ q <= t.remaining /\ t.remaining \in Nat
  BY <1>2, <1>3, <1>5, <1>7, FS_Subset DEF Pass
<1>10. Offered(Without(A, m, q)) = Offered(A) - q /\ Offered(A) \in Nat
  BY <1>9, OfferedWithout
<1>11. Offered(Without(A, m, q)) \in Nat
  BY <1>9, WithoutSet
<1>12. Ahead(M, e) = Offered(A) /\ Ahead(Without(M, m, q), e) = Offered(Without(A, m, q))
  BY <1>7, <1>8 DEF Ahead
<1>13. e.remaining \in Nat
  BY <1>2 DEF Pass, BookOrder, EngineOrder
<1>14. Ahead(M, e) = Ahead(Without(M, m, q), e) + q /\ Ahead(Without(M, m, q), e) \in Nat
  BY <1>9, <1>10, <1>11, <1>12
<1>15. Taken(Without(M, m, q), t2.remaining, e) = Taken(M, t.remaining, e)
  BY <1>4, <1>9, <1>13, <1>14 DEF Taken, Least
<1> QED
  BY <1>14, <1>15

\* Nothing stands before m: it is taken of first, and what is left of it not at all.
LEMMA PassFirst ==
    ASSUME NEW bk, NEW t, NEW m, NEW q, NEW t2, Pass(bk, t, m, q, t2),
           NEW M, M = Makers(bk, t), NEW o, o = [m EXCEPT !.remaining = @ - q]
    PROVE  /\ Ahead(M, m) = 0 /\ Taken(M, t.remaining, m) = q
           /\ q # m.remaining => Taken(Without(M, m, q), t2.remaining, o) = 0
<1>1. M \subseteq bk /\ IsFiniteSet(M) /\ m \in M
  BY MakersInBook, PassMakers DEF Pass
<1>2. /\ m \in BookOrder /\ o.id = m.id /\ o.side = m.side /\ o.price = m.price
      /\ o.sequence = m.sequence /\ m.remaining \in Nat \ {0}
      /\ t2.remaining = t.remaining - q
      /\ (q # m.remaining => o \in BookOrder /\ t2.remaining = 0)
  BY PassFacts
<1>3. m.price \in Nat /\ m.sequence \in Nat
  BY <1>2 DEF BookOrder, EngineOrder
<1>4. \A e \in M : ~Before(e, m)
  <2>1. ASSUME NEW e \in M, Before(e, m) PROVE FALSE
    <3>1. e \in bk /\ e.side # t.side /\ e \in BookOrder
      BY <1>1 DEF Makers, Reachable, Pass
    <3>2. e.price \in Nat /\ e.sequence \in Nat /\ e.side \in Sides
      BY <3>1 DEF BookOrder, EngineOrder
    <3>3. e = m \/ Before(m, e)
      BY <3>1 DEF Pass, IsFirst
    <3>4. m.side # t.side /\ m.side \in Sides /\ t.side \in Sides
      BY <1>2 DEF Pass, IsFirst, BookOrder, EngineOrder
    <3>5. m.side = e.side
      BY <3>1, <3>2, <3>4 DEF Sides
    <3>6. e = m => FALSE
      BY <1>3, <2>1 DEF Before
    <3>7. Before(m, e) => FALSE
      BY <1>3, <2>1, <3>2, <3>5 DEF Before
    <3> QED
      BY <3>3, <3>6, <3>7
  <2> QED
    BY <2>1
<1>5. {f \in M : Before(f, m)} = {}
  BY <1>4
<1>6. Offered({}) = 0
  <2>1. PICK f : f = [e \in {} |-> e.remaining]
    OBVIOUS
  <2>2. f \in [{} -> Int] /\ IsFiniteSet({}) /\ \A x \in {} : f[x] = 0
    BY <2>1, FS_EmptySet
  <2>3. NatSum(f, {}) = 0
    BY <2>2, NatSumZero
  <2> QED
    BY <2>1, <2>3 DEF Offered
<1>7. Ahead(M, m) = 0
  BY <1>5, <1>6 DEF Ahead
<1>8. t.remaining \in Nat \ {0} /\ q = Least(m.remaining, t.remaining)
  BY DEF Pass
<1>9. Taken(M, t.remaining, m) = q
  BY <1>2, <1>7, <1>8 DEF Taken, Least
<1>10. ASSUME q # m.remaining
       PROVE  Taken(Without(M, m, q), t2.remaining, o) = 0
  <2>1. IsFiniteSet(Without(M, m, q)) /\ Without(M, m, q) \subseteq BookOrder
    <3>1. M \subseteq BookOrder /\ q \in Nat \ {0} /\ q <= m.remaining
      BY <1>1 DEF Pass
    <3> QED
      BY <1>1, <3>1, WithoutSet
  <2>2. PICK A : A = {f \in Without(M, m, q) : Before(f, o)}
    OBVIOUS
  <2>3. IsFiniteSet(A) /\ A \subseteq EngineOrder
    BY <2>1, <2>2, FS_Subset DEF BookOrder
  <2>4. Ahead(Without(M, m, q), o) \in Nat
    BY <2>2, <2>3, OfferedType DEF Ahead
  <2>5. t2.remaining = 0
    BY <1>2, <1>10
  <2> QED
    BY <2>4, <2>5 DEF Taken
<1> QED
  BY <1>7, <1>9, <1>10

\* What rests of the taker is decided before the pass.
LEMMA PassRest ==
    ASSUME NEW bk, NEW t, NEW m, NEW q, NEW t2, Pass(bk, t, m, q, t2),
           AfterFills(Without(bk, m, q), t2) = AfterFills(bk, t)
    PROVE  Matched(Without(bk, m, q), t2) = Matched(bk, t)
<1>1. \A r : [t2 EXCEPT !.remaining = r] = [t EXCEPT !.remaining = r]
  BY DEF Pass
<1>2. [t2 EXCEPT !.remaining = Left(Without(bk, m, q), t2)] = [t EXCEPT !.remaining = Left(bk, t)]
  BY <1>1, PassLeft
<1> QED
  BY <1>2, PassLeft DEF Matched

\* The book after the call is decided before the pass.
LEMMA PassMatched ==
    ASSUME NEW bk, NEW t, NEW m, NEW q, NEW t2, Pass(bk, t, m, q, t2)
    PROVE  Matched(Without(bk, m, q), t2) = Matched(bk, t)
<1>1. PICK M : M = Makers(bk, t)
  OBVIOUS
<1>2. PICK o : o = [m EXCEPT !.remaining = @ - q]
  OBVIOUS
<1>3. PICK M2 : M2 = Without(M, m, q)
  OBVIOUS
<1>4. Makers(Without(bk, m, q), t2) = M2 /\ m \in M /\ M \subseteq bk
  BY <1>1, <1>3, PassMakers, MakersInBook DEF Pass
<1> DEFINE taken(e) == Taken(M, t.remaining, e)
           taken2(e) == Taken(M2, t2.remaining, e)
           less(e) == [e EXCEPT !.remaining = @ - taken(e)]
           less2(e) == [e EXCEPT !.remaining = @ - taken2(e)]
           S == {less(e) : e \in {f \in M : taken(f) < f.remaining}}
           S2 == {less2(e) : e \in {f \in M2 : taken2(f) < f.remaining}}
<1>5. AfterFills(bk, t) = (bk \ M) \cup S
  BY <1>1 DEF AfterFills
<1>6. AfterFills(Without(bk, m, q), t2) = (Without(bk, m, q) \ M2) \cup S2
  BY <1>4 DEF AfterFills
<1>7. \A e \in M \ {m} : taken2(e) = taken(e)
  BY <1>1, <1>3, PassTaken
<1>8. taken(m) = q /\ (q # m.remaining => taken2(o) = 0)
  BY <1>1, <1>2, <1>3, PassFirst
<1>9. /\ m.remaining \in Nat \ {0} /\ o.remaining = m.remaining - q /\ (o \notin bk \/ q = m.remaining)
  BY <1>2, PassFacts
<1>10. o \in BookOrder \/ q = m.remaining
  BY <1>2, PassFacts
<1>11. Without(bk, m, q) \ M2 = bk \ M
  <2>1. CASE q = m.remaining
    BY <1>3, <1>4, <2>1 DEF Without
  <2>2. CASE q # m.remaining
    BY <1>2, <1>3, <1>4, <1>9, <2>2 DEF Without
  <2> QED
    BY <2>1, <2>2
<1>12. CASE q = m.remaining
  <2>1. M2 = M \ {m}
    BY <1>3, <1>12 DEF Without
  <2>2. ~(taken(m) < m.remaining)
    <3>1. m.remaining \in Nat
      BY <1>2, PassFacts
    <3> QED
      BY <1>8, <1>12, <3>1
  <2> HIDE DEF taken, taken2
  <2>3. S = S2
    BY <1>7, <2>1, <2>2
  <2> QED
    BY <1>5, <1>6, <1>11, <2>3, PassRest
<1>13. CASE q # m.remaining
  <2>1. M2 = (M \ {m}) \cup {o} /\ o \notin M
    BY <1>2, <1>3, <1>4, <1>9, <1>13 DEF Without
  <2>2. taken(m) < m.remaining /\ less(m) = o
    <3>1. q < m.remaining
      BY <1>9, <1>13 DEF Pass
    <3> QED
      BY <1>2, <1>8, <3>1
  <2>3. taken2(o) < o.remaining /\ less2(o) = o
    <3>1. taken2(o) = 0 /\ o.remaining \in Nat \ {0}
      BY <1>8, <1>10, <1>13 DEF BookOrder, EngineOrder
    <3>2. o.remaining - 0 = o.remaining
      BY <3>1
    <3>3. [o EXCEPT !.remaining = @ - taken2(o)] = [o EXCEPT !.remaining = o.remaining]
      BY <3>1, <3>2
    <3>4. [o EXCEPT !.remaining = o.remaining] = o
      BY <1>10, <1>13 DEF BookOrder, EngineOrder
    <3> QED
      BY <3>1, <3>3, <3>4
  <2> HIDE DEF taken, taken2
  <2>4. \A e \in M \ {m} : less(e) = less2(e)
    BY <1>7
  <2> HIDE DEF less, less2
  <2>5. S = S2
    BY <1>4, <1>7, <2>1, <2>2, <2>3, <2>4
  <2> QED
    <3> HIDE DEF S, S2
    <3>1. AfterFills(Without(bk, m, q), t2) = AfterFills(bk, t)
      BY <1>5, <1>6, <1>11, <2>5
    <3> QED
      BY <3>1, PassRest
<1> QED
  BY <1>12, <1>13
\* The fills of the taker are the one of the pass and those made after it.
LEMMA PassFills ==
    ASSUME NEW bk, NEW t, NEW m, NEW q, NEW t2, Pass(bk, t, m, q, t2)
    PROVE  Fills(bk, t) = {[maker |-> m.id, price |-> m.price, quantity |-> q, ahead |-> 0]}
                          \cup {[f EXCEPT !.ahead = @ + q] : f \in Fills(Without(bk, m, q), t2)}
<1>1. PICK M : M = Makers(bk, t)
  OBVIOUS
<1>2. PICK o : o = [m EXCEPT !.remaining = @ - q]
  OBVIOUS
<1>3. PICK M2 : M2 = Without(M, m, q)
  OBVIOUS
<1>4. Makers(Without(bk, m, q), t2) = M2 /\ m \in M
  BY <1>1, <1>3, PassMakers
<1> DEFINE taken(e) == Taken(M, t.remaining, e)
           taken2(e) == Taken(M2, t2.remaining, e)
           fill(e) == FillOf(M, t.remaining, e)
           fill2(e) == FillOf(M2, t2.remaining, e)
           later(f) == [f EXCEPT !.ahead = @ + q]
           first == [maker |-> m.id, price |-> m.price, quantity |-> q, ahead |-> 0]
<1>5. Fills(bk, t) = {fill(e) : e \in {f \in M : taken(f) > 0}}
  BY <1>1 DEF Fills
<1>6. Fills(Without(bk, m, q), t2) = {fill2(e) : e \in {f \in M2 : taken2(f) > 0}}
  BY <1>4 DEF Fills
<1>7. \A e \in M \ {m} : taken2(e) = taken(e) /\ fill(e) = later(fill2(e))
  <2>1. ASSUME NEW e \in M \ {m} PROVE taken2(e) = taken(e) /\ fill(e) = later(fill2(e))
    <3>1. Ahead(M, e) = Ahead(M2, e) + q /\ taken2(e) = taken(e)
      BY <1>1, <1>3, PassTaken
    <3> QED
      BY <3>1 DEF FillOf
  <2> QED
    BY <2>1
<1>8. taken(m) = q /\ fill(m) = first /\ (q # m.remaining => taken2(o) = 0)
  <2>1. Ahead(M, m) = 0 /\ taken(m) = q /\ (q # m.remaining => taken2(o) = 0)
    BY <1>1, <1>2, <1>3, PassFirst
  <2> QED
    BY <2>1 DEF FillOf
<1>9. taken(m) > 0
  BY <1>8 DEF Pass
<1>10. {f \in M2 : taken2(f) > 0} = {f \in M \ {m} : taken2(f) > 0}
  <2> HIDE DEF taken2
  <2>1. CASE q = m.remaining
    BY <1>3, <2>1 DEF Without
  <2>2. CASE q # m.remaining
    <3>1. M2 = (M \ {m}) \cup {o}
      BY <1>2, <1>3, <2>2 DEF Without
    <3>2. ~(taken2(o) > 0)
      BY <1>8, <2>2
    <3> QED
      BY <3>1, <3>2
  <2> QED
    BY <2>1, <2>2
<1> HIDE DEF taken, taken2, fill, fill2, later, first
<1>11. {f \in M \ {m} : taken2(f) > 0} = {f \in M : taken(f) > 0} \ {m}
  BY <1>7
<1>12. Fills(bk, t) = {first} \cup {later(f) : f \in Fills(Without(bk, m, q), t2)}
  <2>1. PICK T : T = {f \in M : taken(f) > 0} \ {m}
    OBVIOUS
  <2>2. Fills(bk, t) = {first} \cup {fill(e) : e \in T}
    BY <1>4, <1>5, <1>8, <1>9, <2>1
  <2>3. Fills(Without(bk, m, q), t2) = {fill2(e) : e \in T}
    BY <1>6, <1>10, <1>11, <2>1
  <2>4. \A e \in T : fill(e) = later(fill2(e))
    BY <1>7, <2>1
  <2> QED
    BY <2>2, <2>3, <2>4
<1> QED
  BY <1>12 DEF first, later

\* A fill has a quantity and a place.
LEMMA FillsType ==
    ASSUME NEW bk, IsFiniteSet(bk), bk \subseteq BookOrder, NEW t, t.remaining \in Nat
    PROVE  Fills(bk, t) \subseteq FillRecord
<1>1. PICK M : M = Makers(bk, t)
  OBVIOUS
<1>2. M \subseteq bk /\ IsFiniteSet(M) /\ M \subseteq EngineOrder
  BY <1>1, MakersInBook DEF BookOrder
<1>3. ASSUME NEW e \in M PROVE FillOf(M, t.remaining, e) \in FillRecord
  <2>1. Taken(M, t.remaining, e) \in Nat
    BY <1>2, TakenType
  <2>2. IsFiniteSet({f \in M : Before(f, e)}) /\ {f \in M : Before(f, e)} \subseteq EngineOrder
    BY <1>2, FS_Subset
  <2>3. Ahead(M, e) \in Nat
    BY <2>2, OfferedType DEF Ahead
  <2>4. e.id \in Nat /\ e.price \in Nat
    BY <1>2 DEF EngineOrder
  <2> QED
    BY <2>1, <2>3, <2>4 DEF FillOf, FillRecord
<1> QED
  BY <1>1, <1>3 DEF Fills
-----------------------------------------------------------------------------
(* What the end of the loop leaves of the closed form *)

\* The taker wants nothing, or the first order it looks at does not match it.
Stops(bk, t) ==
    \/ t.remaining = 0
    \/ \A e \in bk : e.side = t.side
    \/ \E m \in bk : IsFirst(bk, m, t.side) /\ (~Crosses(t, m) \/ m.user = t.user)

\* Then there are no makers to fill it.
LEMMA StopsMakers ==
    ASSUME NEW bk, IsFiniteSet(bk), bk \subseteq BookOrder,
           NEW t \in [id : Nat, user : Users, side : Sides, type : OrderTypes, price : Nat,
                      remaining : Nat, sequence : Nat],
           Stops(bk, t), t.remaining # 0
    PROVE  /\ Makers(bk, t) = {}
           /\ \/ Reachable(bk, t) = {}
              \/ \E m \in Reachable(bk, t) : IsFirst(bk, m, t.side) /\ m.user = t.user
<1>1. CASE \A e \in bk : e.side = t.side
  BY <1>1 DEF Makers, Reachable
<1>2. ASSUME NEW m \in bk, IsFirst(bk, m, t.side), ~Crosses(t, m) \/ m.user = t.user
      PROVE  /\ Makers(bk, t) = {}
             /\ \/ Reachable(bk, t) = {}
                \/ \E n \in Reachable(bk, t) : IsFirst(bk, n, t.side) /\ n.user = t.user
  <2>1. m.side # t.side /\ \A e \in bk : e.side # t.side => e = m \/ Before(m, e)
    BY <1>2 DEF IsFirst
  <2>2. \A e \in bk : e.price \in Nat /\ e.sequence \in Nat /\ e.side \in Sides
    BY DEF BookOrder, EngineOrder
  <2>3. t.side \in Sides /\ t.price \in Nat
    OBVIOUS
  <2>4. CASE ~Crosses(t, m)
    <3>1. ASSUME NEW e \in bk, e.side # t.side, Crosses(t, e) PROVE FALSE
      <4>1. Before(m, e)
        BY <2>1, <2>4, <3>1
      <4>2. CASE t.side = "BUY"
        BY <2>2, <2>3, <2>4, <3>1, <4>1, <4>2, <2>1 DEF Crosses, Before, Sides
      <4>3. CASE t.side = "SELL"
        BY <2>2, <2>3, <2>4, <3>1, <4>1, <4>3, <2>1 DEF Crosses, Before, Sides
      <4> QED
        BY <2>3, <4>2, <4>3 DEF Sides
    <3>2. Reachable(bk, t) = {}
      BY <3>1 DEF Reachable
    <3> QED
      BY <3>2 DEF Makers
  <2>5. CASE Crosses(t, m) /\ m.user = t.user
    <3>1. m \in Reachable(bk, t)
      BY <2>1, <2>5 DEF Reachable
    <3>2. ASSUME NEW e \in Makers(bk, t) PROVE FALSE
      <4>1. e \in bk /\ e.side # t.side /\ e.user # t.user /\ Before(e, m)
        BY <2>5, <3>1 DEF Makers, Reachable
      <4>2. Before(m, e)
        BY <2>1, <2>5, <4>1
      <4>3. e.side = m.side
        BY <2>1, <2>2, <2>3, <4>1 DEF Sides
      <4> QED
        BY <2>2, <4>1, <4>2, <4>3 DEF Before
    <3> QED
      BY <1>2, <2>5, <3>1, <3>2
  <2> QED
    BY <1>2, <2>4, <2>5
<1> QED
  BY <1>1, <1>2 DEF Stops

\* The taker keeps what it wants, fills nothing and leaves the orders as they are.
LEMMA StopsMatched ==
    ASSUME NEW bk, IsFiniteSet(bk), bk \subseteq BookOrder,
           NEW t \in [id : Nat, user : Users, side : Sides, type : OrderTypes, price : Nat,
                      remaining : Nat, sequence : Nat],
           Stops(bk, t)
    PROVE  /\ Left(bk, t) = t.remaining
           /\ Fills(bk, t) = {}
           /\ AfterFills(bk, t) = bk
           /\ Matched(bk, t) = bk \cup (IF Rests(bk, t) THEN {t} ELSE {})
<1>1. PICK M : M = Makers(bk, t)
  OBVIOUS
<1>2. M \subseteq bk /\ IsFiniteSet(M) /\ M \subseteq EngineOrder /\ M \subseteq BookOrder
  BY <1>1, MakersInBook DEF BookOrder
<1>3. t.remaining \in Nat
  OBVIOUS
<1>4. \A e \in M : Taken(M, t.remaining, e) = 0
  <2>1. CASE t.remaining = 0
    <3>1. ASSUME NEW e \in M PROVE Taken(M, t.remaining, e) = 0
      <4>1. IsFiniteSet({f \in M : Before(f, e)}) /\ {f \in M : Before(f, e)} \subseteq EngineOrder
        BY <1>2, FS_Subset
      <4>2. Ahead(M, e) \in Nat
        BY <4>1, OfferedType DEF Ahead
      <4> QED
        BY <2>1, <4>2 DEF Taken
    <3> QED
      BY <3>1
  <2>2. CASE t.remaining # 0
    BY <1>1, <2>2, StopsMakers
  <2> QED
    BY <2>1, <2>2
<1>5. Fills(bk, t) = {}
  BY <1>1, <1>4 DEF Fills
<1>6. Left(bk, t) = t.remaining
  <2>1. Offered(M) \in Nat
    BY <1>2, OfferedType
  <2>2. t.remaining = 0 \/ Offered(M) = 0
    <3>1. CASE t.remaining # 0
      <4>1. M = {}
        BY <1>1, <3>1, StopsMakers
      <4>2. PICK f : f = [e \in {} |-> e.remaining]
        OBVIOUS
      <4>3. f \in [{} -> Int] /\ IsFiniteSet({}) /\ \A x \in {} : f[x] = 0
        BY <4>2, FS_EmptySet
      <4>4. NatSum(f, {}) = 0
        BY <4>3, NatSumZero
      <4> QED
        BY <4>1, <4>2, <4>4 DEF Offered
    <3> QED
      BY <3>1
  <2>3. Left(bk, t) = t.remaining - Least(t.remaining, Offered(M))
    BY <1>1 DEF Left
  <2> QED
    BY <1>3, <2>1, <2>2, <2>3 DEF Least
<1>7. AfterFills(bk, t) = bk
  <2>1. \A e \in M : e.remaining \in Nat \ {0} /\ e.remaining - 0 = e.remaining
    BY <1>2 DEF EngineOrder
  <2>2. \A e \in M : [e EXCEPT !.remaining = e.remaining] = e
    BY <1>2 DEF EngineOrder
  <2> DEFINE taken(e) == Taken(M, t.remaining, e)
             less(e) == [e EXCEPT !.remaining = @ - taken(e)]
  <2>3. \A e \in M : less(e) = e /\ taken(e) < e.remaining
    BY <1>4, <2>1, <2>2
  <2>4. AfterFills(bk, t) = (bk \ M) \cup {less(e) : e \in {m \in M : taken(m) < m.remaining}}
    BY <1>1 DEF AfterFills
  <2> HIDE DEF taken, less
  <2> QED
    BY <1>2, <2>3, <2>4
<1>8. [t EXCEPT !.remaining = Left(bk, t)] = t
  BY <1>6
<1> QED
  BY <1>5, <1>6, <1>7, <1>8 DEF Matched
-----------------------------------------------------------------------------
(* The operators of the abstract engine are those of this module *)

\* A set of orders offers there what it offers here.
LEMMA SameOffered == \A S : Abstract!Offered(S) = Offered(S)
BY DEF Abstract!Offered, Offered, Abstract!NatSum, NatSum, Abstract!Tokens, Tokens,
       Abstract!Cardinality, Cardinality

\* The taker meets the same makers.
LEMMA SameMakers == \A bk, t : /\ Abstract!Reachable(bk, t) = Reachable(bk, t)
                               /\ Abstract!Makers(bk, t) = Makers(bk, t)
BY DEF Abstract!Makers, Makers, Abstract!Reachable, Reachable, Abstract!Crosses, Crosses,
       Abstract!Before, Before

\* It takes as much of each.
LEMMA SameTaken == \A M, n, e : /\ Abstract!Taken(M, n, e) = Taken(M, n, e)
                                /\ Abstract!FillOf(M, n, e) = FillOf(M, n, e)
BY SameOffered DEF Abstract!Taken, Taken, Abstract!Ahead, Ahead, Abstract!Least, Least,
       Abstract!Before, Before, Abstract!FillOf, FillOf

\* The fills are the same.
LEMMA SameFills == \A bk, t : Abstract!Fills(bk, t) = Fills(bk, t)
BY SameMakers, SameTaken DEF Abstract!Fills, Fills

\* The remainder and what becomes of it are the same.
LEMMA SameLeft == \A bk, t : /\ Abstract!Left(bk, t) = Left(bk, t)
                             /\ Abstract!SelfTrade(bk, t) = SelfTrade(bk, t)
                             /\ Abstract!Rests(bk, t) = Rests(bk, t)
BY SameMakers, SameOffered DEF Abstract!Left, Left, Abstract!SelfTrade, SelfTrade,
       Abstract!Rests, Rests, Abstract!Least, Least

\* The book after the call is the same.
LEMMA SameMatched == \A bk, t : Abstract!Matched(bk, t) = Matched(bk, t)
BY SameMakers, SameTaken, SameLeft DEF Abstract!Matched, Matched, Abstract!AfterFills, AfterFills

\* The result of the call is the same.
LEMMA SameResult == \A bk, t : Abstract!ResultOf(bk, t) = ResultOf(bk, t)
BY SameFills, SameLeft DEF Abstract!ResultOf, ResultOf, Abstract!SubmitStatus, SubmitStatus
-----------------------------------------------------------------------------
(* The refinement *)

\* The result of a submit whose fills, in the end, are F.
ResultWith(bk, t, F) ==
    [id |-> t.id, status |-> SubmitStatus(Left(bk, t), F # {}, Rests(bk, t)),
     fills |-> F, remaining |-> Left(bk, t), selfTradePrevented |-> SelfTrade(bk, t)]

\* The results of the engine in that form.
LEMMA ResultIs == \A bk, t, F :
    /\ [ResultOf(bk, t) EXCEPT !.fills = F,
                               !.status = SubmitStatus(Left(bk, t), F # {}, Rests(bk, t))]
          = ResultWith(bk, t, F)
    /\ ResultOf(bk, t) = ResultWith(bk, t, Fills(bk, t))
<1> SUFFICES ASSUME NEW bk, NEW t, NEW F
             PROVE  /\ [ResultOf(bk, t) EXCEPT !.fills = F,
                               !.status = SubmitStatus(Left(bk, t), F # {}, Rests(bk, t))]
                          = ResultWith(bk, t, F)
                    /\ ResultOf(bk, t) = ResultWith(bk, t, Fills(bk, t))
  OBVIOUS
<1>1. ResultOf(bk, t) = ResultWith(bk, t, Fills(bk, t))
  BY DEF ResultOf, ResultWith
<1>2. PICK a, b, c, G : a = SubmitStatus(Left(bk, t), F # {}, Rests(bk, t))
                     /\ b = Left(bk, t) /\ c = SelfTrade(bk, t)
                     /\ G = SubmitStatus(Left(bk, t), Fills(bk, t) # {}, Rests(bk, t))
  OBVIOUS
<1>3. ResultOf(bk, t) = [id |-> t.id, status |-> G, fills |-> Fills(bk, t), remaining |-> b,
                         selfTradePrevented |-> c]
  BY <1>2, Zenon DEF ResultOf
<1>4. ResultWith(bk, t, F) = [id |-> t.id, status |-> a, fills |-> F, remaining |-> b,
                              selfTradePrevented |-> c]
  BY <1>2, Zenon DEF ResultWith
<1>5. [ResultOf(bk, t) EXCEPT !.fills = F, !.status = a] = ResultWith(bk, t, F)
  <2>1. PICK i, H : i = t.id /\ H = Fills(bk, t)
    OBVIOUS
  <2>2. PICK r : r = [id |-> i, status |-> G, fills |-> H, remaining |-> b, selfTradePrevented |-> c]
    OBVIOUS
  <2>3. PICK s : s = [r EXCEPT !.fills = F]
    OBVIOUS
  <2>4. s = [id |-> i, status |-> G, fills |-> F, remaining |-> b, selfTradePrevented |-> c]
    BY <2>2, <2>3
  <2>7. [s EXCEPT !.status = a]
           = [id |-> i, status |-> a, fills |-> F, remaining |-> b, selfTradePrevented |-> c]
    BY <2>4
  <2>5. [r EXCEPT !.fills = F, !.status = a] = [s EXCEPT !.status = a]
    BY <2>2, <2>3
  <2>6. r = ResultOf(bk, t)
    BY <1>3, <2>1, <2>2
  <2> QED
    BY <1>4, <2>1, <2>5, <2>6, <2>7
<1> QED
  BY <1>1, <1>2, <1>5

\* A taker that waits in the loop.
LEMMA TakerFacts ==
    ASSUME EngineInv, taker # NoTaker
    PROVE  /\ taker \in [id : Nat, user : Users, side : Sides, type : OrderTypes, price : Nat,
                         remaining : Nat, sequence : Nat]
           /\ taker.id = sequence /\ taker.id > 0
BY DEF EngineInv, TakerOK

\* The call takes effect at its start.
LEMMA SubmitRefines ==
    ASSUME EngineInv,
           NEW user \in Users, NEW side \in Sides, NEW type \in OrderTypes,
           NEW quantity \in Quantities, NEW price \in PricesFor(type),
           Submit(user, side, type, price, quantity)
    PROVE  Abstract!MatchAtOnce(Abstract!Incoming(user, side, type, price, quantity))
<1>1. PICK t : t = Incoming(user, side, type, price, quantity)
  OBVIOUS
<1>2. Abstract!Incoming(user, side, type, price, quantity) = t
  BY <1>1 DEF Incoming, Abstract!Incoming
<1>3. /\ taker = NoTaker /\ sequence < MaxSubmits /\ sequence' = sequence + 1 /\ taker' = t
      /\ fills' = <<>> /\ bids' = bids /\ asks' = asks
  BY <1>1 DEF Submit
<1>4. Resting' = Resting
  BY <1>3 DEF Resting
<1>5. t.id = sequence + 1 /\ t.remaining \in Nat
  BY <1>1, EngineAssumption DEF Incoming
<1>6. t # NoTaker
  <2>1. sequence + 1 # 0
    BY DEF EngineInv
  <2> QED
    BY <1>5, <2>1 DEF NoTaker
<1>7. MappedBook = Resting /\ MappedBook' = Matched(Resting, t)
  BY <1>3, <1>4, <1>6 DEF MappedBook, NoTaker
<1>8. AllFills' = Fills(Resting, t)
  <2>1. FillSet' = {} /\ Filled(Len(fills))' = 0
    BY <1>3 DEF FillSet, ToSet, Filled
  <2>2. Fills(Resting, t) \subseteq FillRecord
    BY <1>5, RestingFacts, FillsType DEF EngineInv
  <2>3. \A f \in Fills(Resting, t) : [f EXCEPT !.ahead = @ + 0] = f
    BY <2>2 DEF FillRecord
  <2>4. AllFills' = FillSet' \cup {[f EXCEPT !.ahead = @ + Filled(Len(fills))'] :
                                     f \in Fills(Resting', taker')}
    BY DEF AllFills
  <2> QED
    BY <1>3, <1>4, <2>1, <2>3, <2>4
<1>9. MappedResult' = ResultOf(Resting, t)
  <2>1. MappedResult' = ResultWith(Resting, t, AllFills')
    BY <1>3, <1>4, <1>6, ResultIs DEF MappedResult, NoTaker
  <2> QED
    BY <1>8, <2>1, ResultIs
<1>10. /\ MappedBook' = Abstract!Matched(MappedBook, t)
       /\ MappedResult' = Abstract!ResultOf(MappedBook, t)
  BY <1>7, <1>9, SameMatched, SameResult
<1> QED
  BY <1>2, <1>3, <1>10 DEF Abstract!MatchAtOnce

\* A pass of the loop changes nothing that was not decided.
LEMMA FillRefines ==
    ASSUME EngineInv, Fill
    PROVE  MappedBook' = MappedBook /\ MappedResult' = MappedResult /\ sequence' = sequence
<1>1. PICK m \in Resting, q \in Nat \ {0} :
             /\ IsFirst(Resting, m, taker.side) /\ Crosses(taker, m) /\ m.user # taker.user
             /\ q = Least(m.remaining, taker.remaining)
             /\ taker.remaining \in Nat \ {0} /\ q <= m.remaining /\ q <= taker.remaining
             /\ Resting' = Without(Resting, m, q)
             /\ taker' = [taker EXCEPT !.remaining = @ - q]
             /\ fills' = Append(fills, [maker |-> m.id, price |-> m.price, quantity |-> q,
                                        ahead |-> Filled(Len(fills))])
  BY FillStep
<1>2. taker # NoTaker /\ sequence' = sequence
  BY DEF Fill
<1>3. /\ taker \in [id : Nat, user : Users, side : Sides, type : OrderTypes, price : Nat,
                    remaining : Nat, sequence : Nat]
      /\ taker.id > 0
  BY <1>2, TakerFacts
<1>4. taker'.id = taker.id /\ taker' # NoTaker
  <2>1. taker'.id = taker.id
    BY <1>1, <1>3
  <2> QED
    BY <1>3, <2>1 DEF NoTaker
<1>5. Pass(Resting, taker, m, q, taker')
  BY <1>1, <1>3, RestingFacts DEF Pass, EngineInv
<1>6. MappedBook = Matched(Resting, taker) /\ MappedBook' = Matched(Resting', taker')
  BY <1>2, <1>4 DEF MappedBook, NoTaker
<1>7. MappedBook' = MappedBook
  BY <1>1, <1>5, <1>6, PassMatched
<1>8. /\ Left(Resting', taker') = Left(Resting, taker)
      /\ SelfTrade(Resting', taker') <=> SelfTrade(Resting, taker)
      /\ Rests(Resting', taker') <=> Rests(Resting, taker)
  BY <1>1, <1>5, PassLeft
<1>9. PICK F : F = Filled(Len(fills))
  OBVIOUS
<1>10. F \in Nat /\ fills \in Seq(FillRecord)
  BY <1>9, FilledType DEF Filled, EngineInv
<1>11. PICK new : new = [maker |-> m.id, price |-> m.price, quantity |-> q, ahead |-> F]
  OBVIOUS
<1>12. FillSet' = FillSet \cup {new} /\ Filled(Len(fills))' = F + q
  <2>1. fills' = Append(fills, new)
    BY <1>1, <1>9, <1>11
  <2>2. new \in FillRecord
    BY <1>1, <1>10, <1>11, RestingFacts DEF BookOrder, EngineOrder, FillRecord
  <2>3. /\ Len(fills') = Len(fills) + 1 /\ Len(fills) \in Nat /\ DOMAIN fills = 1 .. Len(fills)
        /\ DOMAIN fills' = 1 .. Len(fills) + 1 /\ fills'[Len(fills) + 1] = new
        /\ \A j \in 1 .. Len(fills) : fills'[j] = fills[j]
    BY <1>10, <2>1, <2>2
  <2>4. FillSet' = FillSet \cup {new}
    <3>1. \A j \in 1 .. Len(fills) + 1 : j \in 1 .. Len(fills) \/ j = Len(fills) + 1
      BY <2>3
    <3>2. \A j \in 1 .. Len(fills) : j \in 1 .. Len(fills) + 1
      BY <2>3
    <3>3. Len(fills) + 1 \in 1 .. Len(fills) + 1
      BY <2>3
    <3> QED
      BY <2>3, <3>1, <3>2, <3>3 DEF FillSet, ToSet
  <2>5. Filled(Len(fills))' = new.ahead + new.quantity
    BY <2>3 DEF Filled
  <2> QED
    BY <1>11, <2>4, <2>5
<1>13. AllFills' = AllFills
  <2>1. PICK G : G = Fills(Resting', taker')
    OBVIOUS
  <2>2. PICK first : first = [maker |-> m.id, price |-> m.price, quantity |-> q, ahead |-> 0]
    OBVIOUS
  <2>3. Fills(Resting, taker) = {first} \cup {[f EXCEPT !.ahead = @ + q] : f \in G}
    BY <1>1, <1>5, <2>1, <2>2, PassFills
  <2>4. G \subseteq FillRecord
    <3>1. IsFiniteSet(Resting') /\ Resting' \subseteq BookOrder
      BY <1>1, RestingFacts, WithoutSet DEF EngineInv
    <3>2. taker'.remaining \in Nat
      BY <1>1, <1>3
    <3> QED
      BY <2>1, <3>1, <3>2, FillsType
  <2>5. AllFills = FillSet \cup {[f EXCEPT !.ahead = @ + F] : f \in Fills(Resting, taker)}
    BY <1>9 DEF AllFills
  <2>6. AllFills' = (FillSet \cup {new}) \cup {[f EXCEPT !.ahead = @ + (F + q)] : f \in G}
    BY <1>12, <2>1 DEF AllFills
  <2>7. [first EXCEPT !.ahead = @ + F] = new
    BY <1>10, <1>11, <2>2
  <2>8. \A f \in G : [[f EXCEPT !.ahead = @ + q] EXCEPT !.ahead = @ + F]
                        = [f EXCEPT !.ahead = @ + (F + q)]
    <3>1. ASSUME NEW f \in G
          PROVE  [[f EXCEPT !.ahead = @ + q] EXCEPT !.ahead = @ + F]
                    = [f EXCEPT !.ahead = @ + (F + q)]
      <4>1. f \in FillRecord /\ f.ahead \in Nat /\ q \in Nat /\ F \in Nat
        BY <1>10, <2>4 DEF FillRecord
      <4>2. (f.ahead + q) + F = f.ahead + (F + q)
        BY <4>1
      <4> QED
        BY <4>1, <4>2 DEF FillRecord
    <3> QED
      BY <3>1
  <2> QED
    <3> DEFINE onF(f) == [f EXCEPT !.ahead = @ + F]
               onQ(f) == [f EXCEPT !.ahead = @ + q]
               onBoth(f) == [f EXCEPT !.ahead = @ + (F + q)]
    <3>1. AllFills = FillSet \cup {onF(f) : f \in Fills(Resting, taker)}
      BY <2>5
    <3>2. AllFills' = (FillSet \cup {new}) \cup {onBoth(f) : f \in G}
      BY <2>6
    <3>3. Fills(Resting, taker) = {first} \cup {onQ(f) : f \in G}
      BY <2>3
    <3>4. onF(first) = new /\ \A f \in G : onF(onQ(f)) = onBoth(f)
      BY <2>7, <2>8
    <3> HIDE DEF onF, onQ, onBoth
    <3> QED
      BY <3>1, <3>2, <3>3, <3>4
<1>14. /\ MappedResult = ResultWith(Resting, taker, AllFills)
       /\ MappedResult' = ResultWith(Resting', taker', AllFills')
  BY <1>2, <1>4, ResultIs DEF MappedResult, NoTaker
<1>15. MappedResult' = MappedResult
  <2>1. /\ SelfTrade(Resting', taker') = SelfTrade(Resting, taker)
        /\ Rests(Resting', taker') = Rests(Resting, taker)
    BY <1>8 DEF SelfTrade, Rests
  <2>2. ResultWith(Resting', taker', AllFills) = ResultWith(Resting, taker, AllFills)
    BY <1>4, <1>8, <2>1, Zenon DEF ResultWith
  <2> QED
    BY <1>13, <1>14, <2>2
<1> QED
  BY <1>2, <1>7, <1>15

\* Where the loop stops, the closed form has nothing left to fill.
LEMMA FinishStops ==
    ASSUME EngineInv, taker # NoTaker, ~CanFill
    PROVE  /\ Stops(Resting, taker)
           /\ SelfTradeStop <=> SelfTrade(Resting, taker)
<1>1. PICK m : m = Opposing(taker.side)[1].orders[1]
  OBVIOUS
<1>2. \/ Maker = {} /\ \A e \in Resting : e.side = taker.side
      \/ Maker = {m} /\ IsFirst(Resting, m, taker.side)
  BY <1>1, MakerFacts
<1>3. /\ taker \in [id : Nat, user : Users, side : Sides, type : OrderTypes, price : Nat,
                    remaining : Nat, sequence : Nat]
      /\ IsFiniteSet(Resting) /\ Resting \subseteq BookOrder
  BY RestingFacts, TakerFacts DEF EngineInv
<1>4. crosses(m) <=> Crosses(taker, m)
  BY DEF crosses, Crosses
<1>5. taker.remaining \in Nat
  BY <1>3
<1>6. Stops(Resting, taker)
  BY <1>2, <1>4, <1>5 DEF Stops, CanFill, IsFirst
<1>7. Left(Resting, taker) = taker.remaining
  BY <1>3, <1>6, StopsMatched
<1>8. CASE taker.remaining = 0
  BY <1>6, <1>7, <1>8 DEF SelfTradeStop, SelfTrade
<1>9. CASE taker.remaining # 0
  <2>1. \/ Reachable(Resting, taker) = {}
        \/ \E n \in Reachable(Resting, taker) :
              IsFirst(Resting, n, taker.side) /\ n.user = taker.user
    BY <1>3, <1>6, <1>9, StopsMakers
  <2>2. taker.remaining > 0
    BY <1>5, <1>9
  <2>3. CASE Reachable(Resting, taker) = {}
    <3>1. ~SelfTrade(Resting, taker)
      BY <2>3 DEF SelfTrade
    <3>2. ~SelfTradeStop
      BY <1>2, <1>4, <2>3 DEF SelfTradeStop, Reachable, IsFirst
    <3> QED
      BY <1>6, <3>1, <3>2
  <2>4. ASSUME NEW n \in Reachable(Resting, taker),
               IsFirst(Resting, n, taker.side), n.user = taker.user
        PROVE  SelfTradeStop /\ SelfTrade(Resting, taker)
    <3>1. SelfTrade(Resting, taker)
      BY <1>7, <2>2, <2>4 DEF SelfTrade
    <3>2. n \in Resting /\ n.side # taker.side /\ Crosses(taker, n)
      BY DEF Reachable
    <3>3. Maker = {m} /\ IsFirst(Resting, m, taker.side)
      BY <1>2, <3>2
    <3>4. n = m
      <4>1. ASSUME n # m PROVE FALSE
        <5>1. Before(n, m) /\ Before(m, n)
          BY <2>4, <3>2, <3>3, <4>1 DEF IsFirst
        <5>2. /\ n.price \in Nat /\ m.price \in Nat /\ n.sequence \in Nat /\ m.sequence \in Nat
              /\ n.side \in Sides /\ m.side \in Sides /\ taker.side \in Sides
              /\ n.side # taker.side /\ m.side # taker.side
          BY <1>3, <3>2, <3>3 DEF IsFirst, BookOrder, EngineOrder
        <5>3. n.side = m.side
          BY <5>2 DEF Sides
        <5> QED
          BY <5>1, <5>2, <5>3 DEF Before
      <4> QED
        BY <4>1
    <3>5. crosses(m) /\ m.user = taker.user
      BY <1>4, <2>4, <3>2, <3>4
    <3> QED
      BY <2>2, <3>1, <3>3, <3>5 DEF SelfTradeStop
  <2> QED
    BY <1>6, <2>1, <2>3, <2>4
<1> QED
  BY <1>8, <1>9

\* The code's status is that of the interface.
LEMMA StatusIs ==
    ASSUME NEW left \in Nat, NEW hasFills \in BOOLEAN, NEW rests \in BOOLEAN
    PROVE  SubmitStatus(left, hasFills, rests)
             = IF left = 0 THEN "FILLED"
               ELSE IF rests
               THEN IF ~hasFills THEN "RESTING" ELSE "PARTIALLY_FILLED_RESTING"
               ELSE IF ~hasFills THEN "CANCELLED" ELSE "PARTIALLY_FILLED_CANCELLED"
BY DEF SubmitStatus

\* The end of the loop gives what was decided.
LEMMA FinishRefines ==
    ASSUME EngineInv, Finish
    PROVE  MappedBook' = MappedBook /\ MappedResult' = MappedResult /\ sequence' = sequence
<1>1. taker # NoTaker /\ ~CanFill /\ taker' = NoTaker /\ sequence' = sequence
  BY DEF Finish
<1>2. /\ Stops(Resting, taker)
      /\ SelfTradeStop <=> SelfTrade(Resting, taker)
  BY <1>1, FinishStops
<1>3. /\ taker \in [id : Nat, user : Users, side : Sides, type : OrderTypes, price : Nat,
                    remaining : Nat, sequence : Nat]
      /\ IsFiniteSet(Resting) /\ Resting \subseteq BookOrder
  BY <1>1, RestingFacts, TakerFacts DEF EngineInv
<1>4. /\ Left(Resting, taker) = taker.remaining /\ Fills(Resting, taker) = {}
      /\ Matched(Resting, taker) = Resting \cup (IF Rests(Resting, taker) THEN {taker} ELSE {})
  BY <1>2, <1>3, StopsMatched
<1>5. PICK rests \in BOOLEAN :
        rests <=> (taker.remaining > 0 /\ taker.type = "LIMIT" /\ ~SelfTradeStop)
  OBVIOUS
<1>6. rests <=> Rests(Resting, taker)
  BY <1>2, <1>4, <1>5 DEF Rests
<1>7. Resting' = Resting \cup (IF rests THEN {taker} ELSE {})
  BY <1>5, FinishStep
<1>8. MappedBook' = Resting' /\ MappedBook = Matched(Resting, taker)
  BY <1>1 DEF MappedBook, NoTaker
<1>9. MappedBook' = MappedBook
  BY <1>4, <1>6, <1>7, <1>8
<1>10. AllFills = FillSet
  BY <1>4 DEF AllFills
<1>11. (fills = <<>>) <=> (FillSet = {})
  <2>1. fills \in Seq(FillRecord)
    BY DEF EngineInv
  <2>2. fills # <<>> => 1 \in DOMAIN fills
    BY <2>1
  <2> QED
    BY <2>2 DEF FillSet, ToSet
<1>12. MappedResult' = result' /\ MappedResult = ResultWith(Resting, taker, AllFills)
  BY <1>1, ResultIs DEF MappedResult, NoTaker
<1>13. PICK status :
         status = IF taker.remaining = 0 THEN "FILLED"
                  ELSE IF rests
                  THEN IF fills = <<>> THEN "RESTING" ELSE "PARTIALLY_FILLED_RESTING"
                  ELSE IF fills = <<>> THEN "CANCELLED" ELSE "PARTIALLY_FILLED_CANCELLED"
  OBVIOUS
<1>14. result' = [id |-> taker.id, status |-> status, fills |-> FillSet,
                  remaining |-> taker.remaining, selfTradePrevented |-> SelfTradeStop]
  BY <1>5, <1>13 DEF Finish, finalize
<1>15. SubmitStatus(Left(Resting, taker), AllFills # {}, Rests(Resting, taker)) = status
  <2>1. PICK has \in BOOLEAN : has <=> fills # <<>>
    OBVIOUS
  <2>2. SubmitStatus(taker.remaining, has, rests) = status
    BY <1>3, <1>13, <2>1, StatusIs
  <2>3. has = (AllFills # {}) /\ rests = Rests(Resting, taker)
    BY <1>6, <1>10, <1>11, <2>1 DEF Rests
  <2> QED
    BY <1>4, <2>2, <2>3
<1>16. SelfTradeStop = SelfTrade(Resting, taker)
  BY <1>2 DEF SelfTradeStop, SelfTrade
<1>17. MappedResult' = MappedResult
  BY <1>4, <1>10, <1>12, <1>14, <1>15, <1>16 DEF ResultWith
<1> QED
  BY <1>1, <1>9, <1>17

\* A cancelled order leaves the book.
LEMMA CancelRefines ==
    ASSUME EngineInv, NEW id, Cancel(id)
    PROVE  Abstract!CancelAtOnce(id)
<1>1. taker = NoTaker /\ taker' = taker /\ sequence' = sequence /\ result' = result
  BY DEF Cancel
<1>2. Resting' = {e \in Resting : e.id # id}
  BY CancelStep
<1>3. MappedBook = Resting /\ MappedBook' = Resting' /\ MappedResult = result /\ MappedResult' = result'
  BY <1>1 DEF MappedBook, MappedResult, NoTaker
<1> QED
  BY <1>1, <1>2, <1>3 DEF Abstract!CancelAtOnce

\* The empty arrays are the empty book.
LEMMA InitRefines == Init => Abstract!AtOnceInit
<1> SUFFICES ASSUME Init PROVE Abstract!AtOnceInit
  OBVIOUS
<1>1. bids = <<>> /\ asks = <<>> /\ sequence = 0 /\ taker = NoTaker /\ result = NoResult
  BY DEF Init
<1>2. MappedBook = {} /\ MappedResult = NoResult
  BY <1>1 DEF MappedBook, MappedResult, Resting, OrdersOf
<1> QED
  BY <1>1, <1>2 DEF Abstract!AtOnceInit, Abstract!NoResult, NoResult

\* Every step is a call of the abstract engine or changes nothing there.
LEMMA NextRefines == EngineInv /\ [Next]_vars => [Abstract!AtOnceNext]_(Abstract!atOnceVars)
<1> SUFFICES ASSUME EngineInv, [Next]_vars
             PROVE  [Abstract!AtOnceNext]_(Abstract!atOnceVars)
  OBVIOUS
<1>1. ASSUME NEW user \in Users, NEW side \in Sides, NEW type \in OrderTypes,
             NEW quantity \in Quantities, NEW price \in PricesFor(type),
             Submit(user, side, type, price, quantity)
      PROVE  Abstract!AtOnceNext
  <2>1. Abstract!MatchAtOnce(Abstract!Incoming(user, side, type, price, quantity))
    BY <1>1, SubmitRefines
  <2>2. price \in Abstract!PricesFor(type) /\ side \in Abstract!Sides /\ type \in Abstract!OrderTypes
    BY DEF Abstract!PricesFor, PricesFor, Abstract!Sides, Sides, Abstract!OrderTypes, OrderTypes
  <2> QED
    BY <2>1, <2>2 DEF Abstract!AtOnceNext
<1>2. CASE Fill
  BY <1>2, FillRefines DEF Abstract!atOnceVars
<1>3. CASE Finish
  BY <1>3, FinishRefines DEF Abstract!atOnceVars
<1>4. ASSUME NEW id \in 1 .. sequence, Cancel(id)
      PROVE  Abstract!AtOnceNext
  BY <1>4, CancelRefines DEF Abstract!AtOnceNext
<1>5. CASE UNCHANGED vars
  <2>1. /\ bids' = bids /\ asks' = asks /\ sequence' = sequence /\ taker' = taker
        /\ fills' = fills /\ result' = result
    BY <1>5 DEF vars
  <2>2. Resting' = Resting /\ AllFills' = AllFills
    BY <2>1 DEF Resting, AllFills, FillSet, Filled
  <2>3. MappedBook' = MappedBook /\ MappedResult' = MappedResult
    BY <2>1, <2>2 DEF MappedBook, MappedResult, NoTaker
  <2> QED
    BY <2>1, <2>3 DEF Abstract!atOnceVars
<1> QED
  BY <1>1, <1>2, <1>3, <1>4, <1>5 DEF Next

\* matching-engine.ts 36-92: the loop over the sorted arrays, with the binary search
\* and the self-trade stop, matches exactly by price-time priority.
THEOREM EngineImplements == Spec => ImplementsPriceTimePriority
<1>1. Init => Abstract!AtOnceInit
  BY InitRefines
<1>2. EngineInv /\ [Next]_vars => [Abstract!AtOnceNext]_(Abstract!atOnceVars)
  BY NextRefines
<1> QED
  BY <1>1, <1>2, EngineInvariant, PTL DEF Spec, ImplementsPriceTimePriority, Abstract!AtOnce
\* matching-engine.ts 56-83: a submit leaves an uncrossed book uncrossed, wherever
\* its loop is, since what the call will leave is decided at its start.
LEMMA StepUncrosses ==
    ASSUME EngineInv, IsUncrossed(MappedBook), [Next]_vars
    PROVE  IsUncrossed(MappedBook)'
<1>1. ASSUME NEW user \in Users, NEW side \in Sides, NEW type \in OrderTypes,
             NEW quantity \in Quantities, NEW price \in PricesFor(type),
             Submit(user, side, type, price, quantity)
      PROVE  IsUncrossed(MappedBook)'
  <2>1. PICK t : t = Incoming(user, side, type, price, quantity)
    OBVIOUS
  <2>2. /\ taker = NoTaker /\ taker' = t /\ bids' = bids /\ asks' = asks
        /\ sequence \in Nat
    BY <1>1, <2>1 DEF Submit, EngineInv
  <2>3. t \in EngineOrder /\ t # NoTaker
    <3>1. t \in EngineOrder
      BY <2>1, <2>2, EngineAssumption DEF Incoming, EngineOrder, PricesFor
    <3>2. t.id = sequence + 1 /\ NoTaker.id = 0
      BY <2>1 DEF Incoming, NoTaker
    <3> QED
      BY <2>2, <3>1, <3>2
  <2>4. IsFiniteSet(Resting) /\ Resting \subseteq BookOrder
    BY RestingFacts DEF EngineInv
  <2>5. IsUncrossed(Resting) /\ Resting' = Resting
    BY <2>2 DEF MappedBook, Resting
  <2>6. MappedBook' = Matched(Resting, t)
    BY <2>2, <2>3, <2>5 DEF MappedBook
  <2> QED
    BY <2>3, <2>4, <2>5, <2>6, MatchedUncrossed
<1>2. CASE Fill
  BY <1>2, FillRefines DEF IsUncrossed
<1>3. CASE Finish
  BY <1>3, FinishRefines DEF IsUncrossed
<1>4. ASSUME NEW id \in 1 .. sequence, Cancel(id)
      PROVE  IsUncrossed(MappedBook)'
  <2>1. taker = NoTaker /\ taker' = NoTaker
    BY <1>4 DEF Cancel
  <2>2. Resting' \subseteq Resting
    BY <1>4, CancelStep
  <2> QED
    BY <2>1, <2>2 DEF MappedBook, IsUncrossed
<1>5. CASE UNCHANGED vars
  BY <1>5 DEF vars, MappedBook, Resting, IsUncrossed
<1> QED
  BY <1>1, <1>2, <1>3, <1>4, <1>5 DEF Next

\* After every call the best bid is below the best ask, whatever was submitted,
\* filled, stopped and cancelled before.
THEOREM EngineUncrossed == Spec => []Uncrossed
<1>1. Init => IsUncrossed(MappedBook)
  BY DEF Init, MappedBook, Resting, OrdersOf, IsUncrossed
<1>2. IsUncrossed(MappedBook) => Uncrossed
  BY DEF MappedBook, Uncrossed
<1>3. EngineInv /\ IsUncrossed(MappedBook) /\ [Next]_vars => IsUncrossed(MappedBook)'
  BY StepUncrosses
<1> QED
  BY <1>1, <1>2, <1>3, EngineInvariant, PTL DEF Spec
=============================================================================
